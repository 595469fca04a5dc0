--------------------------- MODULE LoOwnershipProofs ---------------------------
(***************************************************************************)
(* Proofs about LoBundle and LoHandlers, for every finite set of bundles   *)
(* and messages, any paths, types and number of closures, and every bound. *)
(* Counts match, nothing dangles but what the user has freed too often,    *)
(* nothing leaks, nothing is circular: the inductive invariant is Inv, of  *)
(* which Shape says what a bundle that is not in use looks like, and       *)
(* References that of a freed object as many bundles hold it as the user   *)
(* has freed it beyond its references. A freed object that is held thus    *)
(* was overfreed, and one whose memory is used again was neither. Held     *)
(* says why an object that a bundle lets go of is freed at a count of 0    *)
(* and never passes below it. The code's walk finds                        *)
(* a bundle to be circular when it is, whatever bundles hold. And the C++  *)
(* object keeps every closure that liblo may call.                         *)
(***************************************************************************)
EXTENDS LoOwnership, FiniteSetTheorems, SequenceTheorems, TLAPS


\* A bundle is within its bounds; only a dying one has released elements, and one
\* that is free has none.
Shape ==
    /\ \A b \in Bundle : released[b] <= Len(elmnts[b]) /\ Len(elmnts[b]) <= MaxLen
    /\ \A b \in Bundle : status[b] # "dying" => released[b] = 0
    /\ \A b \in Bundle : status[b] = "free" => elmnts[b] = <<>>

Typed == TypeOK /\ Shape

\* The references there are to an object: its count, or none when it is freed.
References ==
    \A o \in Object :
        mine[o] + Cardinality(Holders(o)) = IF o \in live THEN refcount[o] ELSE 0

\* What a bundle holds has a count.
Held == \A o \in live : refcount[o] >= 0 /\ (Holders(o) # {} => refcount[o] > 0)

Counted == References /\ Held
Blamed == undefined => \E o \in Object : Overfreed(o)
Inv == Typed /\ Counted /\ Acyclic /\ Blamed

--------------------------------------------------------------------------------
(***************************************************************************)
(* The places where an object is held.                                     *)
(***************************************************************************)
\* They are finitely many.
LEMMA HoldersFinite ==
    ASSUME NEW o \in Object
    PROVE  IsFiniteSet(Holders(o)) /\ Cardinality(Holders(o)) \in Nat
<1>1. IsFiniteSet(1 .. MaxLen)
  BY FS_Interval, ObjectAssumption
<1>2. IsFiniteSet(Bundle \X (1 .. MaxLen))
  BY <1>1, FS_Product, ObjectAssumption
<1>3. Holders(o) \in SUBSET (Bundle \X (1 .. MaxLen))
  BY DEF Holders
<1> QED
  BY <1>2, <1>3, FS_Subset, FS_CardinalityType

\* An element that a bundle has yet to release is held there.
LEMMA ElementHeld ==
    ASSUME Typed, NEW b \in Bundle, NEW i \in released[b] + 1 .. Len(elmnts[b])
    PROVE  elmnts[b][i] \in Object /\ Holders(elmnts[b][i]) # {}
<1>1. i \in 1 .. Len(elmnts[b]) /\ elmnts[b] \in Seq(Object)
  BY DEF Typed, TypeOK
<1>2. <<b, i>> \in Bundle \X (1 .. MaxLen)
  BY ObjectAssumption, SMTT(30) DEF Typed, TypeOK, Shape
<1>3. <<b, i>> \in Holders(elmnts[b][i])
  BY <1>2 DEF Holders, Typed, TypeOK
<1> QED
  BY <1>1, <1>3

\* An object that is held and not in use has been overfreed.
LEMMA FreedIsOverfreed ==
    ASSUME Typed, References, NEW o \in Object, o \notin live, Holders(o) # {}
    PROVE  Overfreed(o)
<1>1. mine[o] + Cardinality(Holders(o)) = 0 /\ mine[o] \in Int
  BY DEF References, Typed, TypeOK
<1>2. Cardinality(Holders(o)) \in Nat \ {0}
  BY HoldersFinite, FS_EmptySet
<1> QED
  BY <1>1, <1>2 DEF Overfreed

--------------------------------------------------------------------------------
(***************************************************************************)
(* Types and shape.                                                        *)
(***************************************************************************)
LEMMA InitTyped == Init => Typed
<1> SUFFICES ASSUME Init PROVE Typed
  OBVIOUS
<1>1. undefined \in BOOLEAN
  BY DEF Init
<1>2. /\ status \in [Object -> {"free", "live", "dying"}] /\ refcount \in [Object -> Int]
      /\ elmnts \in [Bundle -> Seq(Object)] /\ released \in [Bundle -> Nat]
      /\ calls \in Seq(Bundle) /\ mine \in [Object -> Int]
  BY DEF Init
<1>3. OneCallEach
  BY DEF Init, OneCallEach, Object
<1>4. Shape
  BY ObjectAssumption DEF Init, Shape, Object
<1> QED
  BY <1>1, <1>2, <1>3, <1>4, Zenon DEF Typed, TypeOK

LEMMA CreateTyped ==
    ASSUME Typed, NEW o \in Object, NEW n \in Nat, Create(o, n)
    PROVE  Typed'
  BY DEF Typed, TypeOK, OneCallEach, Shape, Create, Idle, Object

LEMMA IncrefTyped ==
    ASSUME Typed, NEW o \in Object, Incref(o)
    PROVE  Typed'
  BY DEF Typed, TypeOK, OneCallEach, Shape, Incref, Object

LEMMA AddTyped ==
    ASSUME Typed, NEW b \in Bundle, NEW o \in Object, lo_bundle_add_element(b, o)
    PROVE  Typed'
<1> DEFINE s == Append(elmnts[b], o)
<1>1. s \in Seq(Object) /\ Len(s) = Len(elmnts[b]) + 1
  BY DEF Typed, TypeOK
<1>2. /\ Len(elmnts[b]) < MaxLen /\ status[b] = "live"
      /\ \/ elmnts' = [elmnts EXCEPT ![b] = s] /\ refcount' = [refcount EXCEPT ![o] = @ + 1]
         \/ UNCHANGED <<elmnts, refcount>>
      /\ UNCHANGED <<status, released, calls, mine>>
  BY DEF lo_bundle_add_element, live
<1>3. undefined' \in BOOLEAN
  BY DEF lo_bundle_add_element, Typed, TypeOK
<1> HIDE DEF s
<1>4. TypeOK'
  <2>1. OneCallEach'
    BY <1>2 DEF Typed, TypeOK, OneCallEach
  <2>2. elmnts \in [Bundle -> Seq(Object)] /\ refcount \in [Object -> Int]
    BY DEF Typed, TypeOK
  <2>3. refcount' \in [Object -> Int]
    BY <1>2, <2>2
  <2>4. elmnts' \in [Bundle -> Seq(Object)]
    BY <1>1, <1>2, <2>2
  <2>5. UNCHANGED <<status, released, calls, mine>>
    BY <1>2
  <2>6. /\ status' \in [Object -> {"free", "live", "dying"}] /\ released' \in [Bundle -> Nat]
        /\ calls' \in Seq(Bundle) /\ mine' \in [Object -> Int]
    BY <2>5 DEF Typed, TypeOK
  <2> QED
    BY <1>3, <2>1, <2>3, <2>4, <2>6, Zenon DEF TypeOK
<1>5. Shape'
  <2>1. Len(elmnts[b]) + 1 <= MaxLen
    BY <1>2, ObjectAssumption DEF Typed, TypeOK
  <2>2. CASE elmnts' = [elmnts EXCEPT ![b] = s]
    <3>1. \A c \in Bundle : elmnts'[c] = IF c = b THEN s ELSE elmnts[c]
      BY <2>2 DEF Typed, TypeOK
    <3>2. released[b] = 0
      BY <1>2 DEF Typed, Shape
    <3>3. 0 <= Len(s) /\ Len(s) <= MaxLen
      BY <1>1, <2>1
    <3> QED
      BY <1>2, <3>1, <3>2, <3>3 DEF Typed, Shape
  <2>3. CASE UNCHANGED elmnts
    BY <1>2, <2>3 DEF Typed, Shape
  <2> QED
    BY <1>2, <2>2, <2>3
<1> QED
  BY <1>4, <1>5 DEF Typed

LEMMA MessageFreeTyped ==
    ASSUME Typed, NEW m \in Message, lo_message_free(m)
    PROVE  Typed'
<1>1. m \in Object /\ m \notin Bundle
  BY ObjectAssumption DEF Object
<1>2. Dropped(m) \in Int
  BY <1>1 DEF Dropped, Typed, TypeOK
<1> QED
  BY <1>1, <1>2 DEF Typed, TypeOK, OneCallEach, Shape, lo_message_free, Object

\* How many places of one bundle hold an object is a number.
LEMMA PlacesFinite ==
    ASSUME Typed, NEW b \in Bundle, NEW o \in Object
    PROVE  IsFiniteSet(Places(b, o)) /\ Cardinality(Places(b, o)) \in Nat
<1>1. IsFiniteSet(1 .. Len(elmnts[b]))
  BY FS_Interval DEF Typed, TypeOK
<1>2. IsFiniteSet({b})
  BY FS_Singleton
<1>3. IsFiniteSet({b} \X (1 .. Len(elmnts[b])))
  BY <1>1, <1>2, FS_Product
<1>4. Places(b, o) \in SUBSET ({b} \X (1 .. Len(elmnts[b])))
  BY DEF Places
<1> QED
  BY <1>3, <1>4, FS_Subset, FS_CardinalityType

LEMMA BundleFreeTyped ==
    ASSUME Typed, NEW b \in Bundle, lo_bundle_free(b)
    PROVE  Typed'
<1>1. b \in Object /\ Dropped(b) \in Int
  BY DEF Object, Dropped, Typed, TypeOK
<1>2. \A o \in Object : Cardinality(Places(b, o)) \in Nat
  BY PlacesFinite
<1>3. /\ status[b] = "live" /\ calls = <<>>
      /\ refcount' = [refcount EXCEPT ![b] = @ - 1] /\ UNCHANGED <<released, calls, undefined>>
  BY DEF lo_bundle_free, MayFree, Idle, live
<1>4. CASE refcount[b] - 1 > 0
  <2>1. mine' = [mine EXCEPT ![b] = Dropped(b)] /\ UNCHANGED <<status, elmnts>>
    BY <1>4 DEF lo_bundle_free
  <2>2. OneCallEach'
    BY <1>3, <2>1 DEF Typed, TypeOK, OneCallEach
  <2>3. TypeOK'
    BY <1>1, <1>3, <2>1, <2>2 DEF Typed, TypeOK
  <2>4. Shape'
    BY <1>3, <2>1 DEF Typed, Shape
  <2> QED
    BY <2>3, <2>4 DEF Typed
<1>5. CASE ~(refcount[b] - 1 > 0)
  <2>1. /\ status' = [status EXCEPT ![b] = "free"] /\ elmnts' = [elmnts EXCEPT ![b] = <<>>]
        /\ mine' = [o \in Object |-> IF o = b THEN Dropped(b)
                                     ELSE mine[o] + Cardinality(Places(b, o))]
    BY <1>5 DEF lo_bundle_free
  <2>2. mine' \in [Object -> Int]
    BY <1>1, <1>2, <2>1 DEF Typed, TypeOK
  <2>5. OneCallEach'
    BY <1>1, <1>3, <2>1 DEF Typed, TypeOK, OneCallEach
  <2>3. TypeOK'
    BY <1>1, <1>3, <2>1, <2>2, <2>5 DEF Typed, TypeOK
  <2>4. Shape'
    BY <1>1, <1>3, <2>1, ObjectAssumption DEF Typed, TypeOK, Shape, Object
  <2> QED
    BY <2>3, <2>4 DEF Typed
<1> QED
  BY <1>4, <1>5

LEMMA RecursiveTyped ==
    ASSUME Typed, NEW b \in Bundle, lo_bundle_free_recursive(b)
    PROVE  Typed'
<1>1. b \in Object /\ Dropped(b) \in Int
  BY DEF Object, Dropped, Typed, TypeOK
<1>2. <<b>> \in Seq(Bundle) /\ Len(<<b>>) = 1 /\ <<b>>[1] = b
  OBVIOUS
<1>3. /\ status[b] = "live" /\ calls = <<>> /\ mine' = [mine EXCEPT ![b] = Dropped(b)]
      /\ refcount' = [refcount EXCEPT ![b] = @ - 1] /\ UNCHANGED <<elmnts, released, undefined>>
      /\ \/ UNCHANGED <<status, calls>>
         \/ status' = [status EXCEPT ![b] = "dying"] /\ calls' = <<b>>
  BY DEF lo_bundle_free_recursive, MayFree, Idle, live
<1>4. \A d \in Bundle : status[d] # "dying"
  BY <1>3 DEF Typed, TypeOK, OneCallEach
<1>5. OneCallEach' /\ calls' \in Seq(Bundle)
  <2>1. CASE UNCHANGED <<status, calls>>
    BY <2>1 DEF Typed, TypeOK, OneCallEach
  <2>2. CASE status' = [status EXCEPT ![b] = "dying"] /\ calls' = <<b>>
    <3>1. \A d \in Bundle : status'[d] = "dying" <=> d = b
      BY <1>1, <1>4, <2>2 DEF Typed, TypeOK, Object
    <3> QED
      BY <1>2, <2>2, <3>1 DEF OneCallEach
  <2> QED
    BY <1>3, <2>1, <2>2
<1>6. TypeOK'
  <2>1. status' \in [Object -> {"free", "live", "dying"}]
    BY <1>1, <1>3 DEF Typed, TypeOK
  <2>2. refcount' \in [Object -> Int] /\ mine' \in [Object -> Int]
    BY <1>1, <1>3 DEF Typed, TypeOK
  <2> QED
    BY <1>3, <1>5, <2>1, <2>2 DEF Typed, TypeOK
<1>7. Shape'
  BY <1>1, <1>3 DEF Typed, TypeOK, Shape, Object
<1> QED
  BY <1>6, <1>7 DEF Typed

\* The element that collect_element comes to.
LEMMA NextElement ==
    ASSUME Typed, collect_element
    PROVE  LET b == Head(calls)
               i == released[b] + 1
               o == elmnts[b][i]
           IN  /\ b \in Bundle /\ status[b] = "dying" /\ calls # <<>>
               /\ i \in 1 .. Len(elmnts[b]) /\ i \in 1 .. MaxLen
               /\ o \in Object /\ o \in live /\ o # b
               /\ released' = [released EXCEPT ![b] = i]
               /\ refcount' = [refcount EXCEPT ![o] = @ - 1]
               /\ UNCHANGED <<elmnts, mine, undefined>>
<1> DEFINE b == Head(calls)
           i == released[b] + 1
           o == elmnts[b][i]
<1>1. calls # <<>> /\ b = calls[1] /\ 1 \in DOMAIN calls /\ b \in Bundle
  BY DEF collect_element, Idle, Typed, TypeOK
<1>2. status[b] = "dying"
  BY <1>1 DEF Typed, TypeOK, OneCallEach
<1>3. released[b] < Len(elmnts[b])
  BY DEF collect_element
<1>4. i \in released[b] + 1 .. Len(elmnts[b]) /\ i \in 1 .. Len(elmnts[b]) /\ i \in 1 .. MaxLen
  BY <1>1, <1>3, ObjectAssumption DEF Typed, TypeOK, Shape
<1>5. o \in live
  BY DEF collect_element
<1>6. o \in Object /\ o # b
  BY <1>2, <1>5 DEF live
<1>7. released' = [released EXCEPT ![b] = i] /\ refcount' = [refcount EXCEPT ![o] = @ - 1]
      /\ UNCHANGED <<elmnts, mine, undefined>>
  BY DEF collect_element
<1> QED
  BY <1>1, <1>2, <1>4, <1>5, <1>6, <1>7

LEMMA CollectTyped ==
    ASSUME Typed, collect_element
    PROVE  Typed'
<1> DEFINE b == Head(calls)
           i == released[b] + 1
           o == elmnts[b][i]
           c == <<o>> \o calls
<1>1. /\ b \in Bundle /\ status[b] = "dying" /\ calls # <<>>
      /\ i \in 1 .. Len(elmnts[b])
      /\ o \in Object /\ status[o] = "live" /\ o # b
      /\ released' = [released EXCEPT ![b] = i]
      /\ refcount' = [refcount EXCEPT ![o] = @ - 1]
      /\ UNCHANGED <<elmnts, mine, undefined>>
  BY NextElement DEF live
<1>2. \/ UNCHANGED <<status, calls>>
      \/ o \notin Bundle /\ status' = [status EXCEPT ![o] = "free"] /\ UNCHANGED calls
      \/ o \in Bundle /\ status' = [status EXCEPT ![o] = "dying"] /\ calls' = c
  BY DEF collect_element
<1>3. o \in Bundle => /\ c \in Seq(Bundle) /\ Len(c) = Len(calls) + 1 /\ c[1] = o
                      /\ \A k \in 2 .. Len(c) : c[k] = calls[k - 1]
  BY DEF Typed, TypeOK
<1>4. /\ status \in [Object -> {"free", "live", "dying"}] /\ calls \in Seq(Bundle)
      /\ \A k \in DOMAIN calls : calls[k] # o
  <2>1. \A k \in DOMAIN calls : calls[k] \in Bundle /\ status[calls[k]] = "dying"
    BY DEF Typed, TypeOK, OneCallEach
  <2> QED
    BY <1>1, <2>1 DEF Typed, TypeOK
<1> HIDE DEF b, i, o, c
<1>5. /\ calls' \in Seq(Bundle)
      /\ \A k, j \in DOMAIN calls' : calls'[k] = calls'[j] => k = j
      /\ \A d \in Bundle : status'[d] = "dying" <=> \E k \in DOMAIN calls' : calls'[k] = d
  <2>1. CASE UNCHANGED <<status, calls>>
    BY <2>1 DEF Typed, TypeOK, OneCallEach
  <2>2. CASE o \notin Bundle /\ status' = [status EXCEPT ![o] = "free"] /\ UNCHANGED calls
    <3>1. \A d \in Bundle : status'[d] = status[d]
      BY <1>1, <1>4, <2>2 DEF Object
    <3> QED
      BY <2>2, <3>1 DEF Typed, TypeOK, OneCallEach
  <2>3. CASE o \in Bundle /\ status' = [status EXCEPT ![o] = "dying"] /\ calls' = c
    <3>1. calls' \in Seq(Bundle) /\ DOMAIN calls' = 1 .. Len(calls) + 1
      BY <1>3, <2>3
    <3>2. \A k \in 1 .. Len(calls) : k + 1 \in DOMAIN calls' /\ calls'[k + 1] = calls[k]
      BY <1>3, <1>4, <2>3
    <3>3. \A k, j \in DOMAIN calls' : calls'[k] = calls'[j] => k = j
      <4> SUFFICES ASSUME NEW k \in DOMAIN calls', NEW j \in DOMAIN calls', calls'[k] = calls'[j]
                   PROVE  k = j
        OBVIOUS
      <4>1. CASE k = 1 /\ j # 1
        BY <1>3, <1>4, <2>3, <3>1, <4>1
      <4>2. CASE k # 1 /\ j = 1
        BY <1>3, <1>4, <2>3, <3>1, <4>2
      <4>3. CASE k # 1 /\ j # 1
        <5>1. k - 1 \in DOMAIN calls /\ j - 1 \in DOMAIN calls /\ calls[k - 1] = calls[j - 1]
          BY <1>3, <1>4, <2>3, <3>1, <4>3
        <5>2. k - 1 = j - 1
          BY <5>1 DEF Typed, TypeOK, OneCallEach
        <5> QED
          BY <3>1, <5>2
      <4> QED
        BY <4>1, <4>2, <4>3
    <3>4. \A d \in Bundle : status'[d] = "dying" <=> \E k \in DOMAIN calls' : calls'[k] = d
      <4> SUFFICES ASSUME NEW d \in Bundle
                   PROVE  status'[d] = "dying" <=> \E k \in DOMAIN calls' : calls'[k] = d
        OBVIOUS
      <4>1. status[d] = "dying" <=> \E k \in DOMAIN calls : calls[k] = d
        BY DEF Typed, TypeOK, OneCallEach
      <4>2. CASE d = o
        BY <1>1, <1>3, <1>4, <2>3, <3>1, <4>2
      <4>3. CASE d # o
        <5>1. status'[d] = status[d]
          BY <1>1, <1>4, <2>3, <4>3 DEF Object
        <5>2. ASSUME NEW k \in DOMAIN calls, calls[k] = d
              PROVE  \E j \in DOMAIN calls' : calls'[j] = d
          BY <1>4, <3>2, <5>2
        <5>3. ASSUME NEW j \in DOMAIN calls', calls'[j] = d
              PROVE  \E k \in DOMAIN calls : calls[k] = d
          <6>1. j # 1 /\ j \in 1 .. Len(calls) + 1
            BY <1>3, <2>3, <3>1, <4>3, <5>3
          <6>2. j - 1 \in DOMAIN calls /\ calls'[j] = calls[j - 1]
            BY <1>3, <1>4, <2>3, <6>1
          <6> QED
            BY <5>3, <6>2
        <5> QED
          BY <4>1, <5>1, <5>2, <5>3
      <4> QED
        BY <4>2, <4>3
    <3> QED
      BY <3>1, <3>3, <3>4
  <2> QED
    BY <1>2, <2>1, <2>2, <2>3
<1>6. /\ status' \in [Object -> {"free", "live", "dying"}]
      /\ \A d \in Bundle : status'[d] # "dying" => status[d] # "dying"
      /\ \A d \in Bundle : status'[d] = "free" => status[d] = "free"
      /\ status'[b] = "dying"
  BY <1>1, <1>2, <1>4 DEF Object
<1>7. /\ refcount' \in [Object -> Int] /\ elmnts' \in [Bundle -> Seq(Object)]
      /\ released' \in [Bundle -> Nat] /\ mine' \in [Object -> Int]
  <2>1. i \in Nat
    BY <1>1 DEF Typed, TypeOK
  <2>2. released' \in [Bundle -> Nat]
    BY <1>1, <2>1 DEF Typed, TypeOK
  <2>3. refcount' \in [Object -> Int]
    BY <1>1, SMTT(40) DEF Typed, TypeOK
  <2> QED
    BY <1>1, <2>2, <2>3 DEF Typed, TypeOK
<1>10. undefined' \in BOOLEAN
  BY <1>1, Zenon DEF Typed, TypeOK
<1>8. TypeOK'
  BY <1>5, <1>6, <1>7, <1>10, Zenon DEF TypeOK, OneCallEach
<1>9. Shape'
  BY <1>1, <1>6, <1>7, SMTT(40) DEF Typed, TypeOK, Shape
<1> QED
  BY <1>8, <1>9 DEF Typed

LEMMA FreeEndsTyped ==
    ASSUME Typed, FreeEnds
    PROVE  Typed'
<1> DEFINE b == Head(calls)
           c == Tail(calls)
<1>1. /\ calls # <<>> /\ b = calls[1] /\ b \in Bundle /\ b \in Object /\ 1 \in DOMAIN calls
      /\ c \in Seq(Bundle) /\ Len(c) = Len(calls) - 1 /\ Len(calls) \in Nat \ {0}
      /\ \A k \in 1 .. Len(c) : c[k] = calls[k + 1]
  BY DEF FreeEnds, Idle, Typed, TypeOK, Object
<1>2. /\ status' = [status EXCEPT ![b] = "free"] /\ elmnts' = [elmnts EXCEPT ![b] = <<>>]
      /\ released' = [released EXCEPT ![b] = 0] /\ calls' = c /\ UNCHANGED <<refcount, mine, undefined>>
  BY DEF FreeEnds
<1> HIDE DEF b, c
<1>3. \A k \in 1 .. Len(c) : k \in DOMAIN calls /\ k + 1 \in DOMAIN calls /\ c[k] # b
  <2> SUFFICES ASSUME NEW k \in 1 .. Len(c)
               PROVE  k \in DOMAIN calls /\ k + 1 \in DOMAIN calls /\ c[k] # b
    OBVIOUS
  <2>1. k \in DOMAIN calls /\ k + 1 \in DOMAIN calls /\ k + 1 # 1 /\ c[k] = calls[k + 1]
    BY <1>1, SMTT(40) DEF Typed, TypeOK
  <2>2. calls[k + 1] = calls[1] => k + 1 = 1
    BY <1>1, <2>1 DEF Typed, TypeOK, OneCallEach
  <2> QED
    BY <1>1, <2>1, <2>2
<1>4. \A k, j \in DOMAIN calls' : calls'[k] = calls'[j] => k = j
  <2> SUFFICES ASSUME NEW k \in 1 .. Len(c), NEW j \in 1 .. Len(c), c[k] = c[j]
               PROVE  k = j
    BY <1>1, <1>2
  <2>1. calls[k + 1] = calls[j + 1] /\ k + 1 \in DOMAIN calls /\ j + 1 \in DOMAIN calls
    BY <1>1, <1>3
  <2>2. k + 1 = j + 1
    BY <2>1 DEF Typed, TypeOK, OneCallEach
  <2> QED
    BY <2>2
<1>5. \A d \in Bundle : status'[d] = "dying" <=> \E k \in DOMAIN calls' : calls'[k] = d
  <2> SUFFICES ASSUME NEW d \in Bundle
               PROVE  status'[d] = "dying" <=> \E k \in 1 .. Len(c) : c[k] = d
    BY <1>1, <1>2
  <2>1. status[d] = "dying" <=> \E k \in DOMAIN calls : calls[k] = d
    BY DEF Typed, TypeOK, OneCallEach
  <2>2. CASE d = b
    BY <1>1, <1>2, <1>3, <2>2 DEF Typed, TypeOK
  <2>3. CASE d # b
    <3>1. status'[d] = status[d]
      BY <1>1, <1>2, <2>3 DEF Typed, TypeOK, Object
    <3>2. ASSUME NEW k \in DOMAIN calls, calls[k] = d
          PROVE  \E j \in 1 .. Len(c) : c[j] = d
      <4>1. k # 1 /\ k \in 1 .. Len(calls)
        <5>1. calls \in Seq(Bundle)
          BY DEF Typed, TypeOK
        <5> QED
          BY <1>1, <2>3, <3>2, <5>1
      <4>2. k - 1 \in 1 .. Len(c) /\ c[k - 1] = calls[k]
        BY <1>1, <4>1
      <4> QED
        BY <3>2, <4>2
    <3>3. ASSUME NEW j \in 1 .. Len(c), c[j] = d
          PROVE  \E k \in DOMAIN calls : calls[k] = d
      BY <1>1, <1>3, <3>3
    <3> QED
      BY <2>1, <3>1, <3>2, <3>3
  <2> QED
    BY <2>2, <2>3
<1>6. TypeOK'
  <2>1. status' \in [Object -> {"free", "live", "dying"}]
    BY <1>2 DEF Typed, TypeOK
  <2>2. elmnts' \in [Bundle -> Seq(Object)]
    <3>1. elmnts \in [Bundle -> Seq(Object)] /\ << >> \in Seq(Object)
      BY DEF Typed, TypeOK
    <3> QED
      BY <3>1, <1>2
  <2>3. released' \in [Bundle -> Nat]
    BY <1>2 DEF Typed, TypeOK
  <2>4. calls' \in Seq(Bundle)
    BY <1>1, <1>2
  <2>5. refcount' \in [Object -> Int] /\ mine' \in [Object -> Int]
    BY <1>2 DEF Typed, TypeOK
  <2>6. undefined' \in BOOLEAN
    BY <1>2, Zenon DEF Typed, TypeOK
  <2> QED
    BY <2>1, <2>2, <2>3, <2>4, <2>5, <2>6, <1>4, <1>5, Zenon DEF TypeOK, OneCallEach
<1>7. Shape'
  BY <1>1, <1>2, ObjectAssumption, SMTT(20) DEF Typed, TypeOK, Shape, Object
<1> QED
  BY <1>6, <1>7 DEF Typed

--------------------------------------------------------------------------------
(***************************************************************************)
(* Counts.                                                                 *)
(***************************************************************************)
\* Where nothing is added and nothing passed by, an object is held where it was.
LEMMA SameHolders ==
    ASSUME UNCHANGED <<elmnts, released>>, NEW o \in Object
    PROVE  Holders(o)' = Holders(o)
  BY DEF Holders

\* A step that changes the counts and the use of one object only.
LEMMA OneRecounted ==
    ASSUME Typed, Counted, NEW x \in Object, UNCHANGED <<elmnts, released>>,
           \A o \in Object \ {x} :
               refcount'[o] = refcount[o] /\ mine'[o] = mine[o] /\ status'[o] = status[o],
           mine'[x] + Cardinality(Holders(x)) = IF x \in live' THEN refcount'[x] ELSE 0,
           x \in live' => refcount'[x] >= 0 /\ (Holders(x) # {} => refcount'[x] > 0)
    PROVE  Counted'
<1>1. \A o \in Object : Holders(o)' = Holders(o)
  BY SameHolders
<1>2. \A o \in Object \ {x} : o \in live' <=> o \in live
  BY DEF live
<1>3. ASSUME NEW o \in Object
      PROVE  mine'[o] + Cardinality(Holders(o)') = IF o \in live' THEN refcount'[o] ELSE 0
  <2>1. CASE o = x
    BY <1>1, <2>1
  <2>2. CASE o # x
    <3>1. mine[o] + Cardinality(Holders(o)) = IF o \in live THEN refcount[o] ELSE 0
      BY DEF Counted, References
    <3> QED
      BY <1>1, <1>2, <2>2, <3>1
  <2> QED
    BY <2>1, <2>2
<1>4. ASSUME NEW o \in live'
      PROVE  refcount'[o] >= 0 /\ (Holders(o)' # {} => refcount'[o] > 0)
  <2>1. o \in Object
    BY DEF live
  <2>2. CASE o = x
    BY <1>1, <2>1, <2>2
  <2>3. CASE o # x
    BY <1>1, <1>2, <2>1, <2>3 DEF Counted, Held
  <2> QED
    BY <2>2, <2>3
<1> QED
  BY <1>3, <1>4 DEF Counted, References, Held

\* What the counts say of one object.
LEMMA CountIs ==
    ASSUME Typed, Counted, NEW o \in Object
    PROVE  /\ refcount[o] \in Int /\ mine[o] \in Int
           /\ IsFiniteSet(Holders(o)) /\ Cardinality(Holders(o)) \in Nat
           /\ o \in live =>
                 /\ refcount[o] = mine[o] + Cardinality(Holders(o)) /\ refcount[o] \in Nat
                 /\ refcount[o] = 0 => Cardinality(Holders(o)) = 0
           /\ o \notin live => mine[o] + Cardinality(Holders(o)) = 0
<1>1. refcount[o] \in Int /\ mine[o] \in Int
  BY DEF Typed, TypeOK
<1>2. mine[o] + Cardinality(Holders(o)) = IF o \in live THEN refcount[o] ELSE 0
  BY DEF Counted, References
<1>3. o \in live => refcount[o] >= 0 /\ (Holders(o) # {} => refcount[o] > 0)
  BY DEF Counted, Held
<1> QED
  BY <1>1, <1>2, <1>3, HoldersFinite, FS_EmptySet

LEMMA CreateCounted ==
    ASSUME Inv, NEW x \in Object, NEW n \in Nat, Create(x, n)
    PROVE  Counted'
<1>1. /\ status[x] = "free" /\ status' = [status EXCEPT ![x] = "live"]
      /\ refcount' = [refcount EXCEPT ![x] = n] /\ mine' = [mine EXCEPT ![x] = n]
      /\ UNCHANGED <<elmnts, released>> /\ \A b \in Bundle : Places(b, x) = {}
  BY DEF Create
<1>2. Typed /\ Counted
  BY DEF Inv
<1>3. Holders(x) = {}
  <2> SUFFICES ASSUME NEW p \in Holders(x) PROVE FALSE
    OBVIOUS
  <2>1. /\ p[1] \in Bundle /\ p[2] \in 1 .. Len(elmnts[p[1]]) /\ elmnts[p[1]][p[2]] = x
        /\ p = <<p[1], p[2]>>
    BY DEF Holders, Inv, Typed, TypeOK
  <2>2. p \in Places(p[1], x)
    BY <2>1 DEF Places
  <2> QED
    BY <1>1, <2>1, <2>2
<1>4. refcount'[x] = n /\ mine'[x] = n /\ status'[x] = "live" /\ x \in live'
  BY <1>1, <1>2 DEF Typed, TypeOK, live
<1>5. \A o \in Object \ {x} :
         refcount'[o] = refcount[o] /\ mine'[o] = mine[o] /\ status'[o] = status[o]
  BY <1>1, <1>2 DEF Typed, TypeOK
<1>6. n + Cardinality(Holders(x)) = n
  BY <1>3, FS_EmptySet
<1> QED
  BY <1>1, <1>2, <1>3, <1>4, <1>5, <1>6, OneRecounted

LEMMA IncrefCounted ==
    ASSUME Inv, NEW x \in Object, Incref(x)
    PROVE  Counted'
<1>1. /\ refcount' = [refcount EXCEPT ![x] = @ + 1] /\ mine' = [mine EXCEPT ![x] = @ + 1]
      /\ UNCHANGED <<status, elmnts, released>> /\ x \in live
  BY DEF Incref
<1>2. Typed /\ Counted
  BY DEF Inv
<1>3. /\ refcount'[x] = refcount[x] + 1 /\ mine'[x] = mine[x] + 1 /\ x \in live'
      /\ \A o \in Object \ {x} :
            refcount'[o] = refcount[o] /\ mine'[o] = mine[o] /\ status'[o] = status[o]
  BY <1>1, <1>2 DEF Typed, TypeOK, live
<1>4. /\ mine'[x] + Cardinality(Holders(x)) = refcount'[x] /\ refcount'[x] > 0
  BY <1>1, <1>2, <1>3, CountIs
<1>5. refcount'[x] >= 0
  BY <1>4, <1>2, <1>3, CountIs
<1> QED
  BY <1>1, <1>2, <1>3, <1>4, <1>5, OneRecounted

LEMMA AddCountedRight ==
    ASSUME Inv, NEW b \in Bundle, NEW x \in Object, lo_bundle_add_element(b, x),
           elmnts' = [elmnts EXCEPT ![b] = Append(@, x)],
           refcount' = [refcount EXCEPT ![x] = @ + 1]
    PROVE  Counted'
<1> DEFINE n == Len(elmnts[b]) + 1
           s == Append(elmnts[b], x)
<1>1. /\ status[b] = "live" /\ x \in live /\ Len(elmnts[b]) < MaxLen
      /\ elmnts' = [elmnts EXCEPT ![b] = s] /\ refcount' = [refcount EXCEPT ![x] = @ + 1]
      /\ UNCHANGED <<status, released, mine>>
  BY DEF lo_bundle_add_element, live
<1>2. /\ s \in Seq(Object) /\ Len(s) = n /\ s[n] = x /\ n \in 1 .. MaxLen
      /\ \A i \in 1 .. n - 1 : s[i] = elmnts[b][i]
      /\ Len(elmnts[b]) = n - 1 /\ released[b] = 0
  BY <1>1, ObjectAssumption DEF Inv, Typed, TypeOK, Shape
<1> HIDE DEF n, s
<1>3. ASSUME NEW o \in Object
      PROVE  Holders(o)' = IF o = x THEN Holders(o) \cup {<<b, n>>} ELSE Holders(o)
  <2>1. ASSUME NEW c \in Bundle, NEW i \in 1 .. MaxLen
        PROVE  <<c, i>> \in Holders(o)' <=> <<c, i>> \in Holders(o) \/ (o = x /\ c = b /\ i = n)
    <3>1. CASE c = b
      <4>1. elmnts'[b] = s /\ released'[b] = 0
        BY <1>1, <1>2 DEF Inv, Typed, TypeOK
      <4>2. CASE i <= n - 1
        BY <1>2, <3>1, <4>1, <4>2 DEF Holders
      <4>3. CASE i = n
        BY <1>2, <3>1, <4>1, <4>3 DEF Holders
      <4>4. CASE i > n
        BY <1>2, <3>1, <4>1, <4>4 DEF Holders
      <4> QED
        BY <1>2, <4>2, <4>3, <4>4
    <3>2. CASE c # b
      BY <1>1, <3>2 DEF Holders, Inv, Typed, TypeOK
    <3> QED
      BY <3>1, <3>2
  <2>2. Holders(o) \subseteq Bundle \X (1 .. MaxLen) /\ Holders(o)' \subseteq Bundle \X (1 .. MaxLen)
    BY DEF Holders
  <2>3. ASSUME NEW p \in Bundle \X (1 .. MaxLen)
        PROVE  p \in Holders(o)' <=> p \in Holders(o) \/ (o = x /\ p = <<b, n>>)
    <3>1. p = <<p[1], p[2]>> /\ p[1] \in Bundle /\ p[2] \in 1 .. MaxLen
      OBVIOUS
    <3>2. p = <<b, n>> <=> p[1] = b /\ p[2] = n
      BY <3>1
    <3> QED
      BY <2>1, <3>1, <3>2
  <2>4. <<b, n>> \in Bundle \X (1 .. MaxLen)
    BY <1>2
  <2> QED
    BY <2>2, <2>3, <2>4
<1>4. Typed /\ Counted /\ live' = live
  BY <1>1 DEF Inv, live
<1>5. Cardinality(Holders(x)') = Cardinality(Holders(x)) + 1
  <2>1. <<b, n>> \notin Holders(x)
    BY <1>2 DEF Holders
  <2>2. IsFiniteSet(Holders(x))
    BY HoldersFinite
  <2> QED
    BY <1>3, <2>1, <2>2, FS_AddElement
<1>6. refcount'[x] = refcount[x] + 1 /\ \A o \in Object : o # x => refcount'[o] = refcount[o]
  BY <1>1, <1>4 DEF Typed, TypeOK, live
<1>7. ASSUME NEW o \in Object
      PROVE  mine'[o] + Cardinality(Holders(o)') = IF o \in live' THEN refcount'[o] ELSE 0
  <2>1. mine[o] + Cardinality(Holders(o)) = IF o \in live THEN refcount[o] ELSE 0
    BY <1>4 DEF Counted, References
  <2>2. CASE o = x
    BY <1>1, <1>4, <1>5, <1>6, <2>1, <2>2, CountIs
  <2>3. CASE o # x
    BY <1>1, <1>3, <1>4, <1>6, <2>1, <2>3
  <2> QED
    BY <2>2, <2>3
<1>8. ASSUME NEW o \in live'
      PROVE  refcount'[o] >= 0 /\ (Holders(o)' # {} => refcount'[o] > 0)
  <2>1. o \in Object /\ o \in live
    BY <1>4 DEF live
  <2>2. CASE o = x
    BY <1>4, <1>6, <2>1, <2>2, CountIs
  <2>3. CASE o # x
    BY <1>3, <1>4, <1>6, <2>1, <2>3 DEF Counted, Held
  <2> QED
    BY <2>2, <2>3
<1> QED
  BY <1>7, <1>8 DEF Counted, References, Held

\* The walk through what a bundle now has in it comes to a freed bundle only where a
\* bundle in use holds one.
LEMMA WalkBlamed ==
    ASSUME Inv, NEW b \in Bundle, NEW x \in Object, lo_bundle_add_element(b, x), undefined'
    PROVE  undefined \/ \E o \in Object : Overfreed(o)
<1> DEFINE added == [elmnts EXCEPT ![b] = Append(@, x)]
           T == live \cap Bundle
<1>1. b \in live /\ x \in live /\ (undefined \/ ~(Reached(added, b) \subseteq live))
  BY DEF lo_bundle_add_element
<1> SUFFICES ASSUME ~(Reached(added, b) \subseteq live)
             PROVE  \E o \in Object : Overfreed(o)
  BY <1>1
<1>2. b \in T /\ T \in SUBSET Bundle
  BY <1>1
<1> HIDE DEF added, T
<1>3. ~Closed(added, T)
  <2> SUFFICES ASSUME Closed(added, T) PROVE FALSE
    OBVIOUS
  <2>1. \A y \in Reached(added, b) : y \in T
    BY <1>2, Zenon DEF Reached
  <2> QED
    BY <2>1 DEF T
<1>4. PICK c \in T : \E d \in Inside(added, c) : d \notin T
  BY <1>3 DEF Closed
<1>14. PICK d \in Inside(added, c) : d \notin T
  BY <1>4
<1>5. c \in Bundle /\ c \in live /\ d \in Bundle /\ d \notin live
  BY <1>4, <1>14 DEF T, Inside
<1>6. PICK i \in DOMAIN added[c] : added[c][i] = d
  BY <1>14 DEF Inside
<1>7. i \in released[c] + 1 .. Len(elmnts[c]) /\ elmnts[c][i] = d
  <2>1. released[c] = 0
    BY <1>5 DEF live, Inv, Typed, Shape
  <2>2. CASE c = b
    <3>1. added[c] = Append(elmnts[b], x) /\ elmnts[b] \in Seq(Object)
      BY <2>2 DEF added, Inv, Typed, TypeOK
    <3>2. i \in 1 .. Len(elmnts[b]) + 1
      BY <1>6, <3>1
    <3>3. i # Len(elmnts[b]) + 1
      BY <1>1, <1>5, <1>6, <3>1
    <3> QED
      BY <1>6, <2>1, <2>2, <3>1, <3>2, <3>3
  <2>3. CASE c # b
    <3>1. added[c] = elmnts[c] /\ elmnts[c] \in Seq(Object)
      BY <1>5, <2>3 DEF added, Inv, Typed, TypeOK
    <3> QED
      BY <1>6, <2>1, <3>1
  <2> QED
    BY <2>2, <2>3
<1>8. d \in Object /\ Holders(d) # {}
  BY <1>5, <1>7, ElementHeld DEF Inv
<1> QED
  BY <1>5, <1>8, FreedIsOverfreed DEF Inv, Counted

\* What the user frees is counted down, and is gone when nothing is left of it.
LEMMA Gives ==
    ASSUME Inv, NEW x \in Object, MayFree(x)
    PROVE  /\ refcount[x] - 1 > 0 => Dropped(x) + Cardinality(Holders(x)) = refcount[x] - 1
           /\ ~(refcount[x] - 1 > 0) => Dropped(x) + Cardinality(Holders(x)) = 0
           /\ refcount[x] \in Nat /\ Dropped(x) \in Int
<1>1. x \in live /\ Typed /\ Counted
  BY DEF MayFree, Inv
<1> QED
  BY <1>1, CountIs DEF Dropped

LEMMA MessageFreeCounted ==
    ASSUME Inv, NEW m \in Message, lo_message_free(m)
    PROVE  Counted'
<1>1. m \in Object /\ MayFree(m) /\ Typed /\ Counted
  BY DEF Object, lo_message_free, Inv
<1>2. /\ refcount' = [refcount EXCEPT ![m] = @ - 1] /\ mine' = [mine EXCEPT ![m] = Dropped(m)]
      /\ status' = [status EXCEPT ![m] = IF refcount[m] - 1 <= 0 THEN "free" ELSE "live"]
      /\ UNCHANGED <<elmnts, released>>
  BY DEF lo_message_free
<1>3. /\ refcount'[m] = refcount[m] - 1 /\ mine'[m] = Dropped(m)
      /\ status'[m] = IF refcount[m] - 1 <= 0 THEN "free" ELSE "live"
      /\ \A o \in Object \ {m} :
            refcount'[o] = refcount[o] /\ mine'[o] = mine[o] /\ status'[o] = status[o]
  BY <1>1, <1>2 DEF Typed, TypeOK
<1>4. m \in live' <=> refcount[m] - 1 > 0
  <2>1. refcount[m] \in Nat
    BY <1>1, Gives
  <2> QED
    BY <1>1, <1>3, <2>1 DEF live
<1>5. mine'[m] + Cardinality(Holders(m)) = IF m \in live' THEN refcount'[m] ELSE 0
  BY <1>1, <1>3, <1>4, Gives
<1>6. m \in live' => refcount'[m] >= 0 /\ refcount'[m] > 0
  BY <1>1, <1>3, <1>4, Gives
<1> QED
  BY <1>1, <1>2, <1>3, <1>5, <1>6, OneRecounted

LEMMA BundleFreeCounted ==
    ASSUME Inv, NEW b \in Bundle, lo_bundle_free(b)
    PROVE  Counted'
<1>1. b \in Object /\ MayFree(b) /\ Typed /\ Counted
  BY DEF Object, lo_bundle_free, Inv
<1>2. status[b] = "live" /\ refcount' = [refcount EXCEPT ![b] = @ - 1] /\ UNCHANGED released
  BY DEF lo_bundle_free, MayFree, live
<1>3. refcount[b] \in Nat /\ released[b] = 0
  BY <1>1, <1>2, Gives DEF Typed, Shape
<1>4. refcount'[b] = refcount[b] - 1 /\ \A o \in Object \ {b} : refcount'[o] = refcount[o]
  BY <1>1, <1>2 DEF Typed, TypeOK
<1>5. CASE refcount[b] - 1 > 0
  <2>1. mine' = [mine EXCEPT ![b] = Dropped(b)] /\ UNCHANGED <<status, elmnts>>
    BY <1>5 DEF lo_bundle_free
  <2>2. /\ mine'[b] = Dropped(b)
        /\ \A o \in Object \ {b} : mine'[o] = mine[o] /\ status'[o] = status[o]
    BY <1>1, <2>1 DEF Typed, TypeOK
  <2>3. b \in live'
    BY <1>1, <1>2, <2>1 DEF live
  <2>4. mine'[b] + Cardinality(Holders(b)) = refcount'[b] /\ refcount'[b] > 0 /\ refcount'[b] >= 0
    BY <1>1, <1>3, <1>4, <1>5, <2>2, Gives
  <2> QED
    BY <1>1, <1>2, <1>4, <2>1, <2>2, <2>3, <2>4, OneRecounted
<1>6. CASE ~(refcount[b] - 1 > 0)
  <2>1. /\ status' = [status EXCEPT ![b] = "free"] /\ elmnts' = [elmnts EXCEPT ![b] = <<>>]
        /\ mine' = [o \in Object |-> IF o = b THEN Dropped(b)
                                     ELSE mine[o] + Cardinality(Places(b, o))]
    BY <1>6 DEF lo_bundle_free
  <2>2. \A c \in Bundle : elmnts'[c] = IF c = b THEN <<>> ELSE elmnts[c]
    BY <2>1 DEF Inv, Typed, TypeOK
  <2>3. ASSUME NEW o \in Object
        PROVE  /\ Cardinality(Holders(o)') = Cardinality(Holders(o)) - Cardinality(Places(b, o))
               /\ Holders(o)' \subseteq Holders(o)
    <3>1. Places(b, o) \subseteq Holders(o)
      <4> SUFFICES ASSUME NEW p \in Places(b, o) PROVE p \in Holders(o)
        OBVIOUS
      <4>1. /\ p = <<p[1], p[2]>> /\ p[1] = b /\ p[2] \in 1 .. Len(elmnts[b]) /\ elmnts[b][p[2]] = o
        BY DEF Places
      <4>2. p[2] \in 1 .. MaxLen
        BY <4>1, ObjectAssumption DEF Inv, Typed, TypeOK, Shape
      <4> QED
        BY <1>3, <4>1, <4>2 DEF Holders
    <3>2. Holders(o)' = Holders(o) \ Places(b, o)
      <4>1. ASSUME NEW p \in Bundle \X (1 .. MaxLen)
            PROVE  p \in Holders(o)' <=> p \in Holders(o) /\ p \notin Places(b, o)
        <5>1. CASE p[1] = b
          <6>1. p \notin Holders(o)'
            BY <1>2, <1>3, <2>2, <5>1 DEF Holders
          <6>2. p \in Holders(o) => p \in Places(b, o)
            BY <1>3, <5>1 DEF Holders, Places
          <6> QED
            BY <6>1, <6>2
        <5>2. CASE p[1] # b
          <6>1. p \notin Places(b, o)
            BY <5>2 DEF Places
          <6>2. p \in Holders(o)' <=> p \in Holders(o)
            BY <1>2, <2>2, <5>2 DEF Holders
          <6> QED
            BY <6>1, <6>2
        <5> QED
          BY <5>1, <5>2
      <4>2. Holders(o) \subseteq Bundle \X (1 .. MaxLen) /\ Holders(o)' \subseteq Bundle \X (1 .. MaxLen)
        BY DEF Holders
      <4> QED
        BY <4>1, <4>2
    <3>3. Holders(o) \cap Places(b, o) = Places(b, o)
      BY <3>1
    <3>4. Cardinality(Holders(o) \ Places(b, o))
          = Cardinality(Holders(o)) - Cardinality(Holders(o) \cap Places(b, o))
      BY HoldersFinite, FS_Difference
    <3> QED
      BY <3>2, <3>3, <3>4
  <2>4. ASSUME NEW o \in Object, o # b
        PROVE  /\ mine'[o] = mine[o] + Cardinality(Places(b, o)) /\ refcount'[o] = refcount[o]
               /\ o \in live' <=> o \in live
    BY <1>4, <2>1, <2>4 DEF Inv, Typed, TypeOK, live
  <2>5. mine'[b] = Dropped(b) /\ b \notin live'
    BY <1>1, <2>1 DEF Inv, Typed, TypeOK, live
  <2>6. Places(b, b) = {}
    <3> SUFFICES ASSUME NEW p \in Places(b, b) PROVE FALSE
      OBVIOUS
    <3>1. b \in Inside(elmnts, b)
      BY DEF Places, Inside, Inv, Typed, TypeOK
    <3>2. {b} \in SUBSET Bundle /\ {b} # {}
      OBVIOUS
    <3>3. \E c \in {b} : Inside(elmnts, c) \cap {b} = {}
      BY <3>2 DEF Inv, Acyclic
    <3> QED
      BY <3>1, <3>3
  <2>7. ASSUME NEW o \in Object
        PROVE  mine'[o] + Cardinality(Holders(o)') = IF o \in live' THEN refcount'[o] ELSE 0
    <3>1. CASE o = b
      <4>1. Cardinality(Holders(b)') = Cardinality(Holders(b))
        <5>1. Cardinality(Places(b, b)) = 0
          BY <2>6, FS_EmptySet
        <5>2. Cardinality(Holders(b)') = Cardinality(Holders(b)) - Cardinality(Places(b, b))
          BY <1>1, <2>3
        <5>3. Cardinality(Holders(b)) \in Nat
          BY <1>1, HoldersFinite
        <5> QED
          BY <5>1, <5>2, <5>3
      <4> QED
        BY <1>1, <1>6, <2>5, <3>1, <4>1, Gives
    <3>2. CASE o # b
      <4>1. mine[o] + Cardinality(Holders(o)) = IF o \in live THEN refcount[o] ELSE 0
        BY <1>1 DEF Counted, References
      <4>2. Cardinality(Places(b, o)) \in Nat
        BY <1>1, PlacesFinite
      <4> QED
        BY <1>1, <2>3, <2>4, <3>2, <4>1, <4>2, CountIs
    <3> QED
      BY <3>1, <3>2
  <2>8. ASSUME NEW o \in live'
        PROVE  refcount'[o] >= 0 /\ (Holders(o)' # {} => refcount'[o] > 0)
    <3>1. o \in Object /\ o # b
      BY <2>5 DEF live
    <3>2. o \in live /\ refcount'[o] = refcount[o] /\ Holders(o)' \subseteq Holders(o)
      BY <2>3, <2>4, <3>1
    <3> QED
      BY <1>1, <3>2 DEF Counted, Held
  <2> QED
    BY <2>7, <2>8 DEF Counted, References, Held
<1> QED
  BY <1>5, <1>6

LEMMA RecursiveCounted ==
    ASSUME Inv, NEW b \in Bundle, lo_bundle_free_recursive(b)
    PROVE  Counted'
<1>1. b \in Object /\ MayFree(b) /\ Typed /\ Counted
  BY DEF Object, lo_bundle_free_recursive, Inv
<1>2. /\ refcount' = [refcount EXCEPT ![b] = @ - 1] /\ mine' = [mine EXCEPT ![b] = Dropped(b)]
      /\ status' = IF refcount[b] - 1 > 0 THEN status ELSE [status EXCEPT ![b] = "dying"]
      /\ UNCHANGED <<elmnts, released>> /\ status[b] = "live"
  BY DEF lo_bundle_free_recursive, MayFree, live
<1>3. /\ refcount'[b] = refcount[b] - 1 /\ mine'[b] = Dropped(b)
      /\ status'[b] = IF refcount[b] - 1 > 0 THEN "live" ELSE "dying"
      /\ \A o \in Object \ {b} :
            refcount'[o] = refcount[o] /\ mine'[o] = mine[o] /\ status'[o] = status[o]
  BY <1>1, <1>2 DEF Typed, TypeOK
<1>4. b \in live' <=> refcount[b] - 1 > 0
  BY <1>1, <1>3 DEF live
<1>5. mine'[b] + Cardinality(Holders(b)) = IF b \in live' THEN refcount'[b] ELSE 0
  BY <1>1, <1>3, <1>4, Gives
<1>6. b \in live' => refcount'[b] >= 0 /\ refcount'[b] > 0
  BY <1>1, <1>3, <1>4, Gives
<1> QED
  BY <1>1, <1>2, <1>3, <1>5, <1>6, OneRecounted

LEMMA CollectCounted ==
    ASSUME Inv, collect_element
    PROVE  Counted'
<1>1. PICK b \in Bundle, i \in 1 .. MaxLen, x \in Object :
         /\ i \in 1 .. Len(elmnts[b]) /\ i = released[b] + 1 /\ x = elmnts[b][i]
         /\ x \in live /\ status[x] = "live" /\ b = Head(calls)
         /\ released' = [released EXCEPT ![b] = i]
         /\ refcount' = [refcount EXCEPT ![x] = @ - 1]
         /\ UNCHANGED <<elmnts, mine>>
  BY NextElement DEF live, Inv
<1>2. status' = IF refcount[x] - 1 > 0 THEN status
                ELSE [status EXCEPT ![x] = IF x \in Bundle THEN "dying" ELSE "free"]
  BY <1>1 DEF collect_element
<1>3. i = released[b] + 1 /\ released[b] \in Nat /\ Typed /\ Counted
  BY <1>1 DEF Inv, Typed, TypeOK
<1>4. ASSUME NEW o \in Object
      PROVE  Holders(o)' = IF o = x THEN Holders(o) \ {<<b, i>>} ELSE Holders(o)
  <2>1. ASSUME NEW p \in Bundle \X (1 .. MaxLen)
        PROVE  p \in Holders(o)' <=> p \in Holders(o) /\ ~(o = x /\ p = <<b, i>>)
    <3>0. p = <<p[1], p[2]>> /\ p[1] \in Bundle /\ p[2] \in 1 .. MaxLen
      OBVIOUS
    <3>1. CASE p[1] = b
      <4>1. released'[b] = i /\ elmnts' = elmnts
        BY <1>1 DEF Inv, Typed, TypeOK
      <4>2. p \in Holders(o)' <=> p[2] > i /\ p[2] <= Len(elmnts[b]) /\ elmnts[b][p[2]] = o
        BY <1>3, <3>0, <3>1, <4>1 DEF Holders
      <4>3. p \in Holders(o) <=> p[2] >= i /\ p[2] <= Len(elmnts[b]) /\ elmnts[b][p[2]] = o
        BY <1>3, <3>0, <3>1 DEF Holders
      <4>4. p = <<b, i>> <=> p[2] = i
        BY <3>0, <3>1
      <4> QED
        BY <1>1, <1>3, <3>0, <4>2, <4>3, <4>4
    <3>2. CASE p[1] # b
      <4>1. released'[p[1]] = released[p[1]] /\ elmnts' = elmnts
        BY <1>1, <3>0, <3>2 DEF Inv, Typed, TypeOK
      <4> QED
        BY <3>2, <4>1 DEF Holders
    <3> QED
      BY <3>1, <3>2
  <2>2. Holders(o) \subseteq Bundle \X (1 .. MaxLen) /\ Holders(o)' \subseteq Bundle \X (1 .. MaxLen)
    BY DEF Holders
  <2> QED
    BY <2>1, <2>2
<1>5. <<b, i>> \in Holders(x)
  BY <1>1, <1>3 DEF Holders
<1>6. Cardinality(Holders(x)') = Cardinality(Holders(x)) - 1
  <2>1. Cardinality(Holders(x) \ {<<b, i>>}) = Cardinality(Holders(x)) - 1
    BY <1>1, <1>5, HoldersFinite, FS_RemoveElement
  <2> QED
    BY <1>1, <1>4, <2>1
<1>7. refcount[x] = mine[x] + Cardinality(Holders(x)) /\ refcount[x] \in Nat \ {0} /\ mine[x] \in Int
  <2>1. Cardinality(Holders(x)) # 0
    BY <1>1, <1>5, HoldersFinite, FS_EmptySet
  <2> QED
    BY <1>1, <1>3, <2>1, CountIs
<1>8. /\ refcount'[x] = refcount[x] - 1 /\ mine' = mine
      /\ \A o \in Object : o # x => refcount'[o] = refcount[o] /\ status'[o] = status[o]
      /\ x \in live' <=> refcount[x] - 1 > 0
  BY <1>1, <1>2, <1>3 DEF Typed, TypeOK, live
<1>9. ASSUME NEW o \in Object
      PROVE  mine'[o] + Cardinality(Holders(o)') = IF o \in live' THEN refcount'[o] ELSE 0
  <2>1. CASE o = x
    BY <1>6, <1>7, <1>8, <2>1, HoldersFinite
  <2>2. CASE o # x
    <3>1. mine[o] + Cardinality(Holders(o)) = IF o \in live THEN refcount[o] ELSE 0
      BY <1>3 DEF Counted, References
    <3>2. Holders(o)' = Holders(o)
      BY <1>4, <2>2
    <3>3. o \in live' <=> o \in live
      BY <1>8, <2>2 DEF live
    <3> QED
      BY <1>8, <2>2, <3>1, <3>2, <3>3
  <2> QED
    BY <2>1, <2>2
<1>10. ASSUME NEW o \in live'
       PROVE  refcount'[o] >= 0 /\ (Holders(o)' # {} => refcount'[o] > 0)
  <2>1. o \in Object
    BY DEF live
  <2>2. CASE o = x
    BY <1>7, <1>8, <2>2
  <2>3. CASE o # x
    <3>1. o \in live /\ refcount'[o] = refcount[o]
      BY <1>8, <2>1, <2>3 DEF live
    <3>2. Holders(o)' = Holders(o)
      BY <1>4, <2>1, <2>3
    <3> QED
      BY <1>3, <3>1, <3>2 DEF Counted, Held
  <2> QED
    BY <2>2, <2>3
<1> QED
  BY <1>9, <1>10 DEF Counted, References, Held

\* A bundle that is being freed comes to a freed element only where it holds one.
LEMMA CollectBlamed ==
    ASSUME Inv, CollectFreed
    PROVE  \E o \in Object : Overfreed(o)
<1> DEFINE b == Head(calls)
           i == released[b] + 1
<1>1. calls # <<>> /\ b \in Bundle /\ released[b] < Len(elmnts[b]) /\ elmnts[b][i] \notin live
  BY DEF CollectFreed, Idle, Inv, Typed, TypeOK
<1>2. i \in released[b] + 1 .. Len(elmnts[b])
  <2>1. released[b] \in Nat /\ Len(elmnts[b]) \in Nat
    BY <1>1 DEF Inv, Typed, TypeOK
  <2> QED
    BY <1>1, <2>1
<1>3. elmnts[b][i] \in Object /\ Holders(elmnts[b][i]) # {}
  BY <1>1, <1>2, ElementHeld DEF Inv
<1> QED
  BY <1>1, <1>3, FreedIsOverfreed DEF Inv, Counted

LEMMA FreeEndsCounted ==
    ASSUME Inv, FreeEnds
    PROVE  Counted'
<1> DEFINE b == Head(calls)
<1>1. /\ b \in Bundle /\ b \in Object /\ released[b] = Len(elmnts[b]) /\ released[b] \in Nat
      /\ status' = [status EXCEPT ![b] = "free"] /\ elmnts' = [elmnts EXCEPT ![b] = <<>>]
      /\ released' = [released EXCEPT ![b] = 0] /\ UNCHANGED <<refcount, mine>>
  BY DEF FreeEnds, Idle, Inv, Typed, TypeOK, Object
<1>2. status[b] = "dying"
  <2>1. 1 \in DOMAIN calls /\ b = calls[1]
    BY DEF FreeEnds, Idle, Inv, Typed, TypeOK
  <2> QED
    BY <1>1, <2>1 DEF Inv, Typed, TypeOK, OneCallEach
<1> HIDE DEF b
<1>3. \A c \in Bundle : /\ elmnts'[c] = IF c = b THEN <<>> ELSE elmnts[c]
                       /\ released'[c] = IF c = b THEN 0 ELSE released[c]
  BY <1>1 DEF Inv, Typed, TypeOK
<1>4. ASSUME NEW o \in Object
      PROVE  Holders(o)' = Holders(o)
  <2>1. ASSUME NEW p \in Bundle \X (1 .. MaxLen)
        PROVE  p \in Holders(o)' <=> p \in Holders(o)
    <3>1. CASE p[1] = b
      BY <1>1, <1>3, <3>1 DEF Holders
    <3>2. CASE p[1] # b
      BY <1>3, <3>2 DEF Holders
    <3> QED
      BY <3>1, <3>2
  <2>2. Holders(o) \subseteq Bundle \X (1 .. MaxLen) /\ Holders(o)' \subseteq Bundle \X (1 .. MaxLen)
    BY DEF Holders
  <2> QED
    BY <2>1, <2>2
<1>5. live' = live
  BY <1>1, <1>2 DEF live, Inv, Typed, TypeOK
<1>6. \A o \in live : o \in Object
  BY DEF live
<1> QED
  BY <1>1, <1>4, <1>5, <1>6 DEF Counted, References, Held, Inv

--------------------------------------------------------------------------------
(***************************************************************************)
(* Circles.                                                                *)
(***************************************************************************)
\* Taking elements out of bundles makes no circle.
LEMMA FewerElements ==
    ASSUME Acyclic, \A b \in Bundle : Inside(elmnts', b) \subseteq Inside(elmnts, b)
    PROVE  Acyclic'
<1> SUFFICES ASSUME NEW S \in SUBSET Bundle, S # {}
             PROVE  \E b \in S : Inside(elmnts', b) \cap S = {}
  BY DEF Acyclic
<1>1. PICK b \in S : Inside(elmnts, b) \cap S = {}
  BY DEF Acyclic
<1> QED
  BY <1>1

\* An element that is added makes no circle, because one that would is refused:
\* some closed set T has the bundle that is added and not b, so that bundles with
\* no last one among them would have none without b either.
LEMMA AddAcyclic ==
    ASSUME Typed, Acyclic, NEW b \in Bundle, NEW o \in Object, lo_bundle_add_element(b, o),
           elmnts' # elmnts
    PROVE  Acyclic'
<1> DEFINE added == [elmnts EXCEPT ![b] = Append(@, o)]
<1>1. elmnts' = added /\ ~(o \in Bundle /\ lo_bundle_circular(added, b))
  BY DEF lo_bundle_add_element
<1>2. \A c \in Bundle : c # b => Inside(added, c) = Inside(elmnts, c)
  BY DEF Inside, Typed, TypeOK
<1>3. Inside(added, b) = Inside(elmnts, b) \cup ({o} \cap Bundle)
  <2> DEFINE s == Append(elmnts[b], o)
  <2>1. added[b] = s /\ elmnts[b] \in Seq(Object)
    BY DEF Typed, TypeOK
  <2>2. /\ DOMAIN s = 1 .. Len(elmnts[b]) + 1 /\ s[Len(elmnts[b]) + 1] = o
        /\ \A i \in 1 .. Len(elmnts[b]) : s[i] = elmnts[b][i]
        /\ DOMAIN elmnts[b] = 1 .. Len(elmnts[b]) /\ Len(elmnts[b]) \in Nat
    BY <2>1
  <2> HIDE DEF s, added
  <2>3. {s[i] : i \in DOMAIN s} = {elmnts[b][i] : i \in DOMAIN elmnts[b]} \cup {o}
    BY <2>2
  <2> QED
    BY <2>1, <2>3 DEF Inside
<1> HIDE DEF added
<1> SUFFICES ASSUME NEW S \in SUBSET Bundle, S # {},
                    \A c \in S : Inside(added, c) \cap S # {}
             PROVE  FALSE
  BY <1>1 DEF Acyclic
<1>4. b \in S
  <2> SUFFICES ASSUME b \notin S PROVE FALSE
    OBVIOUS
  <2>1. \A c \in S : Inside(elmnts, c) \cap S # {}
    BY <1>2
  <2> QED
    BY <2>1 DEF Acyclic
<1>5. o \in Bundle
  <2> SUFFICES ASSUME o \notin Bundle PROVE FALSE
    OBVIOUS
  <2>1. \A c \in S : Inside(elmnts, c) \cap S # {}
    BY <1>2, <1>3
  <2> QED
    BY <2>1 DEF Acyclic
<1>6. PICK y \in S : y \in Inside(added, b)
  BY <1>4
<1>7. b \notin Reached(added, y)
  <2>1. b \in Reached(added, b)
    BY DEF Reached
  <2> QED
    BY <1>1, <1>5, <1>6, <2>1 DEF lo_bundle_circular
<1>8. PICK T \in SUBSET Bundle : y \in T /\ Closed(added, T) /\ b \notin T
  BY <1>7 DEF Reached
<1>9. \A c \in S \cap T : Inside(elmnts, c) \cap (S \cap T) # {}
  BY <1>2, <1>8 DEF Closed
<1> QED
  BY <1>6, <1>8, <1>9 DEF Acyclic

--------------------------------------------------------------------------------
(***************************************************************************)
(* The walk that looks for circles.                                        *)
(***************************************************************************)
\* A bundle is reached from c that is c itself or is reached from one inside it.
LEMMA ReachedIs ==
    ASSUME NEW E, NEW c \in Bundle
    PROVE  \A x : x \in Reached(E, c) <=> x = c \/ \E d \in Inside(E, c) : x \in Reached(E, d)
<1>1. \A d \in Inside(E, c) : d \in Bundle
  BY DEF Inside
<1>2. c \in Reached(E, c)
  BY DEF Reached
<1>3. ASSUME NEW d \in Inside(E, c), NEW x \in Reached(E, d) PROVE x \in Reached(E, c)
  BY DEF Reached, Closed
<1>4. ASSUME NEW x \in Reached(E, c), x # c, \A d \in Inside(E, c) : x \notin Reached(E, d)
      PROVE  FALSE
  <2> DEFINE U == {y \in Bundle : x \notin Reached(E, y)} \cup {c}
  <2>1. c \in U /\ x \notin U /\ U \in SUBSET Bundle
    BY <1>2, <1>4 DEF Reached
  <2>2. ASSUME NEW y \in U, NEW d \in Inside(E, y) PROVE d \in U
    <3>1. d \in Bundle /\ y \in Bundle
      BY DEF Inside
    <3>2. CASE y = c
      BY <1>4, <3>1, <3>2
    <3>3. CASE y # c
      <4>1. x \in Reached(E, d) => x \in Reached(E, y)
        BY <3>1 DEF Reached, Closed
      <4> QED
        BY <3>1, <3>3, <4>1
    <3> QED
      BY <3>2, <3>3
  <2> QED
    BY <2>1, <2>2 DEF Reached, Closed
<1> QED
  BY <1>2, <1>3, <1>4

\* The same of circles: c is on one, or one inside it leads to one.
LEMMA CircularIs ==
    ASSUME NEW E, NEW c \in Bundle
    PROVE  lo_bundle_circular(E, c) <=>
              \E d \in Inside(E, c) : c \in Reached(E, d) \/ lo_bundle_circular(E, d)
<1>1. \A d \in Inside(E, c) : d \in Bundle
  BY DEF Inside
<1>2. ASSUME NEW x \in Reached(E, c), NEW y \in Inside(E, x), x \in Reached(E, y)
      PROVE  \E d \in Inside(E, c) : c \in Reached(E, d) \/ lo_bundle_circular(E, d)
  BY <1>1, <1>2, ReachedIs DEF lo_bundle_circular
<1>3. c \in Reached(E, c)
  BY DEF Reached
<1>4. ASSUME NEW d \in Inside(E, c), lo_bundle_circular(E, d) PROVE lo_bundle_circular(E, c)
  BY <1>4, ReachedIs DEF lo_bundle_circular
<1>5. ASSUME NEW d \in Inside(E, c), c \in Reached(E, d) PROVE lo_bundle_circular(E, c)
  BY <1>3, <1>5 DEF lo_bundle_circular
<1> QED
  BY <1>2, <1>4, <1>5 DEF lo_bundle_circular

\* What a walk inside the bundles P finds: what leads to one of them or to a circle.
Finds(E, P) == {c \in Bundle : Reached(E, c) \cap P # {} \/ lo_bundle_circular(E, c)}

Walks(E, P, f) == P \cup {c \in Bundle \ P : \E d \in Inside(E, c) : d \in f[P \cup {c}]}
IsWalk(E, f) == f = [P \in SUBSET Bundle |-> Walks(E, P, f)]

\* That is P and what has a bundle inside that is so found from P and itself.
LEMMA FindsStep ==
    ASSUME NEW E, NEW P \in SUBSET Bundle, NEW c \in Bundle
    PROVE  c \in Finds(E, P) <=> c \in P \/ \E d \in Inside(E, c) : d \in Finds(E, P \cup {c})
<1>1. c \in Reached(E, c) /\ \A d \in Inside(E, c) : d \in Bundle
  BY DEF Reached, Inside
<1>2. ASSUME NEW d \in Inside(E, c)
      PROVE  d \in Finds(E, P \cup {c}) <=> \/ c \in Reached(E, d) \/ lo_bundle_circular(E, d)
                                            \/ Reached(E, d) \cap P # {}
  BY <1>1 DEF Finds
<1>3. Reached(E, c) \cap P # {} <=> c \in P \/ \E d \in Inside(E, c) : Reached(E, d) \cap P # {}
  BY ReachedIs
<1> QED
  BY <1>2, <1>3, CircularIs DEF Finds

\* So there is a function that is defined by the recursion of walk_tree,
LEMMA WalkExists == ASSUME NEW E PROVE \E f : IsWalk(E, f)
<1> DEFINE f == [P \in SUBSET Bundle |-> Finds(E, P)]
<1>1. ASSUME NEW P \in SUBSET Bundle PROVE Finds(E, P) = Walks(E, P, f)
  <2>1. ASSUME NEW c \in Bundle PROVE c \in Finds(E, P) <=> c \in Walks(E, P, f)
    <3>1. f[P \cup {c}] = Finds(E, P \cup {c})
      OBVIOUS
    <3> HIDE DEF f
    <3> QED
      BY <3>1, FindsStep DEF Walks
  <2>2. Finds(E, P) \in SUBSET Bundle /\ Walks(E, P, f) \in SUBSET Bundle
    BY DEF Finds, Walks
  <2> HIDE DEF f
  <2> QED
    BY <2>1, <2>2
<1>2. IsWalk(E, f)
  BY <1>1, Zenon DEF IsWalk
<1> QED
  BY <1>2

\* and it is what the walk finds: no set of parents is a largest one where they differ.
LEMMA WalkFinds ==
    ASSUME NEW E, NEW f, IsWalk(E, f)
    PROVE  f[{}] = Finds(E, {})
<1> DEFINE Bad == {R \in SUBSET Bundle : f[Bundle \ R] # Finds(E, Bundle \ R)}
<1>1. Bad = {}
  <2> SUFFICES ASSUME Bad # {} PROVE FALSE
    OBVIOUS
  <2>1. IsWellFoundedOn(StrictSubsetOrdering(Bundle), SUBSET Bundle)
    <3>1. FiniteSubsetsOf(Bundle) = SUBSET Bundle
      BY ObjectAssumption, FS_FiniteSubsetsOfFinite
    <3>2. IsWellFoundedOn(StrictSubsetOrdering(Bundle), FiniteSubsetsOf(Bundle))
      BY FS_StrictSubsetOrderingWellFounded
    <3> QED
      BY <3>1, <3>2, Zenon
  <2>2. Bad \subseteq SUBSET Bundle
    OBVIOUS
  <2>3. PICK R \in Bad : \A Q \in Bad : <<Q, R>> \notin StrictSubsetOrdering(Bundle)
    <3> HIDE DEF Bad
    <3> QED
      BY <2>1, <2>2, WFMin
  <2> DEFINE P == Bundle \ R
  <2>4. R \in SUBSET Bundle /\ f[P] # Finds(E, P)
    OBVIOUS
  <2>5. ASSUME NEW c \in Bundle \ P PROVE f[P \cup {c}] = Finds(E, P \cup {c})
    <3>1. <<R \ {c}, R>> \in StrictSubsetOrdering(Bundle)
      BY <2>4 DEF StrictSubsetOrdering
    <3>2. R \ {c} \in SUBSET Bundle /\ R \ {c} \notin Bad
      BY <2>3, <2>4, <3>1
    <3>3. Bundle \ (R \ {c}) = P \cup {c}
      BY <2>4
    <3> QED
      BY <3>2, <3>3
  <2>6. f[P] = Walks(E, P, f)
    BY DEF IsWalk
  <2> HIDE DEF P, Bad
  <2>7. P \in SUBSET Bundle
    BY DEF P
  <2>8. ASSUME NEW c \in Bundle PROVE c \in Finds(E, P) <=> c \in Walks(E, P, f)
    <3>1. c \in Finds(E, P) <=> c \in P \/ \E d \in Inside(E, c) : d \in Finds(E, P \cup {c})
      BY <2>7, FindsStep
    <3>2. CASE c \in P
      BY <3>1, <3>2 DEF Walks
    <3>3. CASE c \notin P
      <4>1. f[P \cup {c}] = Finds(E, P \cup {c})
        BY <2>5, <3>3
      <4> QED
        BY <3>1, <3>3, <4>1 DEF Walks
    <3> QED
      BY <3>2, <3>3
  <2>9. Finds(E, P) \in SUBSET Bundle /\ Walks(E, P, f) \in SUBSET Bundle
    BY <2>7 DEF Finds, Walks
  <2> QED
    BY <2>4, <2>6, <2>8, <2>9
<1>2. Bundle \in SUBSET Bundle /\ Bundle \ Bundle = {}
  OBVIOUS
<1> QED
  BY <1>1, <1>2

\* For any elements at all, the walk finds the bundles that are circular.
LEMMA WalkIsCircular ==
    ASSUME NEW E, NEW b \in Bundle
    PROVE  walk_tree(E, b) <=> lo_bundle_circular(E, b)
<1> DEFINE f == CHOOSE f : IsWalk(E, f)
<1>1. IsWalk(E, f)
  BY WalkExists
<1>2. walk_tree(E, b) <=> b \in f[{}]
  BY DEF walk_tree, IsWalk, Walks
<1> HIDE DEF f
<1>3. b \in Finds(E, {}) <=> lo_bundle_circular(E, b)
  BY DEF Finds
<1> QED
  BY <1>1, <1>2, <1>3, WalkFinds

--------------------------------------------------------------------------------
(***************************************************************************)
(* The theorems.                                                           *)
(***************************************************************************)
LEMMA InitInv == Init => Inv
<1> SUFFICES ASSUME Init PROVE Inv
  OBVIOUS
<1>1. Typed
  BY InitTyped
<1>2. live = {} /\ \A b \in Bundle : elmnts[b] = <<>> /\ released[b] = 0
  BY DEF Init, live
<1>3. Counted
  <2>1. \A o \in Object : Holders(o) = {} /\ mine[o] = 0
    BY <1>2 DEF Holders, Init
  <2>2. \A o \in Object : mine[o] + Cardinality(Holders(o)) = 0
    BY <2>1, FS_EmptySet
  <2> QED
    BY <1>2, <2>2 DEF Counted, References, Held
<1>4. Acyclic
  BY <1>2 DEF Acyclic, Inside
<1>5. Blamed
  BY DEF Init, Blamed
<1> QED
  BY <1>1, <1>3, <1>4, <1>5 DEF Inv

LEMMA EmptyInside ==
    ASSUME NEW E, NEW b, E[b] = <<>>
    PROVE  Inside(E, b) = {}
  BY DEF Inside

\* Nothing has been undefined so far, and the step is not.
LEMMA StaysDefined == ASSUME ~undefined, UNCHANGED undefined PROVE Blamed'
  BY DEF Blamed

LEMMA AddInv ==
    ASSUME Inv, ~undefined, NEW b \in Bundle, NEW o \in Object, lo_bundle_add_element(b, o)
    PROVE  Inv'
<1>1. Typed'
  BY AddTyped DEF Inv
<1>2. CASE /\ elmnts' = [elmnts EXCEPT ![b] = Append(@, o)]
           /\ refcount' = [refcount EXCEPT ![o] = @ + 1]
           /\ UNCHANGED undefined
  <2>1. Acyclic'
    <3>1. CASE elmnts' = elmnts
      BY <3>1, FewerElements DEF Inv
    <3>2. CASE elmnts' # elmnts
      BY <3>2, AddAcyclic DEF Inv
    <3> QED
      BY <3>1, <3>2
  <2> QED
    BY <1>1, <1>2, <2>1, AddCountedRight, StaysDefined DEF Inv
<1>3. CASE UNCHANGED <<elmnts, refcount>> /\ undefined'
  <2>1. UNCHANGED <<status, released, mine>>
    BY DEF lo_bundle_add_element
  <2>2. \A x \in Object : Holders(x)' = Holders(x)
    BY <1>3, <2>1, SameHolders
  <2>3. live' = live /\ \A x \in live : x \in Object
    BY <2>1 DEF live
  <2>4. Counted'
    BY <1>3, <2>1, <2>2, <2>3 DEF Inv, Counted, References, Held
  <2>5. Acyclic'
    BY <1>3, FewerElements DEF Inv
  <2>6. \E x \in Object : Overfreed(x)
    BY <1>3, WalkBlamed
  <2>7. Blamed'
    BY <2>1, <2>6 DEF Blamed, Overfreed
  <2> QED
    BY <1>1, <2>4, <2>5, <2>7 DEF Inv
<1> QED
  BY <1>2, <1>3 DEF lo_bundle_add_element

LEMMA NextInv == Inv /\ [Next]_vars => Inv'
<1> SUFFICES ASSUME Inv, [Next]_vars PROVE Inv'
  OBVIOUS
<1> USE DEF Inv
<1>1. ASSUME ~undefined, NEW o \in Object, New(o) \/ Construct(o) PROVE Inv'
  <2>1. PICK n \in Nat : Create(o, n)
    BY <1>1 DEF New, Construct
  <2>2. Acyclic' /\ Blamed'
    BY <1>1, <2>1, FewerElements, StaysDefined DEF Create
  <2> QED
    BY <2>1, <2>2, CreateTyped, CreateCounted
<1>2. ASSUME ~undefined, NEW o \in Object, Incref(o) PROVE Inv'
  <2>1. Acyclic' /\ Blamed'
    BY <1>2, FewerElements, StaysDefined DEF Incref
  <2> QED
    BY <1>2, <2>1, IncrefTyped, IncrefCounted
<1>3. ASSUME ~undefined, NEW b \in Bundle, NEW o \in Object, lo_bundle_add_element(b, o) PROVE Inv'
  BY <1>3, AddInv
<1>4. ASSUME ~undefined, NEW m \in Message, lo_message_free(m) PROVE Inv'
  <2>1. Acyclic' /\ Blamed'
    BY <1>4, FewerElements, StaysDefined DEF lo_message_free
  <2> QED
    BY <1>4, <2>1, MessageFreeTyped, MessageFreeCounted
<1>5. ASSUME ~undefined, NEW b \in Bundle, lo_bundle_free(b) PROVE Inv'
  <2>1. \A c \in Bundle : Inside(elmnts', c) \subseteq Inside(elmnts, c)
    <3>1. \A c \in Bundle : elmnts'[c] = elmnts[c] \/ elmnts'[c] = <<>>
      BY <1>5 DEF lo_bundle_free, Typed, TypeOK
    <3> QED
      BY <3>1 DEF Inside
  <2>2. Acyclic' /\ Blamed'
    BY <1>5, <2>1, FewerElements, StaysDefined DEF lo_bundle_free
  <2> QED
    BY <1>5, <2>2, BundleFreeTyped, BundleFreeCounted
<1>6. ASSUME ~undefined, NEW b \in Bundle, lo_bundle_free_recursive(b) PROVE Inv'
  <2>1. Acyclic' /\ Blamed'
    BY <1>6, FewerElements, StaysDefined DEF lo_bundle_free_recursive
  <2> QED
    BY <1>6, <2>1, RecursiveTyped, RecursiveCounted
<1>7. ASSUME ~undefined, collect_element PROVE Inv'
  <2>1. Acyclic' /\ Blamed'
    BY <1>7, FewerElements, StaysDefined DEF collect_element
  <2> QED
    BY <1>7, <2>1, CollectTyped, CollectCounted
<1>8. ASSUME ~undefined, FreeEnds PROVE Inv'
  <2>1. \A c \in Bundle : Inside(elmnts', c) \subseteq Inside(elmnts, c)
    <3>1. \A c \in Bundle : elmnts'[c] = elmnts[c] \/ elmnts'[c] = <<>>
      BY <1>8 DEF FreeEnds, Typed, TypeOK
    <3> QED
      BY <3>1 DEF Inside
  <2>2. Acyclic' /\ Blamed'
    BY <1>8, <2>1, FewerElements, StaysDefined DEF FreeEnds
  <2> QED
    BY <1>8, <2>2, FreeEndsTyped, FreeEndsCounted
<1>9. ASSUME UNCHANGED <<status, refcount, elmnts, released, calls, mine>>,
             undefined' \in BOOLEAN, Blamed'
      PROVE  Inv'
  <2>1. Typed'
    BY <1>9 DEF Typed, TypeOK, OneCallEach, Shape
  <2>2. \A o \in Object : Holders(o)' = Holders(o)
    BY <1>9, SameHolders
  <2>3. live' = live /\ \A o \in live : o \in Object
    BY <1>9 DEF live
  <2>4. Counted'
    BY <1>9, <2>2, <2>3 DEF Counted, References, Held
  <2>5. Acyclic'
    BY <1>9, FewerElements
  <2> QED
    BY <1>9, <2>1, <2>4, <2>5
<1>10. ASSUME CollectFreed PROVE Inv'
  <2>1. UNCHANGED <<status, refcount, elmnts, released, calls, mine>> /\ undefined' \in BOOLEAN
    BY <1>10 DEF CollectFreed
  <2>2. Blamed'
    BY <1>10, <2>1, CollectBlamed DEF Blamed, Overfreed
  <2> QED
    BY <1>9, <2>1, <2>2
<1>11. ASSUME UNCHANGED vars PROVE Inv'
  <2>1. UNCHANGED <<status, refcount, elmnts, released, calls, mine>> /\ undefined' \in BOOLEAN
    BY <1>11 DEF vars, Typed, TypeOK
  <2>2. Blamed'
    BY <1>11 DEF vars, Blamed, Overfreed
  <2> QED
    BY <1>9, <2>1, <2>2
<1> QED
  BY <1>1, <1>2, <1>3, <1>4, <1>5, <1>6, <1>7, <1>8, <1>10, <1>11, Zenon DEF Next

\* The invariant holds of every behaviour.
THEOREM InvAlways == Spec => []Inv
  BY InitInv, NextInv, PTL DEF Spec

\* Every variable keeps its type, and there is one call for each dying bundle.
THEOREM TypeCorrect == Spec => []TypeOK
<1>1. Inv => TypeOK
  BY DEF Inv, Typed
<1> QED
  BY <1>1, InvAlways, PTL

\* The count of an object in use is that of the references to it.
THEOREM CountsCorrect == Spec => []CountsMatch
<1>1. ASSUME Inv, NEW o \in live PROVE refcount[o] = mine[o] + Cardinality(Holders(o))
  BY <1>1, CountIs DEF Inv, live
<1>2. Inv => CountsMatch
  BY <1>1 DEF CountsMatch
<1> QED
  BY <1>2, InvAlways, PTL

\* What a bundle holds is in use, unless the user has freed it more often than it
\* had references to it; and no call comes to use a freed object but such a one.
THEOREM DanglingIsOverfreed == Spec => []NoDangling
<1>1. ASSUME Inv, NEW b \in Bundle, NEW i \in released[b] + 1 .. Len(elmnts[b])
      PROVE  elmnts[b][i] \in live \/ Overfreed(elmnts[b][i])
  <2>1. elmnts[b][i] \in Object /\ Holders(elmnts[b][i]) # {}
    BY <1>1, ElementHeld DEF Inv
  <2> QED
    BY <1>1, <2>1, FreedIsOverfreed DEF Inv, Counted
<1>2. Inv => NoDangling
  BY <1>1 DEF NoDangling, Inv, Blamed
<1> QED
  BY <1>2, InvAlways, PTL

\* No bundle comes to be inside itself.
THEOREM NeverCircular == Spec => []Acyclic
<1>1. Inv => Acyclic
  BY DEF Inv
<1> QED
  BY <1>1, InvAlways, PTL

\* The walk with a list of parents (bundle.c:78) agrees with the definition of a
\* circle on which the other proofs rest.
THEOREM WalkAgrees == Spec => []WalkFindsCircle
<1>1. WalkFindsCircle
  BY WalkIsCircular DEF WalkFindsCircle
<1> QED
  BY <1>1, PTL

\* Between calls, an object in use is the user's to free or an element of a bundle
\* in use.
THEOREM NoLeak == Spec => []NothingLeaks
<1>1. ASSUME Inv PROVE NothingLeaks
  <2> SUFFICES ASSUME Idle, NEW o \in live, ~(mine[o] > 0), refcount[o] # 0
               PROVE  \E b \in live \cap Bundle : o \in {elmnts[b][i] : i \in DOMAIN elmnts[b]}
    BY DEF NothingLeaks
  <2>1. o \in Object
    BY DEF live
  <2>2. Holders(o) # {}
    BY <1>1, <2>1, CountIs, FS_EmptySet DEF Inv
  <2>3. PICK p \in Holders(o) : TRUE
    BY <2>2
  <2>4. /\ p[1] \in Bundle /\ p[2] \in DOMAIN elmnts[p[1]] /\ elmnts[p[1]][p[2]] = o
        /\ elmnts[p[1]] # <<>>
    BY <1>1 DEF Holders, Inv, Typed, TypeOK
  <2>5. status[p[1]] # "free" /\ status[p[1]] # "dying" /\ p[1] \in Object
    BY <1>1, <2>4 DEF Inv, Typed, TypeOK, OneCallEach, Shape, Idle, Object
  <2>6. p[1] \in live
    BY <1>1, <2>5 DEF Inv, Typed, TypeOK, live
  <2> QED
    BY <2>4, <2>6
<1> QED
  BY <1>1, InvAlways, PTL

--------------------------------------------------------------------------------
(***************************************************************************)
(* The closures of the C++ object.                                         *)
(***************************************************************************)

\* The variables keep their types.
HandlersTypeOK ==
    /\ made \in Nat /\ gone \subseteq 1 .. made
    /\ server \in [kind : Kind, at : {"none", "creating", "null", "live", "freed"}]
    /\ methods \subseteq [path : Paths, types : Types, data : 1 .. made]
    /\ handlers \in [Keys -> SUBSET (1 .. made)]
    /\ error \in [kept : 0 .. made, context : 0 .. made]
    /\ deleting \in {Null} \cup [path : Paths, types : Types]

\* A closure is filed under one key, the error handler's under none, and none that
\* is filed is destroyed; a method's is filed under its own key or destroyed.
FiledInv ==
    /\ \A k \in Keys : handlers[k] \cap gone = {} /\ error.kept \notin handlers[k]
    /\ \A k, l \in Keys : k # l => handlers[k] \cap handlers[l] = {}
    /\ \A m \in methods : m.data \in handlers[Key(m.path, m.types)] \cup gone

\* The error handler is kept from the time there is a server to call it.
ErrorInv ==
    /\ error.context = error.kept
    /\ server.at \in {"live", "freed"} => error.kept # 0 /\ error.kept \notin gone
    /\ server.at = "freed" => methods = {}
    /\ deleting # Null => server.at = "live"

\* What del_method has yet to delete has the path and the types it was given.
GoneInv ==
    \A m \in methods : m.data \in gone =>
        \/ Ambiguous(m)
        \/ deleting # Null /\ m.path = deleting.path /\ m.types = deleting.types

KeptInv == HandlersTypeOK /\ FiledInv /\ ErrorInv /\ GoneInv

-----------------------------------------------------------------------------
LEMMA KeyIs ==
    ASSUME NEW p \in Paths, NEW t \in Types
    PROVE  Key(p, t) \in Keys
BY DEF Keys

\* One key stands for one path and types, if they are not NULL or empty.
LEMMA KeyTells ==
    ASSUME NEW p, NEW t, NEW m, ~Ambiguous(m), Key(m.path, m.types) = Key(p, t)
    PROVE  m.path = p /\ m.types = t
BY DEF Key, Ambiguous, Blank

LEMMA InitKeptInv == CppInit => KeptInv /\ CallbacksKept
BY KeyIs DEF CppInit, KeptInv, HandlersTypeOK, FiledInv, ErrorInv, GoneInv, CallbacksKept, NoCall, Kind

\* A step that calls no closure.
LEMMA NothingCalled ==
    ASSUME KeptInv', called' = NoCall
    PROVE  CallbacksKept'
<1>1. 0 \notin gone'
  BY DEF KeptInv, HandlersTypeOK
<1> QED
  BY <1>1 DEF CallbacksKept, NoCall, KeptInv, GoneInv

LEMMA AddMethodKept ==
    ASSUME KeptInv, NEW path \in Paths, NEW types \in Types, add_method(path, types)
    PROVE  KeptInv'
<1> DEFINE k == Key(path, types)
           new == [path |-> path, types |-> types, data |-> made + 1]
<1>1. /\ made \in Nat /\ made' = made + 1 /\ k \in Keys
      /\ handlers' = [handlers EXCEPT ![k] = @ \cup {made + 1}]
      /\ methods' \subseteq methods \cup {new}
      /\ UNCHANGED <<server, error, gone, deleting>>
  BY KeyIs DEF add_method, KeptInv, HandlersTypeOK
<1>2. 1 .. made' = 1 .. made \cup {made + 1} /\ made + 1 \notin 0 .. made /\ made + 1 \in Nat
  BY <1>1
<1> HIDE DEF k
<1>3. HandlersTypeOK'
  <2>1. handlers' \in [Keys -> SUBSET (1 .. made')]
    BY <1>1, <1>2 DEF KeptInv, HandlersTypeOK
  <2>2. methods' \subseteq [path : Paths, types : Types, data : 1 .. made']
    BY <1>1, <1>2 DEF KeptInv, HandlersTypeOK
  <2>3. error' \in [kept : 0 .. made', context : 0 .. made']
    BY <1>1, <1>2 DEF KeptInv, HandlersTypeOK
  <2> QED
    BY <1>1, <1>2, <2>1, <2>2, <2>3 DEF KeptInv, HandlersTypeOK
<1>4. /\ \A l \in Keys : handlers'[l] = IF l = k THEN handlers[l] \cup {made + 1} ELSE handlers[l]
      /\ \A l \in Keys : made + 1 \notin handlers[l]
      /\ made + 1 \notin gone /\ made + 1 # error.kept
  BY <1>1, <1>2 DEF KeptInv, HandlersTypeOK
<1>5. \A m \in methods : Key(m.path, m.types) \in Keys
  BY KeyIs DEF KeptInv, HandlersTypeOK
<1>6. FiledInv'
  <2>1. ASSUME NEW l \in Keys PROVE handlers'[l] \cap gone' = {} /\ error'.kept \notin handlers'[l]
    BY <1>1, <1>4 DEF KeptInv, FiledInv
  <2>2. ASSUME NEW l \in Keys, NEW j \in Keys, l # j PROVE handlers'[l] \cap handlers'[j] = {}
    BY <1>1, <1>4, <2>2 DEF KeptInv, FiledInv
  <2>3. ASSUME NEW m \in methods' PROVE m.data \in handlers'[Key(m.path, m.types)] \cup gone'
    <3>1. CASE m \in methods
      BY <1>1, <1>4, <1>5, <3>1 DEF KeptInv, FiledInv
    <3>2. CASE m = new
      BY <1>1, <1>4, <3>2 DEF k
    <3> QED
      BY <1>1, <3>1, <3>2
  <2> QED
    BY <2>1, <2>2, <2>3 DEF FiledInv
<1>7. ErrorInv'
  BY <1>1 DEF KeptInv, ErrorInv, add_method, Live
<1>8. GoneInv'
  BY <1>1, <1>4 DEF KeptInv, GoneInv, Ambiguous
<1> QED
  BY <1>3, <1>6, <1>7, <1>8 DEF KeptInv

LEMMA EraseKept ==
    ASSUME KeptInv, NEW path \in Paths, NEW types \in Types, Erase(path, types)
    PROVE  KeptInv'
<1> DEFINE k == Key(path, types)
<1>1. /\ k \in Keys /\ deleting = Null /\ server.at = "live"
      /\ gone' = gone \cup handlers[k]
      /\ handlers' = [handlers EXCEPT ![k] = {}]
      /\ deleting' = [path |-> path, types |-> types]
      /\ UNCHANGED <<server, methods, error, made>>
  BY KeyIs DEF Erase, Live
<1>2. deleting' # Null /\ deleting'.path = path /\ deleting'.types = types
  BY <1>1, NullAssumption
<1>3. \A l \in Keys : handlers'[l] = IF l = k THEN {} ELSE handlers[l]
  BY <1>1 DEF KeptInv, HandlersTypeOK
<1>4. \A m \in methods : Key(m.path, m.types) \in Keys
  BY KeyIs DEF KeptInv, HandlersTypeOK
<1> HIDE DEF k
<1>5. HandlersTypeOK'
  BY <1>1 DEF KeptInv, HandlersTypeOK
<1>6. FiledInv'
  BY <1>1, <1>3, <1>4 DEF KeptInv, FiledInv
<1>7. ErrorInv'
  BY <1>1 DEF KeptInv, ErrorInv, FiledInv
<1>8. ASSUME NEW m \in methods, m.data \in gone', ~Ambiguous(m)
      PROVE  m.path = path /\ m.types = types
  <2>1. m.data \in handlers[k] /\ m.data \notin gone
    BY <1>1, <1>8 DEF KeptInv, GoneInv, FiledInv
  <2>2. Key(m.path, m.types) = k
    BY <1>1, <1>4, <2>1 DEF KeptInv, FiledInv
  <2> QED
    BY <1>8, <2>2, KeyTells DEF k
<1>9. GoneInv'
  BY <1>1, <1>2, <1>8 DEF GoneInv, Ambiguous
<1> QED
  BY <1>5, <1>6, <1>7, <1>9 DEF KeptInv

LEMMA DeleteKept ==
    ASSUME KeptInv, lo_server_del_method
    PROVE  KeptInv'
<1>1. /\ methods' \subseteq methods /\ \A m \in methods' : ~Deletes(m)
      /\ deleting' = Null /\ UNCHANGED <<server, handlers, error, made, gone>>
  BY DEF lo_server_del_method
<1>2. HandlersTypeOK' /\ FiledInv' /\ ErrorInv'
  BY <1>1 DEF KeptInv, HandlersTypeOK, FiledInv, ErrorInv
<1>3. GoneInv'
  BY <1>1 DEF KeptInv, GoneInv, Ambiguous, Deletes
<1> QED
  BY <1>2, <1>3 DEF KeptInv

LEMMA NextKeptInv == KeptInv /\ CallbacksKept /\ [CppNext]_cppVars => KeptInv' /\ CallbacksKept'
<1> SUFFICES ASSUME KeptInv, CallbacksKept, [CppNext]_cppVars PROVE KeptInv' /\ CallbacksKept'
  OBVIOUS
<1> USE DEF KeptInv, HandlersTypeOK, FiledInv, ErrorInv, GoneInv
<1>1. ASSUME NEW kind \in Kind, Server(kind) PROVE KeptInv' /\ CallbacksKept'
  BY <1>1 DEF Server, CallbacksKept
<1>2. CASE CreateFails
  BY <1>2 DEF CreateFails, CallbacksKept, NoCall, Kind
<1>3. CASE Created
  <2>1. KeptInv'
    BY <1>3 DEF Created
  <2> QED
    BY <1>3, <2>1, NothingCalled DEF Created
<1>4. CASE Throw
  BY <1>4 DEF Throw, CallbacksKept
<1>5. ASSUME NEW p \in Paths, NEW t \in Types, add_method(p, t) PROVE KeptInv' /\ CallbacksKept'
  BY <1>5, AddMethodKept, NothingCalled DEF add_method
<1>6. ASSUME NEW p \in Paths, NEW t \in Types, Erase(p, t) PROVE KeptInv' /\ CallbacksKept'
  BY <1>6, EraseKept, NothingCalled DEF Erase
<1>7. CASE lo_server_del_method
  BY <1>7, DeleteKept, NothingCalled DEF lo_server_del_method
<1>8. ASSUME NEW m \in methods, Dispatch(m) PROVE KeptInv' /\ CallbacksKept'
  BY <1>8 DEF Dispatch, CallbacksKept
<1>9. CASE Free
  <2>1. KeptInv'
    BY <1>9 DEF Free, Live
  <2> QED
    BY <1>9, <2>1, NothingCalled DEF Free
<1>10. CASE Destroy
  <2>1. KeptInv'
    BY <1>10 DEF Destroy
  <2> QED
    BY <1>10, <2>1, NothingCalled DEF Destroy
<1>11. CASE UNCHANGED cppVars
  BY <1>11 DEF cppVars, CallbacksKept, Ambiguous
<1> QED
  BY <1>1, <1>2, <1>3, <1>4, <1>5, <1>6, <1>7, <1>8, <1>9, <1>10, <1>11 DEF CppNext

\* Every closure that liblo calls is one that the object still keeps, but in the
\* three cases that CallbacksKept names (lo_cpp.h:16-43, 477-482, 569-574, 610).
THEOREM KeepsCallbacks == CppSpec => []CallbacksKept
BY InitKeptInv, NextKeptInv, PTL DEF CppSpec
================================================================================
