--------------------------- MODULE LoSequenceLemmas ---------------------------
(***************************************************************************)
(* What the other proofs need about numbers and sequences: induction as    *)
(* the absence of a least counterexample, and FlattenSeq, of the community *)
(* modules, by the places of its pieces.                                   *)
(***************************************************************************)
EXTENDS Integers, Sequences, SequencesExt, SequenceTheorems, WellFoundedInduction, TLAPS

LEMMA LeastNat ==
    ASSUME NEW T \in SUBSET Nat, T # {}
    PROVE  \E n \in T : \A m \in T : n <= m
<1>1. IsWellFoundedOn(OpToRel(<, Nat), Nat)
  BY NatLessThanWellFounded
<1>2. PICK n \in T : \A m \in T : ~ (<<m, n>> \in OpToRel(<, Nat))
  BY <1>1, WFMin
<1>3. \A m \in T : ~(m < n)
  BY <1>2 DEF OpToRel
<1> QED
  BY <1>3

LEMMA GreatestNat ==
    ASSUME NEW b \in Nat, NEW T \in SUBSET (0 .. b), T # {}
    PROVE  \E n \in T : \A m \in T : m <= n
<1> DEFINE U == {b - n : n \in T}
<1>1. \A n \in T : b - n \in Nat
  <2> SUFFICES ASSUME NEW n \in T PROVE b - n \in Nat
    OBVIOUS
  <2>1. n \in 0 .. b
    OBVIOUS
  <2> QED
    BY <2>1
<1>2. U \in SUBSET Nat /\ U # {}
  BY <1>1
<1>3. PICK u \in U : \A v \in U : u <= v
  BY <1>2, LeastNat
<1>4. PICK n \in T : u = b - n
  OBVIOUS
<1>5. \A m \in T : u <= b - m
  BY <1>3
<1> QED
  BY <1>4, <1>5

\* The least counterexample of a statement about 1 .. n.
LEMMA LeastBad ==
    ASSUME NEW n \in Nat, NEW T \in SUBSET (1 .. n), T # {}
    PROVE  \E m \in T : m - 1 \notin T /\ (m # 1 => m - 1 \in 1 .. n)
<1>1. PICK m \in T : \A k \in T : m <= k
  BY LeastNat
<1>2. m \in 1 .. n /\ ~(m <= m - 1)
  OBVIOUS
<1> QED
  BY <1>1, <1>2

\* The least counterexample of a statement about 0 .. n that holds for 0.
LEMMA LeastBadAfter0 ==
    ASSUME NEW n \in Nat, NEW T \in SUBSET (0 .. n), T # {}, 0 \notin T
    PROVE  \E m \in T : m \in 1 .. n /\ m - 1 \in 0 .. n /\ m - 1 \notin T
<1>1. PICK m \in T : \A k \in T : m <= k
  BY LeastNat
<1>2. m \in 1 .. n /\ ~(m <= m - 1)
  OBVIOUS
<1> QED
  BY <1>1, <1>2

\* The partial concatenations of a sequence of sequences, the last of which
\* FlattenSeq is.
Flattens(f, q) == f = [i \in 1 .. Len(q) |-> IF i = 1 THEN q[i] ELSE f[i - 1] \o q[i]]

LEMMA FlattensExists ==
    ASSUME NEW S, NEW q \in Seq(Seq(S)), Len(q) # 0
    PROVE  \E f : Flattens(f, q)
<1> DEFINE n == Len(q)
           UpTo(f, m) == /\ f \in [1 .. n -> Seq(S)]
                         /\ \A i \in 1 .. m : f[i] = IF i = 1 THEN q[i] ELSE f[i - 1] \o q[i]
           Bad == {m \in 1 .. n : ~ \E f : UpTo(f, m)}
<1>1. n \in Nat \ {0} /\ q \in [1 .. n -> Seq(S)]
  OBVIOUS
<1>2. Bad = {}
  <2> SUFFICES ASSUME Bad # {} PROVE FALSE
    OBVIOUS
  <2>1. Bad \in SUBSET (1 .. n)
    OBVIOUS
  <2>2. PICK m \in Bad : m - 1 \notin Bad /\ (m # 1 => m - 1 \in 1 .. n)
    BY <1>1, <2>1, LeastBad
  <2>3. m \in 1 .. n /\ ~ \E f : UpTo(f, m)
    OBVIOUS
  <2>4. m # 1
    <3>1. UpTo(q, 1)
      BY <1>1
    <3> QED
      BY <2>3, <3>1
  <2>5. m - 1 \in 1 .. n /\ \E f : UpTo(f, m - 1)
    BY <2>2, <2>4
  <2>6. PICK f : UpTo(f, m - 1)
    BY <2>5
  <2> DEFINE g == [f EXCEPT ![m] = f[m - 1] \o q[m]]
  <2>7. f[m - 1] \in Seq(S) /\ q[m] \in Seq(S)
    BY <1>1, <2>3, <2>5, <2>6
  <2>8. g \in [1 .. n -> Seq(S)] /\ g[m] = f[m - 1] \o q[m] /\ \A i \in 1 .. n : i # m => g[i] = f[i]
    BY <2>3, <2>6, <2>7, ConcatProperties
  <2> HIDE DEF g
  <2>9. ASSUME NEW i \in 1 .. m PROVE g[i] = IF i = 1 THEN q[i] ELSE g[i - 1] \o q[i]
    <3>1. CASE i = m
      BY <2>3, <2>4, <2>5, <2>8, <3>1
    <3>2. CASE i # m
      <4>1. i \in 1 .. m - 1 /\ i \in 1 .. n
        BY <2>3, <3>2
      <4>2. i # 1 => i - 1 \in 1 .. n /\ i - 1 # m
        BY <2>3, <4>1
      <4> QED
        BY <2>6, <2>8, <3>2, <4>1, <4>2
    <3> QED
      BY <3>1, <3>2
  <2> QED
    BY <2>3, <2>8, <2>9
<1>3. PICK f : UpTo(f, n)
  <2>1. n \in 1 .. n
    BY <1>1
  <2> QED
    BY <1>2, <2>1
<1>4. f = [i \in 1 .. n |-> IF i = 1 THEN q[i] ELSE f[i - 1] \o q[i]]
  BY <1>3
<1> QED
  BY <1>4 DEF Flattens

LEMMA FlattensSeq ==
    ASSUME NEW S, NEW q \in Seq(Seq(S)), Len(q) # 0, NEW f, Flattens(f, q)
    PROVE  \A i \in 1 .. Len(q) : /\ f[i] \in Seq(S)
                                  /\ f[i] = IF i = 1 THEN q[i] ELSE f[i - 1] \o q[i]
<1> DEFINE n == Len(q)
           Bad == {m \in 1 .. n : f[m] \notin Seq(S)}
<1>1. n \in Nat \ {0} /\ q \in [1 .. n -> Seq(S)]
  OBVIOUS
<1>2. \A i \in 1 .. n : f[i] = IF i = 1 THEN q[i] ELSE f[i - 1] \o q[i]
  BY DEF Flattens
<1>3. Bad = {}
  <2> SUFFICES ASSUME Bad # {} PROVE FALSE
    OBVIOUS
  <2>1. Bad \in SUBSET (1 .. n)
    OBVIOUS
  <2>2. PICK m \in Bad : m - 1 \notin Bad /\ (m # 1 => m - 1 \in 1 .. n)
    BY <1>1, <2>1, LeastBad
  <2>3. m \in 1 .. n /\ f[m] \notin Seq(S)
    OBVIOUS
  <2>4. m # 1
    BY <1>1, <1>2, <2>3
  <2>5. m - 1 \in 1 .. n /\ f[m - 1] \in Seq(S)
    BY <2>2, <2>4
  <2>6. f[m - 1] \in Seq(S) /\ q[m] \in Seq(S) /\ f[m] = f[m - 1] \o q[m]
    BY <1>1, <1>2, <2>3, <2>4, <2>5
  <2> QED
    BY <2>3, <2>6, ConcatProperties
<1> QED
  BY <1>2, <1>3

LEMMA FlattenSeqIs ==
    ASSUME NEW S, NEW q \in Seq(Seq(S)), Len(q) # 0
    PROVE  \E f : Flattens(f, q) /\ FlattenSeq(q) = f[Len(q)]
<1> DEFINE f == CHOOSE f : Flattens(f, q)
<1>1. Flattens(f, q)
  BY FlattensExists
<1>2. FlattenSeq(q) = f[Len(q)]
  BY DEF FlattenSeq, Flattens
<1> QED
  BY <1>1, <1>2

\* Flattening begins with the first sequence and goes on with the others.
LEMMA FlattenSeqFirst ==
    ASSUME NEW S, NEW q \in Seq(Seq(S)), Len(q) # 0, NEW p \in Seq(Seq(S)), Len(p) = Len(q) - 1,
           \A i \in 1 .. Len(p) : p[i] = q[i + 1]
    PROVE  /\ FlattenSeq(q) \in Seq(S) /\ FlattenSeq(p) \in Seq(S)
           /\ FlattenSeq(q) = q[1] \o FlattenSeq(p)
<1> DEFINE n == Len(q)
<1>1. /\ n \in Nat \ {0} /\ Len(p) = n - 1 /\ 1 \in 1 .. n /\ n \in 1 .. n
      /\ \A i \in 1 .. n : q[i] \in Seq(S)
      /\ \A i \in 1 .. n - 1 : p[i] = q[i + 1] /\ i + 1 \in 1 .. n
  OBVIOUS
<1>2. PICK f : Flattens(f, q) /\ FlattenSeq(q) = f[n]
  BY FlattenSeqIs
<1>3. \A i \in 1 .. n : f[i] \in Seq(S) /\ f[i] = IF i = 1 THEN q[i] ELSE f[i - 1] \o q[i]
  BY <1>2, FlattensSeq, SMTT(20)
<1>4. CASE n = 1
  <2>1. p = <<>> /\ FlattenSeq(p) = <<>>
    BY <1>1, <1>4 DEF FlattenSeq
  <2>2. FlattenSeq(q) = q[1] /\ q[1] \in Seq(S)
    BY <1>1, <1>2, <1>3, <1>4
  <2>3. q[1] \o <<>> = q[1] /\ <<>> \in Seq(S)
    BY <2>2, ConcatEmptySeq
  <2> QED
    BY <2>1, <2>2, <2>3
<1>5. CASE n # 1
  <2>1. Len(p) # 0 /\ Len(p) = n - 1 /\ n - 1 \in 1 .. n - 1
    BY <1>1, <1>5
  <2>2. PICK g : Flattens(g, p) /\ FlattenSeq(p) = g[n - 1]
    BY <2>1, FlattenSeqIs
  <2>3. \A i \in 1 .. n - 1 : g[i] \in Seq(S) /\ g[i] = IF i = 1 THEN p[i] ELSE g[i - 1] \o p[i]
    <3>1. \A i \in 1 .. Len(p) : g[i] \in Seq(S) /\ g[i] = IF i = 1 THEN p[i] ELSE g[i - 1] \o p[i]
      BY <2>1, <2>2, FlattensSeq, SMTT(30)
    <3> HIDE DEF n
    <3> QED
      BY <1>1, <3>1
  <2> HIDE DEF n
  <2> DEFINE Bad == {m \in 1 .. n - 1 : f[m + 1] # q[1] \o g[m]}
  <2>4. Bad = {}
    <3> SUFFICES ASSUME Bad # {} PROVE FALSE
      OBVIOUS
    <3>1. Bad \in SUBSET (1 .. n - 1)
      OBVIOUS
    <3>7. n - 1 \in Nat
      BY <1>1
    <3>2. PICK m \in Bad : m - 1 \notin Bad /\ (m # 1 => m - 1 \in 1 .. n - 1)
      BY <3>1, <3>7, LeastBad
    <3>3. m \in 1 .. n - 1 /\ f[m + 1] # q[1] \o g[m]
      OBVIOUS
    <3>8. m = 1 \/ f[(m - 1) + 1] = q[1] \o g[m - 1]
      BY <3>2
    <3> HIDE DEF Bad
    <3>9. m + 1 \in 1 .. n /\ m + 1 # 1 /\ (m + 1) - 1 = m /\ (m - 1) + 1 = m
      BY <1>1, <3>3
    <3>4. f[m + 1] = f[m] \o q[m + 1] /\ p[m] = q[m + 1] /\ p[m] \in Seq(S)
      BY <1>1, <1>3, <3>3, <3>9
    <3>5. CASE m = 1
      <4>1. f[1] = q[1] /\ g[1] = p[1]
        BY <1>1, <1>3, <2>3, <3>3, <3>5
      <4> QED
        BY <3>3, <3>4, <3>5, <4>1
    <3>6. CASE m # 1
      <4>1. m - 1 \in 1 .. n - 1 /\ f[m] = q[1] \o g[m - 1]
        BY <3>2, <3>8, <3>9, <3>6
      <4>2. g[m] = g[m - 1] \o p[m] /\ g[m - 1] \in Seq(S)
        BY <2>3, <3>3, <3>6, <4>1
      <4>3. (q[1] \o g[m - 1]) \o p[m] = q[1] \o (g[m - 1] \o p[m])
        <5>1. PICK x \in Seq(S), y \in Seq(S), z \in Seq(S) : x = q[1] /\ y = g[m - 1] /\ z = p[m]
          BY <1>1, <3>4, <4>2
        <5>2. (x \o y) \o z = x \o (y \o z)
          BY ConcatAssociative, SMTT(30)
        <5> QED
          BY <5>1, <5>2
      <4> QED
        BY <3>3, <3>4, <4>1, <4>2, <4>3
    <3> QED
      BY <3>5, <3>6
  <2>5. f[n] = q[1] \o g[n - 1]
    <3>1. \A m \in 1 .. n - 1 : f[m + 1] = q[1] \o g[m]
      BY <2>4
    <3> HIDE DEF Bad
    <3>2. f[(n - 1) + 1] = q[1] \o g[n - 1]
      BY <2>1, <3>1
    <3>3. (n - 1) + 1 = n
      BY <1>1
    <3> QED
      BY <3>2, <3>3
  <2>6. FlattenSeq(q) = q[1] \o FlattenSeq(p)
    BY <1>2, <2>2, <2>5
  <2>7. FlattenSeq(q) \in Seq(S) /\ FlattenSeq(p) \in Seq(S)
    BY <1>1, <1>2, <1>3, <2>1, <2>2, <2>3
  <2> QED
    BY <2>6, <2>7
<1> QED
  BY <1>4, <1>5


--------------------------------------------------------------------------------
(***************************************************************************)
(* The places of the pieces in a sequence that is flat: the i-th ends      *)
(* at o[i].                                                                *)
(***************************************************************************)
Places(s, q, o) ==
    /\ o \in [0 .. Len(q) -> Nat] /\ o[0] = 0 /\ o[Len(q)] = Len(s)
    /\ \A i \in 1 .. Len(q) :
          /\ o[i] = o[i - 1] + Len(q[i])
          /\ \A k \in 1 .. Len(q[i]) : s[o[i - 1] + k] = q[i][k]

LEMMA PlacesAre ==
    ASSUME NEW s, NEW q, NEW o, Places(s, q, o)
    PROVE  /\ o \in [0 .. Len(q) -> Nat] /\ o[0] = 0 /\ o[Len(q)] = Len(s)
           /\ \A i \in 1 .. Len(q) : o[i] = o[i - 1] + Len(q[i])
           /\ \A i \in 1 .. Len(q) : \A k \in 1 .. Len(q[i]) : s[o[i - 1] + k] = q[i][k]
BY Zenon DEF Places

LEMMA FlattenSeqPlaces ==
    ASSUME NEW S, NEW q \in Seq(Seq(S))
    PROVE  FlattenSeq(q) \in Seq(S) /\ \E o : Places(FlattenSeq(q), q, o)
<1> DEFINE n == Len(q)
<1>1. n \in Nat /\ \A i \in 1 .. n : q[i] \in Seq(S) /\ Len(q[i]) \in Nat
  OBVIOUS
<1>2. CASE n = 0
  <2>1. q = <<>> /\ FlattenSeq(q) = <<>>
    BY <1>2 DEF FlattenSeq
  <2>2. Places(<<>>, q, [i \in 0 .. 0 |-> 0])
    BY <1>2, <2>1 DEF Places
  <2> QED
    BY <2>1, <2>2
<1>3. CASE n # 0
  <2>1. PICK f : Flattens(f, q) /\ FlattenSeq(q) = f[n]
    BY <1>3, FlattenSeqIs
  <2>2. \A i \in 1 .. n : f[i] \in Seq(S) /\ f[i] = IF i = 1 THEN q[i] ELSE f[i - 1] \o q[i]
    BY <1>3, <2>1, FlattensSeq
  <2> DEFINE o == [i \in 0 .. n |-> IF i = 0 THEN 0 ELSE Len(f[i])]
  <2> HIDE DEF n
  <2>3. \A i \in 1 .. n : o[i] = Len(f[i]) /\ o[i] \in Nat /\ i - 1 \in 0 .. n
    BY <1>1, <2>2
  <2>4. o[0] = 0 /\ o \in [0 .. n -> Nat]
    BY <1>1, <2>3
  <2> HIDE DEF o
  <2>5. ASSUME NEW i \in 1 .. n
        PROVE  /\ o[i] = o[i - 1] + Len(q[i])
               /\ \A k \in 1 .. Len(q[i]) : f[i][o[i - 1] + k] = q[i][k]
               /\ \A p \in 1 .. o[i - 1] : i # 1 /\ f[i][p] = f[i - 1][p]
    <3>1. CASE i = 1
      BY <1>1, <2>2, <2>3, <2>4, <3>1
    <3>2. CASE i # 1
      <4>7. i - 1 \in 1 .. n
        BY <1>1, <3>2
      <4>1. i - 1 \in 1 .. n /\ f[i - 1] \in Seq(S) /\ q[i] \in Seq(S) /\ f[i] = f[i - 1] \o q[i]
        BY <1>1, <2>2, <3>2, <4>7, Zenon
      <4>2. PICK x \in Seq(S), y \in Seq(S) : x = f[i - 1] /\ y = q[i]
        BY <4>1
      <4>3. /\ f[i] = x \o y /\ o[i] = Len(x \o y) /\ o[i - 1] = Len(x)
        BY <2>3, <4>1, <4>2
      <4>4. /\ Len(x \o y) = Len(x) + Len(y) /\ Len(x) \in Nat /\ Len(y) \in Nat
            /\ \A k \in 1 .. Len(x) + Len(y) : (x \o y)[k] = IF k <= Len(x) THEN x[k] ELSE y[k - Len(x)]
        BY ConcatProperties
      <4>5. \A k \in 1 .. Len(y) : (x \o y)[Len(x) + k] = y[k]
        <5> TAKE k \in 1 .. Len(y)
        <5>1. Len(x) + k \in 1 .. Len(x) + Len(y) /\ ~(Len(x) + k <= Len(x)) /\ (Len(x) + k) - Len(x) = k
          BY <4>4
        <5> QED
          BY <4>4, <5>1
      <4>6. \A p \in 1 .. Len(x) : (x \o y)[p] = x[p]
        BY <4>4
      <4> QED
        BY <3>2, <4>2, <4>3, <4>4, <4>5, <4>6
    <3> QED
      BY <3>1, <3>2
  <2> DEFINE Bad == {m \in 1 .. n : ~ \A i \in 1 .. m : /\ o[i] <= o[m]
                                     /\ \A k \in 1 .. Len(q[i]) : f[m][o[i - 1] + k] = q[i][k]}
  <2>6. Bad = {}
    <3> SUFFICES ASSUME Bad # {} PROVE FALSE
      OBVIOUS
    <3>1. Bad \in SUBSET (1 .. n)
      OBVIOUS
    <3>2. PICK m \in Bad : m - 1 \notin Bad /\ (m # 1 => m - 1 \in 1 .. n)
      BY <1>1, <3>1, LeastBad
    <3>3. PICK i \in 1 .. m : ~(/\ o[i] <= o[m]
                                /\ \A k \in 1 .. Len(q[i]) : f[m][o[i - 1] + k] = q[i][k])
      OBVIOUS
    <3>4. m \in 1 .. n /\ i \in 1 .. n
      BY <1>1, <3>1, <3>2
    <3>5. i # m
      <4>1. o[m] <= o[m] /\ \A k \in 1 .. Len(q[m]) : f[m][o[m - 1] + k] = q[m][k]
        BY <2>3, <2>5, <3>4
      <4> QED
        BY <3>3, <4>1, Zenon
    <3>6. i \in 1 .. m - 1 /\ m # 1
      BY <1>1, <3>4, <3>5
    <3>7. /\ o[i] <= o[m - 1] /\ \A k \in 1 .. Len(q[i]) : f[m - 1][o[i - 1] + k] = q[i][k]
      BY <3>2, <3>6
    <3> HIDE DEF Bad
    <3>8. /\ o[m] = o[m - 1] + Len(q[m]) /\ o[m - 1] \in Nat /\ Len(q[m]) \in Nat
          /\ o[i] = o[i - 1] + Len(q[i]) /\ o[i - 1] \in Nat /\ Len(q[i]) \in Nat
      BY <1>1, <2>3, <2>4, <2>5, <3>4
    <3>9. \A k \in 1 .. Len(q[i]) : o[i - 1] + k \in 1 .. o[m - 1]
      <4>1. o[i] <= o[m - 1]
        BY <3>7, Zenon
      <4>2. PICK a \in Nat, b \in Nat, l \in Nat :
               a = o[i - 1] /\ b = o[m - 1] /\ l = Len(q[i]) /\ a + l <= b
        BY <3>8, <4>1
      <4>3. a + l <= b
        BY <4>2, Zenon
      <4>4. \A k \in 1 .. l : a + k \in 1 .. b
        BY <4>3
      <4> QED
        BY <4>2, <4>4, Zenon
    <3>10. \A k \in 1 .. Len(q[i]) : f[m][o[i - 1] + k] = q[i][k]
      BY <2>5, <3>4, <3>7, <3>9
    <3> QED
      BY <3>3, <3>7, <3>8, <3>10, SMTT(20)
  <2>7. n \in 1 .. n
    BY <1>1, <1>3
  <2>8. \A i \in 1 .. n : \A k \in 1 .. Len(q[i]) : f[n][o[i - 1] + k] = q[i][k]
    BY <2>6, <2>7
  <2> HIDE DEF Bad
  <2>9. Places(f[n], q, o)
    BY <2>3, <2>4, <2>5, <2>7, <2>8 DEF Places, n
  <2> QED
    BY <2>1, <2>2, <2>7, <2>9
<1> QED
  BY <1>2, <1>3

\* Pieces end in order, and each place is in one of them.
LEMMA PlacesCover ==
    ASSUME NEW S, NEW q \in Seq(Seq(S)), NEW s \in Seq(S), NEW o, Places(s, q, o)
    PROVE  /\ \A j \in 0 .. Len(q) : \A i \in 0 .. j : o[i] <= o[j]
           /\ \A p \in 1 .. Len(s) : \E i \in 1 .. Len(q) :
                 o[i - 1] < p /\ p <= o[i] /\ p - o[i - 1] \in 1 .. Len(q[i])
<1> DEFINE n == Len(q)
           Bad == {j \in 0 .. n : ~ \A i \in 0 .. j : o[i] <= o[j]}
<1>1. n \in Nat /\ \A i \in 1 .. n : q[i] \in Seq(S) /\ Len(q[i]) \in Nat
  OBVIOUS
<1>2. /\ \A i \in 0 .. n : o[i] \in Nat
      /\ o[0] = 0 /\ o[n] = Len(s)
      /\ \A i \in 1 .. n : o[i] = o[i - 1] + Len(q[i]) /\ i - 1 \in 0 .. n
  <2>1. o \in [0 .. n -> Nat] /\ o[0] = 0 /\ o[n] = Len(s)
    BY Zenon DEF Places
  <2>2. \A i \in 1 .. n : o[i] = o[i - 1] + Len(q[i])
    BY Zenon DEF Places
  <2> HIDE DEF n
  <2> QED
    BY <1>1, <2>1, <2>2
<1> HIDE DEF n
<1>3. Bad = {}
  <2> SUFFICES ASSUME Bad # {} PROVE FALSE
    OBVIOUS
  <2>1. Bad \in SUBSET (0 .. n) /\ 0 \notin Bad
    BY <1>1, <1>2
  <2>2. PICK j \in Bad : j \in 1 .. n /\ j - 1 \in 0 .. n /\ j - 1 \notin Bad
    BY <1>1, <2>1, LeastBadAfter0
  <2>3. PICK i \in 0 .. j : ~(o[i] <= o[j])
    BY <2>2
  <2>4. \A h \in 0 .. j - 1 : o[h] <= o[j - 1]
    BY <2>2
  <2> HIDE DEF Bad
  <2>5. o[j] = o[j - 1] + Len(q[j]) /\ o[j - 1] \in Nat /\ Len(q[j]) \in Nat /\ o[i] \in Nat
    BY <1>1, <1>2, <2>2
  <2>6. i # j
    BY <1>2, <2>2, <2>3
  <2>7. i \in 0 .. j - 1
    BY <1>1, <2>2, <2>6
  <2> QED
    BY <2>3, <2>4, <2>5, <2>7
<1>4. ASSUME NEW p \in 1 .. Len(s)
      PROVE  \E i \in 1 .. n : o[i - 1] < p /\ p <= o[i] /\ p - o[i - 1] \in 1 .. Len(q[i])
  <2> DEFINE T == {i \in 0 .. n : p <= o[i]}
  <2>1. Len(s) \in Nat
    OBVIOUS
  <2>2. n \in T /\ 0 \notin T /\ T \in SUBSET (0 .. n)
    BY <1>1, <1>2, <2>1
  <2>3. PICK i \in T : i \in 1 .. n /\ i - 1 \in 0 .. n /\ i - 1 \notin T
    BY <1>1, <2>2, LeastBadAfter0
  <2>4. /\ p <= o[i] /\ ~(p <= o[i - 1]) /\ o[i - 1] \in Nat /\ o[i] = o[i - 1] + Len(q[i])
        /\ Len(q[i]) \in Nat
    BY <1>1, <1>2, <2>3
  <2> HIDE DEF T
  <2>5. p - o[i - 1] \in 1 .. Len(q[i]) /\ o[i - 1] < p
    BY <2>1, <2>4
  <2> QED
    BY <2>3, <2>4, <2>5
<1> QED
  BY <1>3, <1>4 DEF n

\* What is made of the pieces is what FlattenSeq makes of them.
LEMMA PlacesUnique ==
    ASSUME NEW S, NEW q \in Seq(Seq(S)), NEW s \in Seq(S), NEW t \in Seq(S),
           NEW o, Places(s, q, o), NEW u, Places(t, q, u)
    PROVE  s = t /\ \A i \in 0 .. Len(q) : o[i] = u[i]
<1> DEFINE n == Len(q)
           Bad == {i \in 0 .. n : o[i] # u[i]}
<1>1. n \in Nat
  OBVIOUS
<1>2. o[0] = u[0] /\ \A i \in 1 .. n : o[i] = o[i - 1] + Len(q[i]) /\ u[i] = u[i - 1] + Len(q[i])
  BY PlacesAre
<1>3. Bad = {}
  <2> SUFFICES ASSUME Bad # {} PROVE FALSE
    OBVIOUS
  <2>1. Bad \in SUBSET (0 .. n) /\ 0 \notin Bad
    BY <1>2
  <2>2. PICK i \in Bad : i \in 1 .. n /\ i - 1 \in 0 .. n /\ i - 1 \notin Bad
    BY <1>1, <2>1, LeastBadAfter0
  <2> QED
    BY <1>2, <2>2
<1>4. \A i \in 0 .. n : o[i] = u[i]
  BY <1>3
<1> HIDE DEF Bad
<1>5. Len(s) = Len(t)
  <2>1. Len(s) = o[n] /\ Len(t) = u[n]
    BY Zenon DEF Places
  <2>2. n \in 0 .. n
    BY <1>1
  <2> QED
    BY <1>4, <2>1, <2>2, Zenon
<1>6. ASSUME NEW p \in 1 .. Len(s) PROVE s[p] = t[p]
  <2>1. PICK i \in 1 .. n : p - o[i - 1] \in 1 .. Len(q[i])
    BY PlacesCover
  <2>2. i - 1 \in 0 .. n /\ o[i - 1] \in Nat /\ u[i - 1] = o[i - 1]
    <3>1. o \in [0 .. n -> Nat]
      BY Zenon DEF Places
    <3> HIDE DEF n
    <3>2. i - 1 \in 0 .. n
      BY <1>1, <2>1
    <3> QED
      BY <1>4, <3>1, <3>2
  <2>3. o[i - 1] + (p - o[i - 1]) = p
    BY <2>2
  <2>4. s[o[i - 1] + (p - o[i - 1])] = q[i][p - o[i - 1]]
    BY <2>1, Zenon DEF Places
  <2>5. t[u[i - 1] + (p - o[i - 1])] = q[i][p - o[i - 1]]
    BY <2>1, Zenon DEF Places
  <2> QED
    BY <2>2, <2>3, <2>4, <2>5
<1>7. s = t
  BY <1>5, <1>6, SeqEqual
<1> QED
  BY <1>4, <1>7

\* One more piece at the end, which is where v is.
OneMore(o, n, v) == [i \in 0 .. n + 1 |-> IF i = n + 1 THEN v ELSE o[i]]

IsOneMore(u, o, n, v) ==
    u \in [0 .. n + 1 -> Nat] /\ u[n + 1] = v /\ \A i \in 0 .. n : u[i] = o[i]

LEMMA OneMoreIs ==
    ASSUME NEW n \in Nat, NEW v \in Nat, NEW o \in [0 .. n -> Nat]
    PROVE  IsOneMore(OneMore(o, n, v), o, n, v)
<1> DEFINE u == [i \in 0 .. n + 1 |-> IF i = n + 1 THEN v ELSE o[i]]
<1>1. \A i \in 0 .. n + 1 : i = n + 1 \/ (i # n + 1 /\ i \in 0 .. n)
  OBVIOUS
<1>2. n + 1 \in 0 .. n + 1 /\ \A i \in 0 .. n : i \in 0 .. n + 1 /\ i # n + 1
  OBVIOUS
<1>3. \A i \in 0 .. n + 1 : (IF i = n + 1 THEN v ELSE o[i]) \in Nat
  BY <1>1
<1>4. u \in [0 .. n + 1 -> Nat]
  BY <1>3
<1>5. u[n + 1] = v /\ \A i \in 0 .. n : u[i] = o[i]
  BY <1>2
<1> QED
  BY <1>4, <1>5, Zenon DEF OneMore, IsOneMore

LEMMA PlacesAppend ==
    ASSUME NEW S, NEW q \in Seq(Seq(S)), NEW s \in Seq(S), NEW o, Places(s, q, o),
           NEW x \in Seq(S)
    PROVE  Places(s \o x, Append(q, x), OneMore(o, Len(q), Len(s) + Len(x)))
<1> DEFINE n == Len(q)
           r == Append(q, x)
           t == s \o x
           u == OneMore(o, n, Len(s) + Len(x))
<1>1. /\ n \in Nat /\ Len(s) \in Nat /\ Len(x) \in Nat
      /\ \A i \in 1 .. n : q[i] \in Seq(S) /\ Len(q[i]) \in Nat
  OBVIOUS
<1>2. Len(r) = n + 1 /\ r[n + 1] = x /\ \A i \in 1 .. n : r[i] = q[i]
  BY AppendProperties
<1>3. /\ Len(t) = Len(s) + Len(x)
      /\ \A p \in 1 .. Len(s) : t[p] = s[p]
      /\ \A k \in 1 .. Len(x) : t[Len(s) + k] = x[k]
  <2>1. /\ Len(t) = Len(s) + Len(x)
        /\ \A p \in 1 .. Len(s) + Len(x) : t[p] = IF p <= Len(s) THEN s[p] ELSE x[p - Len(s)]
    BY ConcatProperties
  <2>2. \A k \in 1 .. Len(x) : /\ Len(s) + k \in 1 .. Len(s) + Len(x) /\ ~(Len(s) + k <= Len(s))
                                /\ (Len(s) + k) - Len(s) = k
    BY <1>1
  <2>3. \A p \in 1 .. Len(s) : p \in 1 .. Len(s) + Len(x) /\ p <= Len(s)
    BY <1>1
  <2> HIDE DEF t
  <2> QED
    BY <2>1, <2>2, <2>3
<1>4. /\ o \in [0 .. n -> Nat] /\ o[0] = 0 /\ o[n] = Len(s)
      /\ \A i \in 1 .. n : /\ o[i] = o[i - 1] + Len(q[i])
                            /\ \A k \in 1 .. Len(q[i]) : s[o[i - 1] + k] = q[i][k]
  BY Zenon DEF Places
<1>5. \A i \in 0 .. n : o[i] <= o[n]
  <2>1. \A j \in 0 .. Len(q) : \A i \in 0 .. j : o[i] <= o[j]
    BY ONLY q \in Seq(Seq(S)), s \in Seq(S), Places(s, q, o), PlacesCover
  <2>2. Len(q) \in 0 .. Len(q)
    BY <1>1
  <2> QED
    BY <2>1, <2>2, Zenon
<1> HIDE DEF n, r, t
<1>6. u \in [0 .. n + 1 -> Nat] /\ u[0] = 0 /\ u[n + 1] = Len(s) + Len(x) /\ \A i \in 0 .. n : u[i] = o[i]
  <2>1. Len(s) + Len(x) \in Nat
    BY <1>1
  <2>3. n \in Nat
    BY <1>1
  <2>2. IsOneMore(u, o, n, Len(s) + Len(x))
    BY <1>4, <2>1, <2>3, OneMoreIs
  <2>4. 0 \in 0 .. n
    BY <2>3
  <2> HIDE DEF u
  <2> QED
    BY <1>4, <2>1, <2>2, <2>4, Zenon DEF IsOneMore
<1> HIDE DEF u
<1>7. ASSUME NEW i \in 1 .. n + 1
      PROVE  /\ u[i] = u[i - 1] + Len(r[i])
             /\ \A k \in 1 .. Len(r[i]) : t[u[i - 1] + k] = r[i][k]
  <2>1. CASE i = n + 1
    <3>1. i - 1 = n /\ u[n] = Len(s) /\ r[i] = x
      BY <1>1, <1>2, <1>4, <1>6, <2>1
    <3>2. u[i] = Len(s) + Len(x) /\ u[i - 1] = Len(s)
      BY <1>6, <2>1, <3>1
    <3> QED
      BY <1>3, <3>1, <3>2
  <2>2. CASE i # n + 1
    <3>1. i \in 1 .. n /\ i \in 0 .. n /\ i - 1 \in 0 .. n
      BY <1>1, <2>2
    <3>2. r[i] = q[i] /\ u[i] = o[i] /\ u[i - 1] = o[i - 1]
      BY <1>2, <1>6, <3>1
    <3>3. o[i] = o[i - 1] + Len(q[i]) /\ \A k \in 1 .. Len(q[i]) : s[o[i - 1] + k] = q[i][k]
      BY <1>4, <3>1
    <3>4. o[i] <= Len(s) /\ o[i] \in Nat /\ o[i - 1] \in Nat /\ Len(q[i]) \in Nat
      BY <1>1, <1>4, <1>5, <3>1
    <3>5. \A k \in 1 .. Len(q[i]) : o[i - 1] + k \in 1 .. Len(s)
      <4>1. PICK a \in Nat, l \in Nat, v \in Nat : /\ a = o[i - 1] /\ l = Len(q[i]) /\ v = Len(s)
                                                   /\ a + l <= v
        <5>1. o[i - 1] \in Nat /\ Len(q[i]) \in Nat /\ Len(s) \in Nat
          BY <1>1, <3>4, Zenon
        <5>2. o[i - 1] + Len(q[i]) <= Len(s)
          BY <3>3, <3>4, Zenon
        <5> QED
          BY <5>1, <5>2
      <4>3. a + l <= v
        BY <4>1, Zenon
      <4>2. \A k \in 1 .. l : a + k \in 1 .. v
        BY ONLY <4>3, a \in Nat, l \in Nat, v \in Nat
      <4> QED
        BY <4>1, <4>2, Zenon
    <3>6. \A k \in 1 .. Len(q[i]) : t[o[i - 1] + k] = s[o[i - 1] + k]
      BY <1>3, <3>5
    <3> QED
      BY <3>2, <3>3, <3>6
  <2> QED
    BY <2>1, <2>2
<1>8. Places(t, r, u)
  BY <1>2, <1>3, <1>6, <1>7 DEF Places
<1> QED
  BY <1>8 DEF n, r, t, u
================================================================================
