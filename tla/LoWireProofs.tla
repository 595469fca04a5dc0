---------------------------- MODULE LoWireProofs -----------------------------
(***************************************************************************)
(* What the runs check of LoWire, for paths, arguments, calls and memory   *)
(* of every length: what is built is read back, what is accepted is        *)
(* canonical, what is coerced has room.                                    *)
(***************************************************************************)
EXTENDS LoWire, LoSequenceLemmas, FiniteSetTheorems

Mem == Seq(Nat)
Str == Seq(Nat \ {0})

-----------------------------------------------------------------------------
(* Numbers and strings *)

LEMMA MinIs ==
    ASSUME NEW S \in SUBSET Nat, S # {}
    PROVE  Min(S) \in S /\ \A n \in S : Min(S) <= n
<1>1. \E n \in S : \A m \in S : n <= m
  BY LeastNat
<1> QED
  BY <1>1 DEF Min

\* strlen finds the first zero, or nothing.
LEMMA StrLenIs ==
    ASSUME NEW mem \in Mem
    PROVE  \/ StrLen(mem) = -1 /\ \A i \in 1 .. Len(mem) : mem[i] # 0
           \/ /\ StrLen(mem) \in 0 .. Len(mem) - 1 /\ mem[StrLen(mem) + 1] = 0
              /\ \A i \in 1 .. StrLen(mem) : mem[i] # 0
<1> DEFINE I == {i \in 1 .. Len(mem) : mem[i] = 0}
<1>1. StrLen(mem) = (IF I # {} THEN Min(I) ELSE 0) - 1
  BY DEF StrLen, SelectInSeq
<1>2. CASE I = {}
  BY <1>1, <1>2
<1>3. CASE I # {}
  <2>0. I \in SUBSET Nat
    OBVIOUS
  <2> HIDE DEF I
  <2>1. Min(I) \in I /\ \A n \in I : Min(I) <= n
    BY <1>3, <2>0, MinIs
  <2>2. PICK k : k = Min(I)
    OBVIOUS
  <2>3. k \in I /\ StrLen(mem) = k - 1 /\ \A n \in I : k <= n
    BY <1>1, <1>3, <2>1, <2>2
  <2>4. k \in 1 .. Len(mem) /\ mem[k] = 0 /\ k - 1 \in 0 .. Len(mem) - 1 /\ k - 1 + 1 = k
    BY <2>3 DEF I, Mem
  <2>5. ASSUME NEW i \in 1 .. k - 1 PROVE mem[i] # 0
    <3>1. i \in 1 .. Len(mem) /\ ~(k <= i)
      BY <2>4 DEF Mem
    <3>2. i \notin I
      BY <3>1, <2>3
    <3> QED
      BY <3>1, <3>2 DEF I
  <2> QED
    BY <2>3, <2>4, <2>5
<1> QED
  BY <1>2, <1>3

LEMMA StrLenAt ==
    ASSUME NEW mem \in Mem, NEW k \in 0 .. Len(mem) - 1, mem[k + 1] = 0,
           \A i \in 1 .. k : mem[i] # 0
    PROVE  StrLen(mem) = k
<1> DEFINE n == StrLen(mem)
<1>1. \/ n = -1 /\ \A i \in 1 .. Len(mem) : mem[i] # 0
      \/ /\ n \in 0 .. Len(mem) - 1 /\ mem[n + 1] = 0
         /\ \A i \in 1 .. n : mem[i] # 0
  BY StrLenIs
<1> HIDE DEF n
<1>2. k + 1 \in 1 .. Len(mem)
  BY DEF Mem
<1>3. n # -1
  BY <1>1, <1>2
<1>4. CASE n < k
  <2>1. n + 1 \in 1 .. k
    BY <1>1, <1>3, <1>4
  <2> QED
    BY <2>1, <1>1, <1>3
<1>5. CASE n > k
  <2>1. k + 1 \in 1 .. n
    BY <1>1, <1>3, <1>5
  <2> QED
    BY <2>1, <1>1, <1>3
<1>6. n \in Int
  BY <1>1
<1> QED
  BY <1>4, <1>5, <1>6 DEF n

LEMMA StrSizeIs ==
    ASSUME NEW n \in Nat
    PROVE  lo_strsize(n) \in Nat /\ n < lo_strsize(n) /\ lo_strsize(n) <= n + 4
BY DEF lo_strsize

LEMMA ZerosAre ==
    ASSUME NEW n \in Nat
    PROVE  Zeros(n) \in Mem /\ Len(Zeros(n)) = n /\ \A i \in 1 .. n : Zeros(n)[i] = 0
BY DEF Zeros, Mem

\* Sets of sequences grow with the sets they are over.
Below(S, T) == S \subseteq T

LEMMA SeqGrows ==
    \A S, T : Below(S, T) => Below(Seq(S), Seq(T))
BY SeqMonotonic DEF Below

LEMMA Bytes ==
    /\ Seq(0 .. 255) \subseteq Mem /\ Seq(1 .. 255) \subseteq Mem
    /\ Seq(1 .. 255) \subseteq Str /\ Str \subseteq Mem /\ <<>> \in Mem
<1>1. /\ 0 .. 255 \subseteq Nat /\ 1 .. 255 \subseteq Nat
      /\ 1 .. 255 \subseteq Nat \ {0} /\ Nat \ {0} \subseteq Nat
  OBVIOUS
<1>2. Seq(0 .. 255) \subseteq Seq(Nat) /\ Seq(1 .. 255) \subseteq Seq(Nat)
  <2>1. Below(0 .. 255, Nat) /\ Below(1 .. 255, Nat)
    BY <1>1, Zenon DEF Below
  <2>2. Below(Seq(0 .. 255), Seq(Nat)) /\ Below(Seq(1 .. 255), Seq(Nat))
    BY <2>1, SeqGrows
  <2> QED
    BY <2>2, Zenon DEF Below
<1>3. Seq(1 .. 255) \subseteq Seq(Nat \ {0}) /\ Seq(Nat \ {0}) \subseteq Seq(Nat)
  <2>1. Below(1 .. 255, Nat \ {0}) /\ Below(Nat \ {0}, Nat)
    BY <1>1, Zenon DEF Below
  <2>2. Below(Seq(1 .. 255), Seq(Nat \ {0})) /\ Below(Seq(Nat \ {0}), Seq(Nat))
    BY <2>1, SeqGrows
  <2> QED
    BY <2>2, Zenon DEF Below
<1>4. <<>> \in Seq(Nat)
  OBVIOUS
<1> QED
  BY <1>2, <1>3, <1>4, Zenon DEF Mem, Str

LEMMA MemConcat ==
    ASSUME NEW x \in Mem, NEW y \in Mem
    PROVE  /\ x \o y \in Mem /\ Len(x \o y) = Len(x) + Len(y)
           /\ \A i \in 1 .. Len(x) : (x \o y)[i] = x[i]
           /\ \A i \in 1 .. Len(y) : (x \o y)[Len(x) + i] = y[i]
           /\ SubSeq(x \o y, 1, Len(x)) = x
           /\ Drop(x \o y, Len(x)) = y
BY DEF Mem, Drop

\* One piece of memory and then another.
Joined(w, x, y) ==
    /\ w \in Mem /\ w = x \o y /\ Len(w) = Len(x) + Len(y)
    /\ \A i \in 1 .. Len(x) : w[i] = x[i]
    /\ \A i \in 1 .. Len(y) : w[Len(x) + i] = y[i]
    /\ SubSeq(w, 1, Len(x)) = x /\ Drop(w, Len(x)) = y

LEMMA MemJoin ==
    ASSUME NEW x \in Mem, NEW y \in Mem, NEW w, w = x \o y
    PROVE  Joined(w, x, y)
<1>1. /\ x \o y \in Mem /\ Len(x \o y) = Len(x) + Len(y)
      /\ \A i \in 1 .. Len(x) : (x \o y)[i] = x[i]
      /\ \A i \in 1 .. Len(y) : (x \o y)[Len(x) + i] = y[i]
      /\ SubSeq(x \o y, 1, Len(x)) = x
      /\ Drop(x \o y, Len(x)) = y
  BY MemConcat
<1> QED
  BY <1>1, Zenon DEF Joined

LEMMA MemPiece ==
    ASSUME NEW mem \in Mem, NEW a \in Nat, NEW b \in Nat, a <= b, b <= Len(mem)
    PROVE  /\ SubSeq(mem, a + 1, b) \in Mem /\ Len(SubSeq(mem, a + 1, b)) = b - a
           /\ \A i \in 1 .. b - a : SubSeq(mem, a + 1, b)[i] = mem[a + i]
<1>1. a + 1 \in Int /\ b \in Int /\ \A i \in a + 1 .. b : mem[i] \in Nat
  BY DEF Mem
<1>2. PICK x : x = SubSeq(mem, a + 1, b)
  OBVIOUS
<1>3. /\ x \in Seq(Nat) /\ Len(x) = IF a + 1 <= b THEN b - (a + 1) + 1 ELSE 0
      /\ \A i \in 1 .. b - (a + 1) + 1 : x[i] = mem[a + 1 + i - 1]
  <2>1. PICK m \in Int : m = a + 1
    BY <1>1
  <2>2. \A i \in m .. b : mem[i] \in Nat
    BY <1>1, <2>1
  <2>3. /\ SubSeq(mem, m, b) \in Seq(Nat)
        /\ Len(SubSeq(mem, m, b)) = IF m <= b THEN b - m + 1 ELSE 0
        /\ \A i \in 1 .. b - m + 1 : SubSeq(mem, m, b)[i] = mem[m + i - 1]
    BY <1>1, <2>2, SubSeqProperties
  <2> QED
    BY <1>2, <2>1, <2>3, Zenon
<1>4. /\ b - (a + 1) + 1 = b - a /\ (IF a + 1 <= b THEN b - (a + 1) + 1 ELSE 0) = b - a
      /\ \A i \in 1 .. b - a : a + 1 + i - 1 = a + i
  OBVIOUS
<1>5. x \in Seq(Nat) /\ Len(x) = b - a /\ \A i \in 1 .. b - a : x[i] = mem[a + i]
  BY <1>3, <1>4
<1> QED
  BY <1>2, <1>5, Zenon DEF Mem

\* The piece y of memory from place a on up to b.
CutFrom(y, mem, a, b) ==
    y \in Mem /\ Len(y) = b - a /\ \A i \in 1 .. b - a : y[i] = mem[a + i]

LEMMA MemCutFrom ==
    ASSUME NEW mem \in Mem, NEW a \in Nat, NEW b \in Nat, a <= b, b <= Len(mem)
    PROVE  CutFrom(SubSeq(mem, a + 1, b), mem, a, b)
<1>1. /\ SubSeq(mem, a + 1, b) \in Mem /\ Len(SubSeq(mem, a + 1, b)) = b - a
      /\ \A i \in 1 .. b - a : SubSeq(mem, a + 1, b)[i] = mem[a + i]
  BY MemPiece
<1> QED
  BY <1>1, Zenon DEF CutFrom

LEMMA MemDrop ==
    ASSUME NEW mem \in Mem, NEW a \in Nat, a <= Len(mem)
    PROVE  /\ Drop(mem, a) \in Mem /\ Len(Drop(mem, a)) = Len(mem) - a
           /\ \A i \in 1 .. Len(mem) - a : Drop(mem, a)[i] = mem[a + i]
<1>1. Len(mem) \in Nat
  BY DEF Mem
<1>2. CutFrom(SubSeq(mem, a + 1, Len(mem)), mem, a, Len(mem))
  BY <1>1, MemCutFrom
<1> QED
  BY <1>2, Zenon DEF CutFrom, Drop

LEMMA SameMem ==
    ASSUME NEW x \in Mem, NEW y \in Mem, Len(x) = Len(y), \A i \in 1 .. Len(x) : x[i] = y[i]
    PROVE  x = y
BY SeqEqual DEF Mem

\* A string in memory: its characters, and zeros.
LEMMA PaddedIs ==
    ASSUME NEW s \in Mem
    PROVE  /\ Padded(s) \in Mem /\ Len(Padded(s)) = lo_strsize(Len(s))
           /\ \A i \in 1 .. Len(s) : Padded(s)[i] = s[i]
           /\ \A i \in Len(s) + 1 .. lo_strsize(Len(s)) : Padded(s)[i] = 0
<1>1. PICK n \in Nat : n = Len(s)
  BY DEF Mem
<1>2. PICK k \in Nat : k = lo_strsize(n) /\ n < k
  BY StrSizeIs
<1>3. k - n \in Nat
  BY <1>2
<1>4. PICK z \in Mem : z = Zeros(k - n) /\ Len(z) = k - n /\ \A i \in 1 .. k - n : z[i] = 0
  BY <1>3, ZerosAre
<1>5. Padded(s) = s \o z
  BY <1>1, <1>2, <1>4 DEF Padded
<1>6. /\ s \o z \in Mem /\ Len(s \o z) = k
      /\ \A i \in 1 .. n : (s \o z)[i] = s[i]
      /\ \A i \in n + 1 .. k : (s \o z)[i] = z[i - n] /\ i - n \in 1 .. k - n
  <2>1. /\ s \o z \in Mem /\ Len(s \o z) = Len(s) + Len(z)
        /\ \A i \in 1 .. Len(s) : (s \o z)[i] = s[i]
        /\ \A i \in 1 .. Len(z) : (s \o z)[Len(s) + i] = z[i]
    BY MemConcat, Zenon
  <2>2. PICK x : x = s \o z
    OBVIOUS
  <2>3. /\ x \in Mem /\ Len(x) = n + (k - n)
        /\ \A i \in 1 .. n : x[i] = s[i]
        /\ \A i \in 1 .. k - n : x[n + i] = z[i]
    BY <2>1, <2>2, <1>1, <1>4, Zenon
  <2>4. Len(x) = k /\ \A i \in n + 1 .. k : x[i] = z[i - n] /\ i - n \in 1 .. k - n
    BY <2>3
  <2> QED
    BY <2>2, <2>3, <2>4, Zenon
<1> QED
  BY <1>1, <1>2, <1>4, <1>5, <1>6

\* A string that begins the memory is found and is valid.
LEMMA StringIsValid ==
    ASSUME NEW s \in Str, NEW rest \in Mem
    PROVE  LET mem == Padded(s) \o rest IN
           /\ mem \in Mem
           /\ StrLen(mem) = Len(s) /\ lo_validate_string(mem) = lo_strsize(Len(s))
           /\ SubSeq(mem, 1, Len(s)) = s
           /\ Drop(mem, lo_strsize(Len(s))) = rest
           /\ SubSeq(mem, 1, lo_strsize(Len(s))) = Padded(s)
<1>0. s \in Mem /\ \A i \in 1 .. Len(s) : s[i] # 0
  BY DEF Str, Mem
<1>1. PICK n \in Nat : n = Len(s)
  BY DEF Str
<1>2. PICK k \in Nat : k = lo_strsize(n) /\ n < k
  BY StrSizeIs
<1>3. PICK p \in Mem : /\ p = Padded(s) /\ Len(p) = k
                       /\ \A i \in 1 .. n : p[i] = s[i]
                       /\ \A i \in n + 1 .. k : p[i] = 0
  BY <1>0, <1>1, <1>2, PaddedIs
<1>4. PICK mem \in Mem : mem = p \o rest
  BY MemConcat
<1>5. /\ Len(mem) = k + Len(rest) /\ Len(rest) \in Nat
      /\ \A i \in 1 .. k : mem[i] = p[i]
      /\ SubSeq(mem, 1, k) = p /\ Drop(mem, k) = rest
  <2>1. Len(rest) \in Nat
    BY DEF Mem
  <2>2. /\ Len(mem) = Len(p) + Len(rest) /\ \A i \in 1 .. Len(p) : mem[i] = p[i]
        /\ SubSeq(mem, 1, Len(p)) = p /\ Drop(mem, Len(p)) = rest
    <3>1. Joined(mem, p, rest)
      BY <1>4, MemJoin
    <3> QED
      BY <3>1, Zenon DEF Joined
  <2> QED
    BY <2>1, <2>2, <1>3, Zenon
<1>6. /\ \A i \in 1 .. n : mem[i] = s[i] /\ mem[i] # 0
      /\ \A i \in n + 1 .. k : mem[i] = 0
  <2>1. \A i \in 1 .. n : i \in 1 .. k
    BY <1>2
  <2>2. \A i \in n + 1 .. k : i \in 1 .. k
    BY <1>2
  <2> QED
    BY <2>1, <2>2, <1>0, <1>1, <1>3, <1>5
<1>7. n \in 0 .. Len(mem) - 1 /\ n + 1 \in n + 1 .. k
  BY <1>2, <1>5
<1>8. StrLen(mem) = n
  BY <1>6, <1>7, StrLenAt
<1>9. lo_validate_string(mem) = k
  <2>1. ~(n < 0 \/ k > Len(mem) \/ \E j \in n + 1 .. k : mem[j] # 0)
    BY <1>5, <1>6
  <2> QED
    BY <2>1, <1>2, <1>8 DEF lo_validate_string
<1>10. SubSeq(mem, 1, n) = s
  <2>1. 0 + 1 = 1 /\ n <= Len(mem) /\ n - 0 = n
    BY <1>7
  <2>2. PICK x : x = SubSeq(mem, 1, n)
    OBVIOUS
  <2>3. /\ x \in Mem /\ Len(x) = n
        /\ \A i \in 1 .. n : x[i] = mem[i]
    BY <2>1, <2>2 DEF Mem
  <2>4. Len(x) = Len(s) /\ \A i \in 1 .. Len(x) : x[i] = s[i]
    BY <2>3, <1>1, <1>6
  <2>5. x = s
    BY <2>3, <2>4, <1>0, SameMem, Zenon
  <2> QED
    BY <2>2, <2>5
<1> QED
  BY <1>1, <1>2, <1>3, <1>4, <1>5, <1>8, <1>9, <1>10

\* What is valid is a string with its padding.
LEMMA ValidString ==
    ASSUME NEW mem \in Mem, lo_validate_string(mem) >= 0
    PROVE  LET n == StrLen(mem) k == lo_validate_string(mem) IN
           /\ n \in Nat /\ k = lo_strsize(n) /\ n < k /\ k <= Len(mem)
           /\ SubSeq(mem, 1, n) \in Str /\ Len(SubSeq(mem, 1, n)) = n
           /\ SubSeq(mem, 1, k) = Padded(SubSeq(mem, 1, n))
<1>1. PICK n : n = StrLen(mem)
  OBVIOUS
<1>2. /\ ~(n < 0 \/ lo_strsize(n) > Len(mem) \/ \E j \in n + 1 .. lo_strsize(n) : mem[j] # 0)
      /\ lo_validate_string(mem) = lo_strsize(n)
  BY <1>1 DEF lo_validate_string
<1>3. n \in Nat /\ \A i \in 1 .. n : mem[i] # 0
  BY <1>1, <1>2, StrLenIs DEF Mem
<1>4. PICK k \in Nat : k = lo_strsize(n) /\ n < k
  BY <1>3, StrSizeIs
<1>5. k <= Len(mem) /\ \A i \in n + 1 .. k : mem[i] = 0
  BY <1>2, <1>3, <1>4 DEF Mem
<1>6. PICK s : s = SubSeq(mem, 1, n)
  OBVIOUS
<1>7. s \in Mem /\ Len(s) = n /\ \A i \in 1 .. n : s[i] = mem[i]
  BY <1>3, <1>4, <1>5, <1>6 DEF Mem
<1>8. s \in Str
  <2>1. \A i \in 1 .. Len(s) : s[i] \in Nat
    BY <1>7 DEF Mem
  <2>2. \A i \in 1 .. Len(s) : s[i] \in Nat \ {0}
    BY <2>1, <1>3, <1>7
  <2>3. \A w, T : w \in Seq(Nat) /\ (\A i \in 1 .. Len(w) : w[i] \in T) => w \in Seq(T)
    OBVIOUS
  <2> QED
    BY <2>2, <2>3, <1>7, Zenon DEF Mem, Str
<1>9. SubSeq(mem, 1, k) = Padded(s)
  <2>1. /\ SubSeq(mem, 1, k) \in Mem /\ Len(SubSeq(mem, 1, k)) = k
        /\ \A i \in 1 .. k : SubSeq(mem, 1, k)[i] = mem[i]
    BY <1>4, <1>5 DEF Mem
  <2>2. /\ Padded(s) \in Mem /\ Len(Padded(s)) = k
        /\ \A i \in 1 .. n : Padded(s)[i] = s[i]
        /\ \A i \in n + 1 .. k : Padded(s)[i] = 0
    BY <1>4, <1>7, PaddedIs
  <2>3. ASSUME NEW i \in 1 .. k PROVE SubSeq(mem, 1, k)[i] = Padded(s)[i]
    <3>1. CASE i <= n
      BY <3>1, <2>1, <2>2, <1>7
    <3>2. CASE ~(i <= n)
      BY <3>2, <2>1, <2>2, <1>3, <1>5
    <3> QED
      BY <3>1, <3>2
  <2> QED
    BY <2>1, <2>2, <2>3, SameMem
<1> QED
  BY <1>1, <1>2, <1>3, <1>4, <1>5, <1>6, <1>7, <1>8, <1>9

-----------------------------------------------------------------------------
(* Arguments in the order of the host and of the network *)

SwapsHead == {LO_INT32, LO_FLOAT, LO_CHAR, LO_BLOB}
HostLength(mem) == Length32(Reverse(SubSeq(mem, 1, 4)))

\* There is enough memory for Swapped.
Enough(type, arg) ==
    /\ type \in Four \cup {LO_BLOB} => Len(arg) >= 4
    /\ type \in Eight => Len(arg) = 8

\* Where the i-th byte is in the other order.
Mirror(type, i) ==
    IF type \in SwapsHead THEN (IF i <= 4 THEN 5 - i ELSE i)
    ELSE IF type = LO_TIMETAG THEN (IF i <= 4 THEN 5 - i ELSE 13 - i)
    ELSE IF type \in {LO_INT64, LO_DOUBLE} THEN 9 - i
    ELSE i

SwapHead(arg) == Reverse(SubSeq(arg, 1, 4)) \o Drop(arg, 4)
SwapHalves(arg) == Reverse(SubSeq(arg, 1, 4)) \o Reverse(SubSeq(arg, 5, 8))

LEMMA ReversePiece ==
    ASSUME NEW arg \in Mem, NEW a \in Nat, a + 4 <= Len(arg)
    PROVE  LET h == Reverse(SubSeq(arg, a + 1, a + 4)) IN
           h \in Mem /\ Len(h) = 4 /\ \A i \in 1 .. 4 : h[i] = arg[a + 5 - i]
<1>1. PICK x \in Mem : /\ x = SubSeq(arg, a + 1, a + 4) /\ Len(x) = 4
                       /\ \A i \in 1 .. 4 : x[i] = arg[a + i]
  <2>1. PICK b \in Nat : b = a + 4 /\ a <= b /\ b <= Len(arg) /\ b - a = 4
    OBVIOUS
  <2>2. /\ SubSeq(arg, a + 1, b) \in Mem /\ Len(SubSeq(arg, a + 1, b)) = b - a
        /\ \A i \in 1 .. b - a : SubSeq(arg, a + 1, b)[i] = arg[a + i]
    BY <2>1, MemPiece, Zenon
  <2> QED
    BY <2>1, <2>2, Zenon
<1>2. PICK h : h = Reverse(x)
  OBVIOUS
<1>3. h = [i \in 1 .. 4 |-> x[4 - i + 1]]
  BY <1>1, <1>2 DEF Reverse
<1>4. /\ h \in Mem /\ Len(h) = 4
      /\ \A i \in 1 .. 4 : h[i] = x[4 - i + 1]
  BY <1>1, <1>3 DEF Mem
<1>5. \A i \in 1 .. 4 : 4 - i + 1 \in 1 .. 4 /\ a + (4 - i + 1) = a + 5 - i
  OBVIOUS
<1>6. \A i \in 1 .. 4 : h[i] = arg[a + 5 - i]
  BY <1>1, <1>4, <1>5
<1> QED
  BY <1>1, <1>2, <1>4, <1>6

LEMMA SwapHeadIs ==
    ASSUME NEW arg \in Mem, Len(arg) >= 4
    PROVE  /\ SwapHead(arg) \in Mem /\ Len(SwapHead(arg)) = Len(arg)
           /\ \A i \in 1 .. Len(arg) : SwapHead(arg)[i] = arg[IF i <= 4 THEN 5 - i ELSE i]
<1>1. PICK h : h = Reverse(SubSeq(arg, 1, 4))
  OBVIOUS
<1>2. h \in Mem /\ Len(h) = 4 /\ \A i \in 1 .. 4 : h[i] = arg[5 - i]
  <2>1. 0 + 1 = 1 /\ 0 + 4 = 4 /\ 0 + 4 <= Len(arg) /\ 0 \in Nat /\ \A i \in 1 .. 4 : 0 + 5 - i = 5 - i
    OBVIOUS
  <2>2. LET x == Reverse(SubSeq(arg, 0 + 1, 0 + 4)) IN
        x \in Mem /\ Len(x) = 4 /\ \A i \in 1 .. 4 : x[i] = arg[0 + 5 - i]
    BY <2>1, ReversePiece, Zenon
  <2> QED
    BY <2>1, <2>2, <1>1
<1>3. PICK n \in Nat : n = Len(arg) /\ n >= 4 /\ 4 <= Len(arg) /\ 4 \in Nat
  BY DEF Mem
<1>4. PICK d \in Mem : d = Drop(arg, 4) /\ Len(d) = n - 4 /\ \A i \in 1 .. n - 4 : d[i] = arg[4 + i]
  <2>1. /\ Drop(arg, 4) \in Mem /\ Len(Drop(arg, 4)) = Len(arg) - 4
        /\ \A i \in 1 .. Len(arg) - 4 : Drop(arg, 4)[i] = arg[4 + i]
    BY <1>3, MemDrop, Zenon
  <2> QED
    BY <1>3, <2>1, Zenon
<1>5. PICK w : w = h \o d
  OBVIOUS
<1>6. /\ w \in Mem /\ Len(w) = 4 + (n - 4)
      /\ \A i \in 1 .. 4 : w[i] = h[i]
      /\ \A i \in 1 .. n - 4 : w[4 + i] = d[i]
  <2>1. /\ w \in Mem /\ Len(w) = Len(h) + Len(d) /\ \A i \in 1 .. Len(h) : w[i] = h[i]
        /\ \A i \in 1 .. Len(d) : w[Len(h) + i] = d[i]
    <3>1. Joined(w, h, d)
      BY <1>2, <1>5, MemJoin
    <3> QED
      BY <3>1, Zenon DEF Joined
  <2> QED
    BY <2>1, <1>2, <1>4, Zenon
<1>7. \A i \in 1 .. n : w[i] = arg[IF i <= 4 THEN 5 - i ELSE i]
  <2> TAKE i \in 1 .. n
  <2>1. CASE i <= 4
    BY <2>1, <1>2, <1>6
  <2>2. CASE ~(i <= 4)
    <3>1. i - 4 \in 1 .. n - 4 /\ 4 + (i - 4) = i
      BY <2>2
    <3> QED
      <4>1. w[4 + (i - 4)] = d[i - 4]
        BY <3>1, <1>6, Zenon
      <4>2. d[i - 4] = arg[4 + (i - 4)]
        BY <3>1, <1>4, Zenon
      <4> QED
        BY <4>1, <4>2, <3>1, <2>2
  <2> QED
    BY <2>1, <2>2
<1>8. SwapHead(arg) = w /\ Len(w) = n
  BY <1>1, <1>3, <1>4, <1>5, <1>6 DEF SwapHead
<1> QED
  BY <1>3, <1>6, <1>7, <1>8

LEMMA SwapHalvesIs ==
    ASSUME NEW arg \in Mem, Len(arg) = 8
    PROVE  /\ SwapHalves(arg) \in Mem /\ Len(SwapHalves(arg)) = 8
           /\ \A i \in 1 .. 8 : SwapHalves(arg)[i] = arg[IF i <= 4 THEN 5 - i ELSE 13 - i]
<1>1. PICK h : h = Reverse(SubSeq(arg, 1, 4))
  OBVIOUS
<1>2. PICK d : d = Reverse(SubSeq(arg, 5, 8))
  OBVIOUS
<1>3. h \in Mem /\ Len(h) = 4 /\ \A i \in 1 .. 4 : h[i] = arg[5 - i]
  <2>1. 0 + 1 = 1 /\ 0 + 4 = 4 /\ 0 + 4 <= Len(arg) /\ 0 \in Nat /\ \A i \in 1 .. 4 : 0 + 5 - i = 5 - i
    OBVIOUS
  <2>2. LET x == Reverse(SubSeq(arg, 0 + 1, 0 + 4)) IN
        x \in Mem /\ Len(x) = 4 /\ \A i \in 1 .. 4 : x[i] = arg[0 + 5 - i]
    BY <2>1, ReversePiece, Zenon
  <2> QED
    BY <2>1, <2>2, <1>1
<1>4. d \in Mem /\ Len(d) = 4 /\ \A i \in 1 .. 4 : d[i] = arg[9 - i]
  <2>1. 4 + 1 = 5 /\ 4 + 4 = 8 /\ 4 + 4 <= Len(arg) /\ 4 \in Nat /\ \A i \in 1 .. 4 : 4 + 5 - i = 9 - i
    OBVIOUS
  <2>2. LET x == Reverse(SubSeq(arg, 4 + 1, 4 + 4)) IN
        x \in Mem /\ Len(x) = 4 /\ \A i \in 1 .. 4 : x[i] = arg[4 + 5 - i]
    BY <2>1, ReversePiece, Zenon
  <2> QED
    BY <2>1, <2>2, <1>2
<1>5. PICK w : w = h \o d
  OBVIOUS
<1>6. /\ w \in Mem /\ Len(w) = 4 + 4
      /\ \A i \in 1 .. 4 : w[i] = h[i]
      /\ \A i \in 1 .. 4 : w[4 + i] = d[i]
  <2>1. /\ w \in Mem /\ Len(w) = Len(h) + Len(d) /\ \A i \in 1 .. Len(h) : w[i] = h[i]
        /\ \A i \in 1 .. Len(d) : w[Len(h) + i] = d[i]
    <3>1. Joined(w, h, d)
      BY <1>3, <1>4, <1>5, MemJoin
    <3> QED
      BY <3>1, Zenon DEF Joined
  <2> QED
    BY <2>1, <1>3, <1>4, Zenon
<1>7. \A i \in 1 .. 8 : w[i] = arg[IF i <= 4 THEN 5 - i ELSE 13 - i]
  <2> TAKE i \in 1 .. 8
  <2>1. CASE i <= 4
    BY <2>1, <1>3, <1>6
  <2>2. CASE ~(i <= 4)
    <3>1. i - 4 \in 1 .. 4 /\ 4 + (i - 4) = i /\ 9 - (i - 4) = 13 - i
      BY <2>2
    <3> QED
      BY <3>1, <2>2, <1>4, <1>6
  <2> QED
    BY <2>1, <2>2
<1>8. SwapHalves(arg) = w /\ Len(w) = 8
  BY <1>1, <1>2, <1>5, <1>6 DEF SwapHalves
<1> QED
  BY <1>6, <1>7, <1>8

LEMMA ReverseIs ==
    ASSUME NEW arg \in Mem, Len(arg) = 8
    PROVE  /\ Reverse(arg) \in Mem /\ Len(Reverse(arg)) = 8
           /\ \A i \in 1 .. 8 : Reverse(arg)[i] = arg[9 - i]
<1>1. PICK h : h = Reverse(arg)
  OBVIOUS
<1>2. h = [i \in 1 .. 8 |-> arg[8 - i + 1]]
  BY <1>1 DEF Reverse
<1>3. \A i \in 1 .. 8 : 8 - i + 1 = 9 - i /\ 9 - i \in 1 .. 8
  OBVIOUS
<1>4. \A i \in 1 .. 8 : arg[i] \in Nat
  BY ElementOfSeq DEF Mem
<1>5. h \in [1 .. 8 -> Nat] /\ \A i \in 1 .. 8 : h[i] = arg[9 - i]
  BY <1>2, <1>3, <1>4
<1>6. h \in Mem /\ Len(h) = 8
  <2>1. h \in [1 .. 8 -> Nat]
    BY <1>5
  <2>2. h \in Seq(Nat)
    BY <2>1, SeqDef
  <2>3. DOMAIN h = 1 .. 8 /\ DOMAIN h = 1 .. Len(h) /\ Len(h) \in Nat
    BY <2>1, <2>2, LenProperties
  <2>4. Len(h) = 8
    BY <2>3
  <2> QED
    BY <2>2, <2>4 DEF Mem
<1> QED
  BY <1>1, <1>5, <1>6

\* The cases of Swapped.
LEMMA SwappedCases ==
    ASSUME NEW type \in Type, NEW arg
    PROVE  /\ type \in SwapsHead => Swapped(type, arg) = SwapHead(arg)
           /\ type = LO_TIMETAG => Swapped(type, arg) = SwapHalves(arg)
           /\ type \in {LO_INT64, LO_DOUBLE} => Swapped(type, arg) = Reverse(arg)
           /\ type \notin SwapsHead \cup Eight => Swapped(type, arg) = arg
<1>1. Swapped(type, arg) =
        CASE type \in SwapsHead -> SwapHead(arg)
          [] type = LO_TIMETAG -> SwapHalves(arg)
          [] type \in {LO_INT64, LO_DOUBLE} -> Reverse(arg)
          [] OTHER -> arg
  BY DEF Swapped, SwapHead, SwapHalves, SwapsHead
<1> QED
  BY <1>1 DEF SwapsHead, Eight, LO_INT32, LO_FLOAT, LO_CHAR, LO_BLOB, LO_TIMETAG, LO_INT64, LO_DOUBLE

LEMMA SwappedIs ==
    ASSUME NEW type \in Type, NEW arg \in Mem, Enough(type, arg)
    PROVE  /\ Swapped(type, arg) \in Mem /\ Len(Swapped(type, arg)) = Len(arg)
           /\ \A i \in 1 .. Len(arg) : /\ Swapped(type, arg)[i] = arg[Mirror(type, i)]
                                       /\ Mirror(type, i) \in 1 .. Len(arg)
                                       /\ Mirror(type, Mirror(type, i)) = i
<1> USE DEF LO_INT32, LO_FLOAT, LO_CHAR, LO_BLOB, LO_TIMETAG, LO_INT64, LO_DOUBLE, LO_MIDI
<1>0. PICK n \in Nat : n = Len(arg)
  BY DEF Mem
<1>1. CASE type \in SwapsHead
  <2>1. n >= 4
    BY <1>0, <1>1 DEF Enough, SwapsHead, Four
  <2>2. Swapped(type, arg) = SwapHead(arg)
    BY <1>1, SwappedCases
  <2>3. \A i \in 1 .. n : /\ Mirror(type, i) = IF i <= 4 THEN 5 - i ELSE i
                          /\ Mirror(type, i) \in 1 .. n /\ Mirror(type, Mirror(type, i)) = i
    BY <1>1, <2>1 DEF Mirror
  <2>4. /\ SwapHead(arg) \in Mem /\ Len(SwapHead(arg)) = n
        /\ \A i \in 1 .. n : SwapHead(arg)[i] = arg[IF i <= 4 THEN 5 - i ELSE i]
    BY <1>0, <2>1, SwapHeadIs
  <2> QED
    BY <1>0, <2>2, <2>3, <2>4, Zenon
<1>2. CASE type = LO_TIMETAG
  <2>1. n = 8
    BY <1>0, <1>2 DEF Enough, Eight
  <2>2. Swapped(type, arg) = SwapHalves(arg)
    BY <1>2, SwappedCases
  <2>3. \A i \in 1 .. n : /\ Mirror(type, i) = IF i <= 4 THEN 5 - i ELSE 13 - i
                          /\ Mirror(type, i) \in 1 .. n /\ Mirror(type, Mirror(type, i)) = i
    BY <1>2, <2>1 DEF Mirror, SwapsHead
  <2>4. /\ SwapHalves(arg) \in Mem /\ Len(SwapHalves(arg)) = n
        /\ \A i \in 1 .. n : SwapHalves(arg)[i] = arg[IF i <= 4 THEN 5 - i ELSE 13 - i]
    BY <1>0, <2>1, SwapHalvesIs
  <2> QED
    BY <1>0, <2>2, <2>3, <2>4, Zenon
<1>3. CASE type \in {LO_INT64, LO_DOUBLE}
  <2>1. n = 8
    BY <1>0, <1>3 DEF Enough, Eight
  <2>2. Swapped(type, arg) = Reverse(arg)
    BY <1>3, SwappedCases
  <2>3. \A i \in 1 .. n : /\ Mirror(type, i) = 9 - i
                          /\ Mirror(type, i) \in 1 .. n /\ Mirror(type, Mirror(type, i)) = i
    BY <1>3, <2>1 DEF Mirror, SwapsHead
  <2>4. /\ Reverse(arg) \in Mem /\ Len(Reverse(arg)) = n
        /\ \A i \in 1 .. n : Reverse(arg)[i] = arg[9 - i]
    BY <1>0, <2>1, ReverseIs
  <2> QED
    BY <1>0, <2>2, <2>3, <2>4, Zenon
<1>4. CASE type \notin SwapsHead \cup Eight
  <2>1. Swapped(type, arg) = arg
    BY <1>4, SwappedCases
  <2>2. \A i \in 1 .. n : Mirror(type, i) = i
    BY <1>4 DEF Mirror, Eight
  <2> QED
    BY <1>0, <2>1, <2>2
<1> QED
  BY <1>1, <1>2, <1>3, <1>4 DEF Eight

LEMMA SwappedTwice ==
    ASSUME NEW type \in Type, NEW arg \in Mem, Enough(type, arg)
    PROVE  /\ Enough(type, Swapped(type, arg))
           /\ Swapped(type, Swapped(type, arg)) = arg
<1>1. PICK w \in Mem : /\ w = Swapped(type, arg) /\ Len(w) = Len(arg)
                       /\ \A i \in 1 .. Len(arg) : /\ w[i] = arg[Mirror(type, i)]
                                                   /\ Mirror(type, i) \in 1 .. Len(arg)
                                                   /\ Mirror(type, Mirror(type, i)) = i
  BY SwappedIs
<1>2. Enough(type, w)
  BY <1>1 DEF Enough
<1>3. PICK x \in Mem : /\ x = Swapped(type, w) /\ Len(x) = Len(w)
                       /\ \A i \in 1 .. Len(w) : x[i] = w[Mirror(type, i)]
  BY <1>2, SwappedIs
<1>4. \A i \in 1 .. Len(x) : x[i] = arg[i]
  <2>1. ASSUME NEW i \in 1 .. Len(arg) PROVE x[i] = arg[i]
    <3>1. x[i] = w[Mirror(type, i)]
      BY <1>1, <1>3
    <3>2. PICK j \in 1 .. Len(arg) : j = Mirror(type, i) /\ Mirror(type, j) = i
      BY <1>1
    <3>3. w[j] = arg[Mirror(type, j)]
      BY <1>1
    <3> QED
      BY <3>1, <3>2, <3>3
  <2> QED
    BY <2>1, <1>1, <1>3
<1>5. x = arg
  BY <1>1, <1>3, <1>4, SameMem
<1> QED
  BY <1>1, <1>2, <1>3, <1>5

-----------------------------------------------------------------------------
(* Sizes of arguments *)

LEMMA Length32Nat ==
    ASSUME NEW b \in Mem, Len(b) >= 4
    PROVE  Length32(b) \in Nat
<1>1. b[1] \in Nat /\ b[2] \in Nat /\ b[3] \in Nat /\ b[4] \in Nat
  BY DEF Mem
<1> QED
  BY <1>1, WireAssumption DEF Length32

LEMMA Length32Of ==
    ASSUME NEW n \in Nat, NEW b, b[1] = 0, b[2] = 0, b[3] = n \div 256, b[4] = n % 256
    PROVE  Length32(b) = n
BY DEF Length32

\* The same of the host's order.
LEMMA HostLengthIs ==
    ASSUME NEW mem \in Mem, Len(mem) >= 4
    PROVE  /\ HostLength(mem) \in Nat
           /\ \E b \in Mem : /\ HostLength(mem) = Length32(b) /\ Len(b) = 4
                             /\ \A i \in 1 .. 4 : b[i] = mem[5 - i]
<1>1. PICK b : b = Reverse(SubSeq(mem, 1, 4))
  OBVIOUS
<1>2. b \in Mem /\ Len(b) = 4 /\ \A i \in 1 .. 4 : b[i] = mem[5 - i]
  <2>1. 0 + 1 = 1 /\ 0 + 4 = 4 /\ 0 + 4 <= Len(mem) /\ 0 \in Nat /\ \A i \in 1 .. 4 : 0 + 5 - i = 5 - i
    OBVIOUS
  <2>2. LET x == Reverse(SubSeq(mem, 0 + 1, 0 + 4)) IN
        x \in Mem /\ Len(x) = 4 /\ \A i \in 1 .. 4 : x[i] = mem[0 + 5 - i]
    BY <2>1, ReversePiece, Zenon
  <2> QED
    BY <2>1, <2>2, <1>1
<1>3. HostLength(mem) = Length32(b)
  BY <1>1 DEF HostLength
<1>4. Length32(b) \in Nat
  <2>1. Len(b) >= 4
    BY <1>2
  <2> QED
    BY <2>1, <1>2, Length32Nat
<1> QED
  BY <1>2, <1>3, <1>4

LEMMA BlobSizeIs ==
    ASSUME NEW n \in Nat
    PROVE  lo_blobsize(n) \in Nat /\ lo_blobsize(n) >= 4 + n
BY DEF lo_blobsize, RoundUp

\* The cases of lo_arg_size and lo_validate_arg.
LEMMA ArgSizeCases ==
    ASSUME NEW type \in Type, NEW mem
    PROVE  /\ type \in Empty => lo_arg_size(type, mem) = 0
           /\ type \in Four => lo_arg_size(type, mem) = 4
           /\ type \in Eight => lo_arg_size(type, mem) = 8
           /\ type \in lo_string_types => lo_arg_size(type, mem) = lo_strsize(StrLen(mem))
           /\ type = LO_BLOB => lo_arg_size(type, mem) = lo_blobsize(HostLength(mem))
<1>1. lo_arg_size(type, mem) =
        CASE type \in Empty -> 0
          [] type \in Four -> 4
          [] type \in Eight -> 8
          [] type \in lo_string_types -> lo_strsize(StrLen(mem))
          [] type = LO_BLOB -> lo_blobsize(HostLength(mem))
  BY DEF lo_arg_size, HostLength
<1> QED
  BY <1>1 DEF Empty, Four, Eight, lo_string_types, LO_INT32, LO_FLOAT, LO_STRING, LO_BLOB,
     LO_INT64, LO_TIMETAG, LO_DOUBLE, LO_SYMBOL, LO_CHAR, LO_MIDI, LO_TRUE, LO_FALSE, LO_NIL,
     LO_INFINITUM

LEMMA ValidateCases ==
    ASSUME NEW type, NEW mem
    PROVE  /\ type \in Empty => lo_validate_arg(type, mem) = 0
           /\ type \in Four => lo_validate_arg(type, mem) = IF Len(mem) >= 4 THEN 4 ELSE -1
           /\ type \in Eight => lo_validate_arg(type, mem) = IF Len(mem) >= 8 THEN 8 ELSE -1
           /\ type \in lo_string_types => lo_validate_arg(type, mem) = lo_validate_string(mem)
           /\ type = LO_BLOB => lo_validate_arg(type, mem) = lo_validate_blob(mem)
           /\ type \notin Type => lo_validate_arg(type, mem) = -1
<1>1. PICK s : s = lo_validate_string(mem)
  OBVIOUS
<1>2. PICK b : b = lo_validate_blob(mem)
  OBVIOUS
<1>3. PICK n : n = Len(mem)
  OBVIOUS
<1>4. lo_validate_arg(type, mem) =
        CASE type \in Empty -> 0
          [] type \in Four -> IF n >= 4 THEN 4 ELSE -1
          [] type \in Eight -> IF n >= 8 THEN 8 ELSE -1
          [] type \in lo_string_types -> s
          [] type = LO_BLOB -> b
          [] OTHER -> -1
  BY <1>1, <1>2, <1>3 DEF lo_validate_arg
<1>5. /\ type \in Empty => lo_validate_arg(type, mem) = 0
      /\ type \in Four => lo_validate_arg(type, mem) = IF n >= 4 THEN 4 ELSE -1
      /\ type \in Eight => lo_validate_arg(type, mem) = IF n >= 8 THEN 8 ELSE -1
      /\ type \in lo_string_types => lo_validate_arg(type, mem) = s
      /\ type = LO_BLOB => lo_validate_arg(type, mem) = b
      /\ type \notin Type => lo_validate_arg(type, mem) = -1
  BY <1>4 DEF Type, Empty, Four, Eight, lo_string_types, LO_INT32, LO_FLOAT, LO_STRING, LO_BLOB,
     LO_INT64, LO_TIMETAG, LO_DOUBLE, LO_SYMBOL, LO_CHAR, LO_MIDI, LO_TRUE, LO_FALSE, LO_NIL,
     LO_INFINITUM
<1> QED
  BY <1>1, <1>2, <1>3, <1>5, Zenon

\* An argument in the host's memory that is as long as lo_arg_size says, whatever
\* comes after it; and one of the network that lo_validate_arg takes for what it is.
Whole(type, arg) ==
    /\ type \in Type /\ arg \in Mem
    /\ \A rest \in Mem : lo_arg_size(type, arg \o rest) = Len(arg)
Legal(type, arg) ==
    /\ type \in Type /\ arg \in Mem
    /\ \A rest \in Mem : lo_validate_arg(type, arg \o rest) = Len(arg)

LEMMA WholeEnough ==
    ASSUME NEW type, NEW arg, Whole(type, arg)
    PROVE  Enough(type, arg)
<1>1. type \in Type /\ arg \in Mem
  BY DEF Whole
<1>2. PICK rest \in Mem : rest = Zeros(4) /\ Len(rest) = 4
  BY ZerosAre
<1>3. PICK mem \in Mem : mem = arg \o rest /\ Len(mem) = Len(arg) + Len(rest)
  BY <1>1, MemConcat, Zenon
<1>4. Len(mem) >= 4 /\ Len(arg) \in Nat
  <2>1. Len(mem) = Len(arg) + 4
    BY <1>2, <1>3, Zenon
  <2>2. Len(arg) \in Nat
    BY <1>1 DEF Mem
  <2> QED
    BY <2>1, <2>2
<1>5. lo_arg_size(type, mem) = Len(arg)
  BY <1>3 DEF Whole
<1>6. HostLength(mem) \in Nat
  BY <1>4, HostLengthIs
<1>7. lo_blobsize(HostLength(mem)) >= 4
  <2>1. PICK h \in Nat : h = HostLength(mem)
    BY <1>6
  <2> QED
    BY <2>1, BlobSizeIs
<1>8. type = LO_BLOB => Len(arg) >= 4
  BY <1>1, <1>5, <1>7, ArgSizeCases
<1>9. (type \in Four => Len(arg) >= 4) /\ (type \in Eight => Len(arg) = 8)
  BY <1>1, <1>5, ArgSizeCases
<1> QED
  BY <1>8, <1>9 DEF Enough

\* The first bytes of memory that goes on are those of its beginning.
LEMMA SameLength ==
    ASSUME NEW x \in Mem, NEW y \in Mem, Len(x) >= 4, Len(y) >= 4,
           \A i \in 1 .. 4 : x[i] = y[i]
    PROVE  Length32(x) = Length32(y)
BY DEF Length32

-----------------------------------------------------------------------------
(* Arguments as they are stored *)

LEMMA Int32Is ==
    ASSUME NEW n \in Nat
    PROVE  /\ Int32(n) \in Mem /\ Len(Int32(n)) = 4
           /\ Int32(n)[1] = 0 /\ Int32(n)[2] = 0
           /\ Int32(n)[3] = n \div 256 /\ Int32(n)[4] = n % 256
<1>1. n \div 256 \in Nat /\ n % 256 \in Nat
  OBVIOUS
<1> QED
  BY <1>1 DEF Int32, Mem

LEMMA BlobIs ==
    ASSUME NEW a \in Mem
    PROVE  LET n == Len(a) s == Stored(LO_BLOB, a) IN
           /\ s \in Mem /\ Len(s) = lo_blobsize(n)
           /\ s[1] = n % 256 /\ s[2] = n \div 256 /\ s[3] = 0 /\ s[4] = 0
           /\ \A i \in 1 .. n : s[4 + i] = a[i]
           /\ \A i \in 5 + n .. lo_blobsize(n) : s[i] = 0
<1>1. PICK n \in Nat : n = Len(a)
  BY DEF Mem
<1>2. PICK k \in Nat : k = lo_blobsize(n) /\ k >= 4 + n
  BY BlobSizeIs
<1>3. PICK r : r = Reverse(Int32(n))
  OBVIOUS
<1>4. r \in Mem /\ Len(r) = 4 /\ r[1] = n % 256 /\ r[2] = n \div 256 /\ r[3] = 0 /\ r[4] = 0
  <2>1. PICK x \in Mem : /\ x = Int32(n) /\ Len(x) = 4 /\ x[1] = 0 /\ x[2] = 0
                         /\ x[3] = n \div 256 /\ x[4] = n % 256
    BY Int32Is
  <2>2. r = [i \in 1 .. 4 |-> x[4 - i + 1]]
    BY <2>1, <1>3 DEF Reverse
  <2>3. /\ \A i \in 1 .. 4 : x[4 - i + 1] \in Nat
        /\ r[1] = x[4] /\ r[2] = x[3] /\ r[3] = x[2] /\ r[4] = x[1]
    <3>1. \A i \in 1 .. 4 : x[i] \in Nat
      BY <2>1, ElementOfSeq DEF Mem
    <3>2. \A i \in 1 .. 4 : 4 - i + 1 \in 1 .. 4
      OBVIOUS
    <3> QED
      BY <3>1, <3>2, <2>2
  <2>4. r \in [1 .. 4 -> Nat]
    BY <2>2, <2>3
  <2>5. r \in Seq(Nat)
    BY <2>4, SeqDef
  <2>6. DOMAIN r = 1 .. 4 /\ DOMAIN r = 1 .. Len(r) /\ Len(r) \in Nat
    BY <2>4, <2>5, LenProperties
  <2>7. Len(r) = 4
    BY <2>6
  <2> QED
    BY <2>1, <2>3, <2>5, <2>7 DEF Mem
<1>5. PICK z \in Mem : z = Zeros(k - 4 - n) /\ Len(z) = k - 4 - n /\ \A i \in 1 .. k - 4 - n : z[i] = 0
  <2>1. k - 4 - n \in Nat
    BY <1>2
  <2> QED
    BY <2>1, ZerosAre
<1>6. PICK x \in Mem : /\ x = r \o a /\ Len(x) = Len(r) + Len(a)
                       /\ \A i \in 1 .. Len(r) : x[i] = r[i]
                       /\ \A i \in 1 .. Len(a) : x[Len(r) + i] = a[i]
  <2>1. Joined(r \o a, r, a)
    BY <1>4, MemJoin
  <2> QED
    BY <2>1, Zenon DEF Joined
<1>7. PICK s \in Mem : /\ s = x \o z /\ Len(s) = Len(x) + Len(z)
                       /\ \A i \in 1 .. Len(x) : s[i] = x[i]
                       /\ \A i \in 1 .. Len(z) : s[Len(x) + i] = z[i]
  BY MemConcat, Zenon
<1>8. Stored(LO_BLOB, a) = s
  <2>1. Stored(LO_BLOB, a) = Reverse(Int32(n)) \o a \o Zeros(k - 4 - n)
    BY <1>1, <1>2 DEF Stored, lo_string_types, LO_STRING, LO_SYMBOL, LO_BLOB
  <2> QED
    BY <2>1, <1>3, <1>5, <1>6, <1>7
<1>9. /\ Len(x) = 4 + n /\ Len(s) = k
      /\ \A i \in 1 .. 4 : x[i] = r[i]
      /\ \A i \in 1 .. n : x[4 + i] = a[i]
      /\ \A i \in 1 .. 4 + n : s[i] = x[i]
      /\ \A i \in 1 .. k - 4 - n : s[4 + n + i] = 0
  <2>1. Len(x) = 4 + n
    BY <1>1, <1>4, <1>6
  <2>2. Len(s) = k
    <3>1. Len(s) = (4 + n) + (k - 4 - n)
      BY <2>1, <1>5, <1>7, Zenon
    <3> QED
      BY <3>1
  <2>3. /\ \A i \in 1 .. 4 : x[i] = r[i]
        /\ \A i \in 1 .. n : x[4 + i] = a[i]
    <3>1. Len(r) = 4 /\ Len(a) = n
      BY <1>1, <1>4, Zenon
    <3>2. /\ \A i \in 1 .. Len(r) : x[i] = r[i]
          /\ \A i \in 1 .. Len(a) : x[Len(r) + i] = a[i]
      BY <1>6, Zenon
    <3> QED
      BY <3>1, <3>2
  <2>4. /\ \A i \in 1 .. 4 + n : s[i] = x[i]
        /\ \A i \in 1 .. k - 4 - n : s[4 + n + i] = z[i]
    BY <2>1, <1>5, <1>7, Zenon
  <2> QED
    BY <2>1, <2>2, <2>3, <2>4, <1>5
<1>10. \A i \in 1 .. 4 : s[i] = r[i]
  BY <1>9
<1>11. \A i \in 1 .. n : s[4 + i] = a[i]
  <2>1. \A i \in 1 .. n : 4 + i \in 1 .. 4 + n
    OBVIOUS
  <2> QED
    BY <2>1, <1>9
<1>12. ASSUME NEW i \in 5 + n .. k PROVE s[i] = 0
  <2>1. PICK j \in 1 .. k - 4 - n : i = 4 + n + j
    <3>1. i - 4 - n \in 1 .. k - 4 - n /\ i = 4 + n + (i - 4 - n)
      OBVIOUS
    <3> QED
      BY <3>1
  <2> QED
    BY <2>1, <1>9
<1> QED
  BY <1>1, <1>2, <1>4, <1>8, <1>9, <1>10, <1>11, <1>12

LEMMA BlobAccepted ==
    ASSUME NEW mem \in Mem, NEW n \in Nat, n <= LO_MAX_MSG_SIZE, lo_blobsize(n) <= Len(mem),
           Length32(mem) = n, \A i \in 5 + n .. lo_blobsize(n) : mem[i] = 0
    PROVE  lo_validate_blob(mem) = lo_blobsize(n)
<1>1. PICK k \in Nat : k = lo_blobsize(n) /\ k >= 4 + n
  BY BlobSizeIs
<1>2. PICK m \in Nat : m = Len(mem) /\ k <= m
  BY <1>1 DEF Mem
<1>3. LO_MAX_MSG_SIZE \in Nat
  BY WireAssumption
<1>4. ~(n > LO_MAX_MSG_SIZE \/ k > m \/ \E i \in 5 + n .. k : mem[i] # 0) /\ ~(m < 4)
  BY <1>1, <1>2, <1>3
<1> QED
  BY <1>1, <1>2, <1>4, Zenon DEF lo_validate_blob

LEMMA BlobRefused ==
    ASSUME NEW mem \in Mem, lo_validate_blob(mem) >= 0
    PROVE  LET n == Length32(mem) k == lo_validate_blob(mem) IN
           /\ n \in Nat /\ n <= LO_MAX_MSG_SIZE /\ k = lo_blobsize(n)
           /\ k \in Nat /\ k >= 4 + n /\ k <= Len(mem)
<1>1. PICK m \in Nat : m = Len(mem)
  BY DEF Mem
<1>2. PICK n : n = Length32(mem)
  OBVIOUS
<1>3. ~(m < 4)
  <2>1. m < 4 => lo_validate_blob(mem) = -1
    BY <1>1 DEF lo_validate_blob
  <2> QED
    BY <2>1
<1>4. n \in Nat
  BY <1>1, <1>2, <1>3, Length32Nat
<1>5. PICK k \in Nat : k = lo_blobsize(n) /\ k >= 4 + n
  BY <1>4, BlobSizeIs
<1>6. lo_validate_blob(mem) =
        IF n > LO_MAX_MSG_SIZE \/ k > m \/ \E i \in 5 + n .. k : mem[i] # 0 THEN -1 ELSE k
  BY <1>1, <1>2, <1>3, <1>5, Zenon DEF lo_validate_blob
<1>7. ~(n > LO_MAX_MSG_SIZE \/ k > m \/ \E i \in 5 + n .. k : mem[i] # 0)
  BY <1>6
<1>8. lo_validate_blob(mem) = k
  BY <1>6, <1>7
<1>9. LO_MAX_MSG_SIZE \in Nat
  BY WireAssumption
<1>10. n <= LO_MAX_MSG_SIZE /\ k <= m
  BY <1>4, <1>7, <1>9
<1> QED
  BY <1>1, <1>2, <1>4, <1>5, <1>8, <1>10

\* What is stored of an argument is whole, and what the network gets of it legal.
LEMMA StoredPlain ==
    ASSUME NEW type, NEW a, Passable(type, a), type \in Empty \cup Four \cup Eight
    PROVE  /\ Whole(type, Stored(type, a)) /\ Legal(type, Swapped(type, Stored(type, a)))
<1>1. type \in Type
  BY DEF Type
<1>2. Stored(type, a) = a
  BY DEF Stored, Empty, Four, Eight, lo_string_types, LO_INT32, LO_FLOAT, LO_STRING, LO_BLOB,
     LO_INT64, LO_TIMETAG, LO_DOUBLE, LO_SYMBOL, LO_CHAR, LO_MIDI, LO_TRUE, LO_FALSE, LO_NIL,
     LO_INFINITUM
<1>3. type \notin lo_string_types \cup {LO_BLOB}
  BY DEF Empty, Four, Eight, lo_string_types, LO_INT32, LO_FLOAT, LO_STRING, LO_BLOB,
     LO_INT64, LO_TIMETAG, LO_DOUBLE, LO_SYMBOL, LO_CHAR, LO_MIDI, LO_TRUE, LO_FALSE, LO_NIL,
     LO_INFINITUM
<1>4. a \in Mem
  <2>1. a = <<>> \/ a \in Seq(0 .. 255)
    BY <1>3 DEF Passable
  <2> QED
    BY <2>1, Bytes, Zenon
<1>5. /\ type \in Empty => Len(a) = 0
      /\ type \in Four => Len(a) = 4
      /\ type \in Eight => Len(a) = 8
  BY <1>3 DEF Passable, Empty, Four, Eight, LO_INT32, LO_FLOAT, LO_STRING, LO_BLOB,
     LO_INT64, LO_TIMETAG, LO_DOUBLE, LO_SYMBOL, LO_CHAR, LO_MIDI, LO_TRUE, LO_FALSE, LO_NIL,
     LO_INFINITUM
<1>6. Whole(type, a)
  BY <1>1, <1>4, <1>5, ArgSizeCases DEF Whole
<1>7. PICK w \in Mem : w = Swapped(type, a) /\ Len(w) = Len(a)
  BY <1>1, <1>4, <1>6, WholeEnough, SwappedIs
<1>8. ASSUME NEW rest \in Mem PROVE lo_validate_arg(type, w \o rest) = Len(w)
  <2>1. PICK mem \in Mem : mem = w \o rest /\ Len(mem) = Len(w) + Len(rest)
    BY MemConcat, Zenon
  <2>2. Len(mem) >= Len(w) /\ Len(mem) \in Nat
    <3>1. Len(w) \in Nat /\ Len(rest) \in Nat /\ Len(mem) \in Nat
      BY DEF Mem
    <3> QED
      BY <2>1, <3>1
  <2>3. lo_validate_arg(type, mem) = Len(w)
    BY <2>2, <1>5, <1>7, ValidateCases
  <2> QED
    BY <2>1, <2>3
<1>9. Legal(type, w)
  BY <1>1, <1>8 DEF Legal
<1> QED
  BY <1>2, <1>6, <1>7, <1>9

LEMMA StoredString ==
    ASSUME NEW type \in lo_string_types, NEW a \in Str
    PROVE  /\ Stored(type, a) = Padded(a)
           /\ Whole(type, Stored(type, a)) /\ Legal(type, Swapped(type, Stored(type, a)))
<1>1. type \in Type /\ type \notin SwapsHead \cup Eight
  BY DEF Type, SwapsHead, Eight, lo_string_types, LO_INT32, LO_FLOAT, LO_CHAR, LO_BLOB,
     LO_STRING, LO_SYMBOL, LO_INT64, LO_TIMETAG, LO_DOUBLE
<1>2. PICK p : p = Padded(a)
  OBVIOUS
<1>3. Stored(type, a) = p
  BY <1>2 DEF Stored, lo_string_types, LO_BLOB, LO_STRING, LO_SYMBOL
<1>4. p \in Mem /\ Len(p) = lo_strsize(Len(a))
  <2>1. a \in Mem
    BY Bytes, Zenon
  <2> QED
    BY <2>1, <1>2, PaddedIs, Zenon
<1>5. Swapped(type, p) = p
  BY <1>1, SwappedCases
<1>6. ASSUME NEW rest \in Mem
      PROVE  lo_arg_size(type, p \o rest) = Len(p) /\ lo_validate_arg(type, p \o rest) = Len(p)
  <2>1. PICK mem : mem = p \o rest
    OBVIOUS
  <2>2. StrLen(mem) = Len(a) /\ lo_validate_string(mem) = lo_strsize(Len(a))
    BY <2>1, <1>2, StringIsValid, Zenon
  <2>3. type \in lo_string_types
    OBVIOUS
  <2>4. lo_arg_size(type, mem) = lo_strsize(StrLen(mem))
    BY <1>1, <2>3, ArgSizeCases, Zenon
  <2>5. lo_validate_arg(type, mem) = lo_validate_string(mem)
    BY <2>3, ValidateCases, Zenon
  <2> QED
    BY <2>1, <2>2, <2>4, <2>5, <1>4, Zenon
<1> QED
  BY <1>1, <1>2, <1>3, <1>4, <1>5, <1>6, Zenon DEF Whole, Legal

LEMMA StoredBlob ==
    ASSUME NEW a \in Mem, Len(a) <= LO_MAX_MSG_SIZE
    PROVE  /\ Whole(LO_BLOB, Stored(LO_BLOB, a))
           /\ Legal(LO_BLOB, Swapped(LO_BLOB, Stored(LO_BLOB, a)))
<1>0. LO_BLOB \in Type /\ LO_BLOB \in SwapsHead
  BY DEF Type, SwapsHead
<1>1. PICK n \in Nat : n = Len(a)
  BY DEF Mem
<1>2. PICK k \in Nat : k = lo_blobsize(n) /\ k >= 4 + n
  BY BlobSizeIs
<1>3. PICK s \in Mem : /\ s = Stored(LO_BLOB, a) /\ Len(s) = k
                       /\ s[1] = n % 256 /\ s[2] = n \div 256 /\ s[3] = 0 /\ s[4] = 0
                       /\ \A i \in 5 + n .. k : s[i] = 0
  BY <1>1, <1>2, BlobIs
<1>4. PICK w \in Mem : /\ w = Swapped(LO_BLOB, s) /\ Len(w) = k
                       /\ \A i \in 1 .. k : w[i] = s[IF i <= 4 THEN 5 - i ELSE i]
  <2>1. Len(s) >= 4
    BY <1>2, <1>3
  <2> QED
    <3>1. Swapped(LO_BLOB, s) = SwapHead(s)
      BY <1>0, SwappedCases
    <3>2. /\ SwapHead(s) \in Mem /\ Len(SwapHead(s)) = Len(s)
          /\ \A i \in 1 .. Len(s) : SwapHead(s)[i] = s[IF i <= 4 THEN 5 - i ELSE i]
      BY <2>1, SwapHeadIs
    <3>3. Len(s) = k
      BY <1>3, Zenon
    <3> QED
      BY <3>1, <3>2, <3>3, Zenon
<1>5. w[1] = 0 /\ w[2] = 0 /\ w[3] = n \div 256 /\ w[4] = n % 256
  BY <1>2, <1>3, <1>4
<1>6. \A i \in 5 + n .. k : w[i] = 0
  BY <1>2, <1>3, <1>4
<1>7. ASSUME NEW rest \in Mem PROVE lo_arg_size(LO_BLOB, s \o rest) = k
  <2>1. PICK mem \in Mem : /\ mem = s \o rest /\ Len(mem) = Len(s) + Len(rest)
                           /\ \A i \in 1 .. Len(s) : mem[i] = s[i]
    <3>1. Joined(s \o rest, s, rest)
      BY MemJoin
    <3> QED
      BY <3>1, Zenon DEF Joined
  <2>2. Len(mem) >= 4 /\ mem[1] = s[1] /\ mem[2] = s[2] /\ mem[3] = s[3] /\ mem[4] = s[4]
    <3>1. Len(rest) \in Nat /\ Len(mem) = k + Len(rest) /\ \A i \in 1 .. k : mem[i] = s[i]
      BY <2>1, <1>3, SMTT(20) DEF Mem
    <3> QED
      BY <3>1, <1>2
  <2>3. PICK b \in Mem : /\ HostLength(mem) = Length32(b) /\ Len(b) = 4
                         /\ \A i \in 1 .. 4 : b[i] = mem[5 - i]
    BY <2>2, HostLengthIs
  <2>4. b[1] = 0 /\ b[2] = 0 /\ b[3] = n \div 256 /\ b[4] = n % 256
    BY <2>2, <2>3, <1>3
  <2>5. HostLength(mem) = n
    BY <2>3, <2>4, Length32Of
  <2>6. lo_arg_size(LO_BLOB, mem) = lo_blobsize(HostLength(mem))
    BY <1>0, ArgSizeCases
  <2> QED
    BY <2>1, <2>5, <2>6, <1>2
<1>8. ASSUME NEW rest \in Mem PROVE lo_validate_arg(LO_BLOB, w \o rest) = k
  <2>1. PICK mem \in Mem : /\ mem = w \o rest /\ Len(mem) = Len(w) + Len(rest)
                           /\ \A i \in 1 .. Len(w) : mem[i] = w[i]
    <3>1. Joined(w \o rest, w, rest)
      BY MemJoin
    <3> QED
      BY <3>1, Zenon DEF Joined
  <2>2. /\ Len(rest) \in Nat /\ Len(mem) = k + Len(rest) /\ \A i \in 1 .. k : mem[i] = w[i]
    BY <2>1, <1>4 DEF Mem
  <2>3. mem[1] = 0 /\ mem[2] = 0 /\ mem[3] = n \div 256 /\ mem[4] = n % 256
    BY <2>2, <1>2, <1>5
  <2>4. Length32(mem) = n
    BY <2>3, Length32Of
  <2>5. k <= Len(mem) /\ \A i \in 5 + n .. k : mem[i] = 0
    BY <2>2, <1>2, <1>6
  <2>6. lo_validate_blob(mem) = k
    BY <2>4, <2>5, <1>1, <1>2, BlobAccepted
  <2>7. lo_validate_arg(LO_BLOB, mem) = lo_validate_blob(mem)
    BY ValidateCases
  <2> QED
    BY <2>1, <2>6, <2>7
<1> QED
  BY <1>0, <1>3, <1>4, <1>7, <1>8, Zenon DEF Whole, Legal

LEMMA StoredIs ==
    ASSUME NEW type, NEW a, Passable(type, a)
    PROVE  /\ Whole(type, Stored(type, a)) /\ Legal(type, Swapped(type, Stored(type, a)))
<1>1. CASE type \in Empty \cup Four \cup Eight
  BY <1>1, StoredPlain
<1>2. CASE type \in lo_string_types /\ a \in Seq(1 .. 255)
  <2>1. a \in Str
    BY <1>2, Bytes, Zenon
  <2> QED
    BY <2>1, <1>2, StoredString
<1>3. CASE type = LO_BLOB /\ a \in Seq(0 .. 255) /\ Len(a) <= LO_MAX_MSG_SIZE
  <2>1. a \in Mem
    BY <1>3, Bytes, Zenon
  <2> QED
    BY <2>1, <1>3, StoredBlob
<1> QED
  BY <1>1, <1>2, <1>3 DEF Passable

\* What lo_validate_arg accepts is, in the host's order, whole.
LEMMA ValidArg ==
    ASSUME NEW type, NEW mem \in Mem, lo_validate_arg(type, mem) >= 0
    PROVE  LET k == lo_validate_arg(type, mem) x == SubSeq(mem, 1, k) IN
           /\ type \in Type /\ k \in Nat /\ k <= Len(mem)
           /\ x \in Mem /\ Len(x) = k /\ Enough(type, x)
           /\ Whole(type, Swapped(type, x))
<1>0. type \in Type
  BY ValidateCases
<1>1. PICK m \in Nat : m = Len(mem)
  BY DEF Mem
<1>2. PICK k : k = lo_validate_arg(type, mem)
  OBVIOUS
<1>3. /\ k \in Nat /\ k <= m
      /\ type \in Empty => k = 0
      /\ type \in Four => k = 4
      /\ type \in Eight => k = 8
      /\ type \in lo_string_types => lo_validate_string(mem) = k
      /\ type = LO_BLOB => /\ lo_validate_blob(mem) = k /\ k = lo_blobsize(Length32(mem))
                           /\ Length32(mem) \in Nat /\ k >= 4
  <2>1. CASE type \in Empty
    BY <2>1, <1>1, <1>2, ValidateCases DEF Empty, Four, Eight, lo_string_types, LO_INT32, LO_FLOAT,
     LO_STRING, LO_BLOB, LO_INT64, LO_TIMETAG, LO_DOUBLE, LO_SYMBOL, LO_CHAR, LO_MIDI, LO_TRUE,
     LO_FALSE, LO_NIL, LO_INFINITUM
  <2>2. CASE type \in Four
    BY <2>2, <1>1, <1>2, ValidateCases DEF Empty, Four, Eight, lo_string_types, LO_INT32, LO_FLOAT,
     LO_STRING, LO_BLOB, LO_INT64, LO_TIMETAG, LO_DOUBLE, LO_SYMBOL, LO_CHAR, LO_MIDI, LO_TRUE,
     LO_FALSE, LO_NIL, LO_INFINITUM
  <2>3. CASE type \in Eight
    BY <2>3, <1>1, <1>2, ValidateCases DEF Empty, Four, Eight, lo_string_types, LO_INT32, LO_FLOAT,
     LO_STRING, LO_BLOB, LO_INT64, LO_TIMETAG, LO_DOUBLE, LO_SYMBOL, LO_CHAR, LO_MIDI, LO_TRUE,
     LO_FALSE, LO_NIL, LO_INFINITUM
  <2>4. CASE type \in lo_string_types
    <3>1. lo_validate_string(mem) = k
      BY <2>4, <1>2, ValidateCases
    <3>2. StrLen(mem) \in Nat /\ k = lo_strsize(StrLen(mem)) /\ k <= m
      BY <3>1, <1>1, <1>2, ValidString
    <3>3. k \in Nat
      BY <3>2, StrSizeIs
    <3> QED
      BY <2>4, <3>1, <3>2, <3>3 DEF Empty, Four, Eight, lo_string_types, LO_INT32, LO_FLOAT,
     LO_STRING, LO_BLOB, LO_INT64, LO_TIMETAG, LO_DOUBLE, LO_SYMBOL, LO_CHAR, LO_MIDI, LO_TRUE,
     LO_FALSE, LO_NIL, LO_INFINITUM
  <2>5. CASE type = LO_BLOB
    <3>1. lo_validate_blob(mem) = k
      BY <2>5, <1>2, ValidateCases
    <3>2. /\ Length32(mem) \in Nat /\ k = lo_blobsize(Length32(mem)) /\ k \in Nat
          /\ k >= 4 + Length32(mem) /\ k <= m
      BY <3>1, <1>1, <1>2, BlobRefused
    <3>3. k >= 4
      BY <3>2
    <3> QED
      BY <2>5, <3>1, <3>2, <3>3 DEF Empty, Four, Eight, lo_string_types, LO_INT32, LO_FLOAT,
     LO_STRING, LO_BLOB, LO_INT64, LO_TIMETAG, LO_DOUBLE, LO_SYMBOL, LO_CHAR, LO_MIDI, LO_TRUE,
     LO_FALSE, LO_NIL, LO_INFINITUM
  <2> QED
    BY <1>0, <2>1, <2>2, <2>3, <2>4, <2>5 DEF Type
<1>4. PICK x \in Mem : x = SubSeq(mem, 1, k) /\ Len(x) = k /\ \A i \in 1 .. k : x[i] = mem[i]
  <2>1. 0 \in Nat /\ 0 + 1 = 1 /\ 0 <= k /\ k <= Len(mem) /\ k - 0 = k
    BY <1>1, <1>3
  <2>2. /\ SubSeq(mem, 0 + 1, k) \in Mem /\ Len(SubSeq(mem, 0 + 1, k)) = k - 0
        /\ \A i \in 1 .. k - 0 : SubSeq(mem, 0 + 1, k)[i] = mem[0 + i]
    BY <1>3, <2>1, MemPiece, Zenon
  <2>3. PICK x \in Mem : /\ x = SubSeq(mem, 1, k) /\ Len(x) = k
                         /\ \A i \in 1 .. k : x[i] = mem[0 + i]
    BY <2>1, <2>2, Zenon
  <2>4. \A i \in 1 .. k : x[i] = mem[i]
    <3>1. \A i \in 1 .. k : 0 + i = i
      BY <1>3
    <3> QED
      BY <3>1, <2>3, Zenon
  <2> QED
    BY <2>3, <2>4, Zenon
<1>5. Enough(type, x)
  BY <1>3, <1>4 DEF Enough
<1>6. PICK h \in Mem : h = Swapped(type, x) /\ Len(h) = k
  <2>1. Swapped(type, x) \in Mem /\ Len(Swapped(type, x)) = Len(x)
    BY <1>0, <1>5, SwappedIs
  <2>2. Len(x) = k
    BY <1>4, Zenon
  <2> QED
    BY <2>1, <2>2, Zenon
<1>7. Whole(type, h)
  <2>1. CASE type \in Empty \cup Four \cup Eight
    BY <1>0, <1>3, <1>6, <2>1, ArgSizeCases DEF Whole
  <2>2. CASE type \in lo_string_types
    <3>1. lo_validate_string(mem) = k /\ lo_validate_string(mem) >= 0
      BY <1>2, <1>3, <2>2
    <3>2. PICK s \in Str : x = Padded(s)
      BY <3>1, <1>4, ValidString
    <3>3. Stored(type, s) = Padded(s) /\ Whole(type, Stored(type, s))
      BY <2>2, StoredString
    <3>4. type \notin SwapsHead \cup Eight
      BY <2>2 DEF SwapsHead, Eight, lo_string_types, LO_INT32, LO_FLOAT, LO_CHAR, LO_BLOB,
         LO_STRING, LO_SYMBOL, LO_INT64, LO_TIMETAG, LO_DOUBLE
    <3>5. h = x
      BY <3>4, <1>0, <1>6, SwappedCases
    <3> QED
      BY <3>2, <3>3, <3>5, <1>6
  <2>3. CASE type = LO_BLOB
    <3>1. ASSUME NEW rest \in Mem PROVE lo_arg_size(type, h \o rest) = k
      <4>1. \A i \in 1 .. 4 : h[i] = x[5 - i] /\ i \in 1 .. k /\ 5 - i \in 1 .. k
        <5>1. Len(x) >= 4 /\ type \in SwapsHead /\ k >= 4
          BY <1>3, <1>4, <2>3 DEF SwapsHead
        <5>2. \A i \in 1 .. k : h[i] = x[IF i <= 4 THEN 5 - i ELSE i]
          <6>1. h = SwapHead(x)
            BY <5>1, <1>0, <1>6, SwappedCases
          <6> QED
            BY <5>1, <6>1, <1>4, SwapHeadIs
        <5> QED
          BY <5>1, <5>2, <1>3
      <4>2. PICK y \in Mem : /\ y = h \o rest /\ Len(y) = Len(h) + Len(rest)
                             /\ \A i \in 1 .. Len(h) : y[i] = h[i]
        <5>1. Joined(h \o rest, h, rest)
          BY MemJoin
        <5> QED
          BY <5>1, Zenon DEF Joined
      <4>3. Len(y) >= 4 /\ \A i \in 1 .. 4 : y[i] = x[5 - i]
        <5>1. Len(rest) \in Nat /\ Len(y) = k + Len(rest) /\ \A i \in 1 .. k : y[i] = h[i]
          BY <4>2, <1>6 DEF Mem
        <5> QED
          BY <5>1, <4>1, <1>3, <2>3
      <4>4. PICK b \in Mem : /\ HostLength(y) = Length32(b) /\ Len(b) = 4
                             /\ \A i \in 1 .. 4 : b[i] = y[5 - i]
        BY <4>3, HostLengthIs
      <4>5. \A i \in 1 .. 4 : b[i] = mem[i]
        <5>1. \A i \in 1 .. 4 : 5 - i \in 1 .. 4 /\ 5 - (5 - i) = i
          OBVIOUS
        <5>2. \A i \in 1 .. 4 : b[i] = x[i]
          BY <5>1, <4>3, <4>4
        <5>3. \A i \in 1 .. 4 : i \in 1 .. k
          BY <1>3, <2>3
        <5> QED
          BY <5>2, <5>3, <1>4
      <4>6. Len(mem) >= 4 /\ Len(b) >= 4
        BY <1>1, <1>3, <2>3, <4>4
      <4>7. Length32(b) = Length32(mem)
        BY <4>5, <4>6, SameLength
      <4>8. lo_arg_size(type, y) = lo_blobsize(HostLength(y))
        BY <1>0, <2>3, ArgSizeCases
      <4> QED
        BY <4>2, <4>4, <4>7, <4>8, <1>3, <2>3
    <3> QED
      BY <3>1, <1>0, <1>6, <2>3 DEF Whole
  <2> QED
    BY <1>0, <2>1, <2>2, <2>3 DEF Type
<1> QED
  BY <1>0, <1>1, <1>2, <1>3, <1>4, <1>5, <1>6, <1>7, Zenon

-----------------------------------------------------------------------------
(* Recursive functions of the number of turns taken: they exist, and what holds *)
(* of each turn's result, given that of the turn before, holds of all.          *)

Iterates(f, n, base, g) == f = [i \in 0 .. n |-> IF i = 0 THEN base ELSE g[i][f[i - 1]]]

LEMMA IterationExists ==
    ASSUME NEW n \in Nat, NEW base, NEW V, NEW g, base \in V[0],
           \A i \in 1 .. n : \A v \in V[i - 1] : g[i][v] \in V[i]
    PROVE  \E f : Iterates(f, n, base, g) /\ \A i \in 0 .. n : f[i] \in V[i]
<1> DEFINE UpTo(f, m) ==
               /\ f = [i \in 0 .. n |-> f[i]]
               /\ f[0] = base /\ f[0] \in V[0]
               /\ \A i \in 1 .. m : f[i] = g[i][f[i - 1]] /\ f[i] \in V[i]
           Bad == {m \in 0 .. n : ~ \E f : UpTo(f, m)}
<1>1. 0 \notin Bad
  <2> DEFINE f == [i \in 0 .. n |-> base]
  <2>1. UpTo(f, 0)
    OBVIOUS
  <2> QED
    BY <2>1
<1>2. Bad = {}
  <2> SUFFICES ASSUME Bad # {} PROVE FALSE
    OBVIOUS
  <2>0. Bad \in SUBSET (0 .. n)
    OBVIOUS
  <2>1. PICK m \in Bad : m \in 1 .. n /\ m - 1 \in 0 .. n /\ m - 1 \notin Bad
    <3> HIDE DEF Bad
    <3> QED
      BY <1>1, <2>0, LeastBadAfter0
  <2>2. PICK f : UpTo(f, m - 1)
    BY <2>1
  <2> DEFINE h == [i \in 0 .. n |-> IF i = m THEN g[m][f[m - 1]] ELSE f[i]]
  <2>3. h = [i \in 0 .. n |-> h[i]] /\ h[m] = g[m][f[m - 1]]
        /\ \A i \in 0 .. n : i # m => h[i] = f[i]
    BY <2>1
  <2>4. f[m - 1] \in V[m - 1]
    <3>1. m - 1 = 0 \/ m - 1 \in 1 .. m - 1
      BY <2>1
    <3> QED
      BY <3>1, <2>2
  <2> HIDE DEF h
  <2>5. h[0] = base /\ h[0] \in V[0]
    <3>1. 0 \in 0 .. n /\ 0 # m
      BY <2>1
    <3>2. h[0] = f[0]
      BY <3>1, <2>3, Zenon
    <3>3. f[0] = base /\ f[0] \in V[0]
      BY <2>2, Zenon
    <3> QED
      BY <3>2, <3>3, Zenon
  <2>6. ASSUME NEW i \in 1 .. m PROVE h[i] = g[i][h[i - 1]] /\ h[i] \in V[i]
    <3>1. i \in 1 .. n /\ i - 1 \in 0 .. n /\ i - 1 # m
      BY <2>1
    <3>2. CASE i = m
      BY <3>1, <3>2, <2>1, <2>3, <2>4
    <3>3. CASE i # m
      <4>1. i \in 1 .. m - 1 /\ i \in 0 .. n
        BY <3>3, <2>1
      <4> QED
        BY <4>1, <3>1, <3>3, <2>2, <2>3
    <3> QED
      BY <3>2, <3>3
  <2>7. UpTo(h, m)
    BY <2>3, <2>5, <2>6
  <2> QED
    BY <2>1, <2>7
<1>3. PICK f : UpTo(f, n)
  BY <1>2
<1>4. Iterates(f, n, base, g)
  <2>1. \A i \in 0 .. n : f[i] = IF i = 0 THEN base ELSE g[i][f[i - 1]]
    BY <1>3
  <2> QED
    BY <2>1, <1>3 DEF Iterates
<1>5. \A i \in 0 .. n : f[i] \in V[i]
  BY <1>3
<1> QED
  BY <1>4, <1>5

LEMMA IterationIn ==
    ASSUME NEW n \in Nat, NEW V, NEW f, f[0] \in V[0],
           \A i \in 1 .. n : f[i - 1] \in V[i - 1] => f[i] \in V[i]
    PROVE  \A i \in 0 .. n : f[i] \in V[i]
<1> DEFINE Bad == {i \in 0 .. n : f[i] \notin V[i]}
<1>1. Bad \in SUBSET (0 .. n) /\ 0 \notin Bad
  OBVIOUS
<1>2. ASSUME Bad # {} PROVE FALSE
  <2>1. PICK m \in Bad : m \in 1 .. n /\ m - 1 \in 0 .. n /\ m - 1 \notin Bad
    <3> HIDE DEF Bad
    <3> QED
      BY <1>1, <1>2, LeastBadAfter0
  <2> QED
    BY <2>1
<1> QED
  BY <1>2

LEMMA IterationSame ==
    ASSUME NEW n \in Nat, NEW f, NEW h, f[0] = h[0],
           \A i \in 1 .. n : f[i - 1] = h[i - 1] => f[i] = h[i]
    PROVE  \A i \in 0 .. n : f[i] = h[i]
<1> DEFINE V == [i \in 0 .. n |-> {h[i]}]
<1>1. f[0] \in V[0] /\ \A i \in 1 .. n : f[i - 1] \in V[i - 1] => f[i] \in V[i]
  OBVIOUS
<1> HIDE DEF V
<1>2. \A i \in 0 .. n : f[i] \in V[i]
  BY <1>1, IterationIn
<1> QED
  BY <1>2 DEF V

\* Two functions that begin alike and step alike.
Steps(f, h, n) == f[0] = h[0] /\ \A i \in 1 .. n : f[i - 1] = h[i - 1] => f[i] = h[i]
Alike(f, h, n) == \A i \in 0 .. n : f[i] = h[i]

LEMMA StepsAlike ==
    ASSUME NEW n \in Nat, NEW f, NEW h, Steps(f, h, n)
    PROVE  Alike(f, h, n)
<1>1. f[0] = h[0] /\ \A i \in 1 .. n : f[i - 1] = h[i - 1] => f[i] = h[i]
  BY Zenon DEF Steps
<1>2. \A i \in 0 .. n : f[i] = h[i]
  BY <1>1, IterationSame
<1> QED
  BY <1>2, Zenon DEF Alike

\* With one set of results.
LEMMA IterationInto ==
    ASSUME NEW n \in Nat, NEW S, NEW base \in S, NEW g,
           \A i \in 1 .. n : \A v \in S : g[i][v] \in S
    PROVE  \E f \in [0 .. n -> S] : Iterates(f, n, base, g)
<1> DEFINE V == [i \in 0 .. n |-> S]
<1>1. 0 \in 0 .. n /\ \A i \in 0 .. n : V[i] = S
  OBVIOUS
<1>2. \A i \in 1 .. n : i \in 0 .. n /\ i - 1 \in 0 .. n
  OBVIOUS
<1> HIDE DEF V
<1>3. base \in V[0] /\ \A i \in 1 .. n : \A v \in V[i - 1] : g[i][v] \in V[i]
  BY <1>1, <1>2, Zenon
<1>4. PICK f : Iterates(f, n, base, g) /\ \A i \in 0 .. n : f[i] \in V[i]
  BY <1>3, IterationExists
<1>5. \A i \in 0 .. n : f[i] \in S
  BY <1>1, <1>4, Zenon
<1>6. f \in [0 .. n -> S]
  <2>1. \E w : f = [i \in 0 .. n |-> w[i]]
    <3> DEFINE w == [i \in 0 .. n |-> IF i = 0 THEN base ELSE g[i][f[i - 1]]]
    <3>1. f = [i \in 0 .. n |-> w[i]]
      BY <1>4 DEF Iterates
    <3> HIDE DEF w
    <3> QED
      BY <3>1
  <2> QED
    BY <2>1, <1>5
<1> QED
  BY <1>4, <1>6

-----------------------------------------------------------------------------
(* Sums *)

Sums(f, sizes) ==
    /\ f \in [0 .. Len(sizes) -> Nat] /\ f[0] = 0
    /\ \A i \in 1 .. Len(sizes) : f[i] = f[i - 1] + sizes[i]

LEMMA TotalIs ==
    ASSUME NEW sizes \in Seq(Nat)
    PROVE  \E f : Sums(f, sizes) /\ Total(sizes) = f[Len(sizes)]
<1>1. PICK n \in Nat : n = Len(sizes) /\ \A i \in 1 .. n : sizes[i] \in Nat
  OBVIOUS
<1> DEFINE g == [i \in 1 .. n |-> [v \in Nat |-> v + sizes[i]]]
           Is(f) == f = [i \in 0 .. n |-> IF i = 0 THEN 0 ELSE f[i - 1] + sizes[i]]
<1>2. \A i \in 1 .. n : \A v \in Nat : g[i][v] = v + sizes[i] /\ g[i][v] \in Nat
  BY <1>1
<1>3. PICK f \in [0 .. n -> Nat] : Iterates(f, n, 0, g)
  <2> HIDE DEF g
  <2>1. 0 \in Nat
    OBVIOUS
  <2> QED
    BY <1>2, <2>1, IterationInto
<1> HIDE DEF g
<1>4. \A i \in 1 .. n : f[i - 1] \in Nat
  OBVIOUS
<1>5. Is(f)
  <2>1. \A i \in 0 .. n : f[i] = IF i = 0 THEN 0 ELSE f[i - 1] + sizes[i]
    <3> SUFFICES ASSUME NEW i \in 0 .. n
                 PROVE  f[i] = IF i = 0 THEN 0 ELSE f[i - 1] + sizes[i]
      OBVIOUS
    <3>1. f[i] = IF i = 0 THEN 0 ELSE g[i][f[i - 1]]
      BY <1>3 DEF Iterates
    <3>2. i = 0 \/ i \in 1 .. n
      OBVIOUS
    <3> QED
      BY <3>1, <3>2, <1>2, <1>4
  <2> QED
    BY <2>1
<1> DEFINE c == CHOOSE h : Is(h)
<1>6. Is(c)
  BY <1>5, Zenon
<1>7. Total(sizes) = c[n]
  BY <1>1 DEF Total
<1> HIDE DEF c
<1>8. c[0] = 0 /\ \A i \in 1 .. n : c[i] = c[i - 1] + sizes[i]
  <2>1. \A i \in 0 .. n : c[i] = IF i = 0 THEN 0 ELSE c[i - 1] + sizes[i]
    BY <1>6
  <2>2. 0 \in 0 .. n /\ \A i \in 1 .. n : i \in 0 .. n /\ i # 0
    OBVIOUS
  <2> HIDE DEF Is
  <2> QED
    BY <2>1, <2>2
<1>11. \E w : c = [i \in 0 .. n |-> w[i]]
  <2> DEFINE w == [i \in 0 .. n |-> IF i = 0 THEN 0 ELSE c[i - 1] + sizes[i]]
  <2>1. c = [i \in 0 .. n |-> w[i]]
    BY <1>6
  <2> HIDE DEF w
  <2> QED
    BY <2>1
<1> HIDE DEF Is
<1>9. \A i \in 0 .. n : c[i] \in Nat
  <2> DEFINE W == [i \in 0 .. n |-> Nat]
  <2>1. c[0] \in W[0] /\ \A i \in 1 .. n : c[i - 1] \in W[i - 1] => c[i] \in W[i]
    <3>1. \A i \in 0 .. n : W[i] = Nat
      OBVIOUS
    <3>2. \A i \in 1 .. n : i - 1 \in 0 .. n /\ i \in 0 .. n
      OBVIOUS
    <3>3. 0 \in 0 .. n
      OBVIOUS
    <3> HIDE DEF W
    <3> QED
      <4>1. c[0] \in W[0]
        BY <3>1, <3>3, <1>8
      <4>2. ASSUME NEW i \in 1 .. n, c[i - 1] \in W[i - 1] PROVE c[i] \in W[i]
        <5>1. c[i - 1] \in Nat /\ c[i] = c[i - 1] + sizes[i] /\ sizes[i] \in Nat
          BY <4>2, <3>1, <3>2, <1>1, <1>8
        <5>2. c[i] \in Nat
          BY <5>1, SMTT(20)
        <5> QED
          BY <5>2, <3>1, <3>2
      <4> QED
        BY <4>1, <4>2
  <2>2. \A i \in 0 .. n : c[i] \in W[i]
    <3> HIDE DEF W
    <3> QED
      BY <2>1, IterationIn
  <2> QED
    BY <2>2
<1>10. Sums(c, sizes)
  BY <1>1, <1>8, <1>9, <1>11 DEF Sums
<1> QED
  BY <1>1, <1>7, <1>10

LEMMA SumsSame ==
    ASSUME NEW sizes \in Seq(Nat), NEW f, Sums(f, sizes)
    PROVE  Total(sizes) = f[Len(sizes)]
<1>1. PICK c : Sums(c, sizes) /\ Total(sizes) = c[Len(sizes)]
  BY TotalIs
<1>2. PICK n \in Nat : n = Len(sizes)
  OBVIOUS
<1>3. c[0] = f[0] /\ \A i \in 1 .. n : c[i - 1] = f[i - 1] => c[i] = f[i]
  BY <1>1, <1>2 DEF Sums
<1>4. \A i \in 0 .. n : c[i] = f[i]
  <2>1. Steps(c, f, n)
    BY <1>3, Zenon DEF Steps
  <2>2. Alike(c, f, n)
    BY <2>1, StepsAlike
  <2> QED
    BY <2>2, Zenon DEF Alike
<1> QED
  BY <1>1, <1>2, <1>4

\* What is before a place and at it is no more than all.
LEMMA TotalPrefix ==
    ASSUME NEW sizes \in Seq(Nat), NEW i \in 1 .. Len(sizes)
    PROVE  Total(SubSeq(sizes, 1, i - 1)) + sizes[i] <= Total(sizes)
<1>1. PICK c : Sums(c, sizes) /\ Total(sizes) = c[Len(sizes)]
  BY TotalIs
<1>2. PICK n \in Nat : n = Len(sizes) /\ i \in 1 .. n
  OBVIOUS
<1>3. PICK p : p = SubSeq(sizes, 1, i - 1)
  OBVIOUS
<1>4. p \in Seq(Nat) /\ Len(p) = i - 1 /\ \A j \in 1 .. i - 1 : p[j] = sizes[j]
  BY <1>2, <1>3
<1> DEFINE f == [j \in 0 .. i - 1 |-> c[j]]
<1>5. Sums(f, p)
  <2>1. \A j \in 0 .. i - 1 : j \in 0 .. n /\ f[j] = c[j]
    BY <1>2
  <2>2. f \in [0 .. i - 1 -> Nat] /\ f[0] = 0
    <3>1. \A j \in 0 .. n : c[j] \in Nat
      BY <1>1, <1>2 DEF Sums
    <3>2. 0 \in 0 .. i - 1 /\ c[0] = 0
      BY <1>1, <1>2 DEF Sums
    <3> QED
      BY <2>1, <3>1, <3>2
  <2>3. ASSUME NEW j \in 1 .. i - 1 PROVE f[j] = f[j - 1] + p[j]
    <3>1. j \in 0 .. i - 1 /\ j - 1 \in 0 .. i - 1 /\ j \in 1 .. n
      BY <1>2
    <3>2. c[j] = c[j - 1] + sizes[j]
      BY <3>1, <1>1, <1>2 DEF Sums
    <3> HIDE DEF f
    <3> QED
      BY <3>1, <3>2, <2>1, <1>4
  <2> HIDE DEF f
  <2> QED
    BY <2>2, <2>3, <1>4 DEF Sums
<1>6. Total(p) = c[i - 1]
  <2>1. Total(p) = f[i - 1]
    <3> HIDE DEF f
    <3> QED
      BY <1>4, <1>5, SumsSame
  <2> QED
    BY <2>1, <1>2
<1>7. \A j \in i .. n : c[i] <= c[j]
  <2> DEFINE W == [j \in 0 .. n |-> IF j < i THEN Nat ELSE {v \in Nat : c[i] <= v}]
  <2>0. \A j \in 0 .. n : c[j] \in Nat
    BY <1>1, <1>2 DEF Sums
  <2>1. c[0] \in W[0]
    BY <2>0, <1>2
  <2>2. ASSUME NEW j \in 1 .. n, c[j - 1] \in W[j - 1] PROVE c[j] \in W[j]
    <3>1. c[j] = c[j - 1] + sizes[j] /\ sizes[j] \in Nat /\ c[j - 1] \in Nat /\ c[j] \in Nat /\ c[i] \in Nat
      <4>1. j - 1 \in 0 .. n /\ j \in 0 .. n /\ i \in 0 .. n
        BY <1>2
      <4> QED
        BY <4>1, <2>0, <1>1, <1>2 DEF Sums
    <3>2. CASE j <= i
      BY <3>1, <3>2
    <3>3. CASE ~(j <= i)
      <4>1. c[j - 1] >= c[i]
        BY <2>2, <3>3
      <4> QED
        <5>1. c[j] \in {v \in Nat : c[i] <= v}
          BY <4>1, <3>1
        <5>2. ~(j < i) /\ j \in 0 .. n
          BY <3>3, <1>2
        <5>3. W[j] = {v \in Nat : c[i] <= v}
          BY <5>2
        <5> QED
          BY <5>1, <5>3, Zenon
    <3> QED
      BY <3>2, <3>3
  <2>3. \A j \in 0 .. n : c[j] \in W[j]
    <3> HIDE DEF W
    <3> QED
      BY <2>1, <2>2, IterationIn
  <2>4. \A j \in i .. n : j \in 0 .. n /\ ~(j < i)
    BY <1>2
  <2>5. \A j \in i .. n : W[j] = {v \in Nat : c[i] <= v}
    BY <2>4
  <2> HIDE DEF W
  <2> QED
    BY <2>3, <2>4, <2>5
<1>8. c[i] = c[i - 1] + sizes[i]
  BY <1>1, <1>2 DEF Sums
<1>9. c[i] <= c[n]
  BY <1>2, <1>7
<1> QED
  BY <1>1, <1>2, <1>3, <1>6, <1>8, <1>9

\* The lengths of the pieces add up to the length of the flat sequence.
LEMMA TotalOfPieces ==
    ASSUME NEW q \in Seq(Mem), NEW s \in Mem, NEW o, Places(s, q, o),
           NEW sizes \in Seq(Nat), Len(sizes) = Len(q), \A i \in 1 .. Len(q) : sizes[i] = Len(q[i])
    PROVE  Total(sizes) = Len(s)
<1>1. Sums(o, sizes) /\ o[Len(sizes)] = Len(s)
  BY DEF Places, Sums
<1> QED
  BY <1>1, SumsSame

-----------------------------------------------------------------------------
(* Arguments one after another *)

\* A piece of a flat sequence, seen from where it begins.
PlacedIn(s, q, o, i) ==
    /\ o[i - 1] \in Nat /\ o[i] \in Nat /\ o[i - 1] <= o[i] /\ o[i] <= Len(s)
    /\ o[i] = o[i - 1] + Len(q[i]) /\ Len(q[i]) \in Nat
    /\ SubSeq(s, o[i - 1] + 1, o[i]) = q[i]
    /\ \E rest \in Mem : Drop(s, o[i - 1]) = q[i] \o rest

LEMMA PlacedAt ==
    ASSUME NEW q \in Seq(Mem), NEW s \in Mem, NEW o, Places(s, q, o), NEW i \in 1 .. Len(q)
    PROVE  PlacedIn(s, q, o, i)
<1>1. PICK n \in Nat : n = Len(q) /\ i \in 1 .. n /\ i \in 0 .. n /\ i - 1 \in 0 .. n /\ n \in 0 .. n
  OBVIOUS
<1>2. PICK x \in Mem : x = q[i] /\ Len(x) \in Nat
  BY <1>1 DEF Mem
<1> DEFINE a == o[i - 1]
           b == o[i]
<1>3. a \in Nat /\ b \in Nat /\ b = a + Len(x) /\ \A k \in 1 .. Len(x) : s[a + k] = x[k]
  BY <1>1, <1>2 DEF Places
<1>4. o[n] = Len(s) /\ b <= o[n]
  <2>1. \A j \in 0 .. Len(q) : \A k \in 0 .. j : o[k] <= o[j]
    BY PlacesCover DEF Mem
  <2>2. i \in 0 .. n
    BY <1>1
  <2>3. o[n] = Len(s)
    BY <1>1 DEF Places
  <2> HIDE DEF b
  <2> QED
    BY <1>1, <2>1, <2>2, <2>3 DEF b
<1> HIDE DEF a, b
<1>5. a \in Nat /\ b \in Nat /\ a <= b /\ b <= Len(s) /\ a <= Len(s) /\ Len(s) \in Nat
  <2>1. Len(s) \in Nat
    BY DEF Mem
  <2> QED
    BY <2>1, <1>2, <1>3, <1>4
<1>6. SubSeq(s, a + 1, b) = x
  <2>1. PICK y \in Mem : /\ y = SubSeq(s, a + 1, b) /\ Len(y) = b - a
                         /\ \A k \in 1 .. b - a : y[k] = s[a + k]
    <3>1. CutFrom(SubSeq(s, a + 1, b), s, a, b)
      BY <1>5, MemCutFrom
    <3> QED
      BY <3>1, Zenon DEF CutFrom
  <2>2. Len(y) = Len(x)
    BY <2>1, <1>2, <1>3
  <2>3. \A k \in 1 .. Len(y) : y[k] = x[k]
    BY <2>1, <2>2, <1>2, <1>3
  <2> QED
    BY <2>1, <2>2, <2>3, SameMem
<1>7. \E rest \in Mem : Drop(s, a) = x \o rest
  <2>1. PICK d \in Mem : d = Drop(s, a) /\ Len(d) = Len(s) - a /\ \A k \in 1 .. Len(s) - a : d[k] = s[a + k]
    BY <1>5, MemDrop
  <2>2. PICK rest \in Mem : /\ rest = Drop(s, b) /\ Len(rest) = Len(s) - b
                            /\ \A k \in 1 .. Len(s) - b : rest[k] = s[b + k]
    BY <1>5, MemDrop
  <2>3. PICK y \in Mem : /\ y = x \o rest /\ Len(y) = Len(x) + Len(rest)
                         /\ \A k \in 1 .. Len(x) : y[k] = x[k]
                         /\ \A k \in 1 .. Len(rest) : y[Len(x) + k] = rest[k]
    <3>1. Joined(x \o rest, x, rest)
      BY MemJoin
    <3> QED
      BY <3>1, Zenon DEF Joined
  <2>4. Len(s) \in Nat /\ Len(x) \in Nat /\ a \in Nat /\ b \in Nat /\ b = a + Len(x) /\ b <= Len(s)
    BY <1>2, <1>3, <1>5
  <2>5. Len(d) = Len(y)
    BY <2>1, <2>2, <2>3, <2>4
  <2>6. ASSUME NEW k \in 1 .. Len(d) PROVE d[k] = y[k]
    <3>1. CASE k <= Len(x)
      BY <3>1, <2>1, <2>3, <2>4, <2>6, <1>2, <1>3
    <3>2. CASE k > Len(x)
      <4>1. PICK j \in 1 .. Len(rest) : k = Len(x) + j
        <5>1. k - Len(x) \in 1 .. Len(rest)
          BY <3>2, <2>1, <2>2, <2>4, <2>6
        <5> QED
          BY <5>1, <1>2
      <4>2. j \in 1 .. Len(s) - b /\ k \in 1 .. Len(s) - a /\ b + j = a + k
        BY <4>1, <2>1, <2>2, <2>4, <2>6
      <4>3. d[k] = s[a + k] /\ y[k] = rest[j] /\ rest[j] = s[b + j]
        BY <4>1, <4>2, <2>1, <2>2, <2>3
      <4> QED
        BY <4>2, <4>3
    <3> QED
      BY <3>1, <3>2, <2>4
  <2> QED
    BY <2>1, <2>3, <2>5, <2>6, SameMem
<1> QED
  BY <1>2, <1>3, <1>5, <1>6, <1>7 DEF PlacedIn, a, b

ArgEnds(f, types, mem) ==
    f = [i \in 0 .. Len(types) |->
            IF i = 0 THEN 0 ELSE f[i - 1] + lo_arg_size(types[i], Drop(mem, f[i - 1]))]

\* Arguments whose sizes can be told from their bytes are found where they were put.
LEMMA ArgsOf ==
    ASSUME NEW types \in Seq(Nat), NEW q \in Seq(Mem), Len(q) = Len(types),
           \A i \in 1 .. Len(q) : Whole(types[i], q[i])
    PROVE  ArgsIn(types, FlattenSeq(q)) = q
<1>1. PICK s \in Mem : s = FlattenSeq(q) /\ \E o : Places(s, q, o)
  BY FlattenSeqPlaces DEF Mem
<1>2. PICK o : Places(s, q, o)
  BY <1>1
<1>3. PICK n \in Nat : n = Len(q) /\ n = Len(types)
  OBVIOUS
<1>4. \A i \in 1 .. n : o[i] = o[i - 1] + lo_arg_size(types[i], Drop(s, o[i - 1]))
  <2> SUFFICES ASSUME NEW i \in 1 .. n
               PROVE  o[i] = o[i - 1] + lo_arg_size(types[i], Drop(s, o[i - 1]))
    OBVIOUS
  <2>1. PICK rest \in Mem : Drop(s, o[i - 1]) = q[i] \o rest /\ o[i] = o[i - 1] + Len(q[i])
    <3>1. i \in 1 .. Len(q)
      BY <1>3
    <3>2. /\ o[i] = o[i - 1] + Len(q[i])
          /\ \E rest \in Mem : Drop(s, o[i - 1]) = q[i] \o rest
      <4>1. PlacedIn(s, q, o, i)
        BY <3>1, <1>2, PlacedAt
      <4> QED
        BY <4>1, Zenon DEF PlacedIn
    <3> QED
      BY <3>2, Zenon
  <2>2. lo_arg_size(types[i], q[i] \o rest) = Len(q[i])
    BY <1>3 DEF Whole
  <2> QED
    BY <2>1, <2>2, Zenon
<1>5. ArgEnds(o, types, s)
  <2>1. o \in [0 .. n -> Nat] /\ o[0] = 0
    BY <1>2, <1>3 DEF Places
  <2>2. \A i \in 0 .. n : o[i] = IF i = 0 THEN 0
                                 ELSE o[i - 1] + lo_arg_size(types[i], Drop(s, o[i - 1]))
    BY <2>1, <1>4
  <2> QED
    BY <2>1, <2>2, <1>3 DEF ArgEnds
<1> DEFINE c == CHOOSE f : ArgEnds(f, types, s)
<1>6. ArgEnds(c, types, s)
  BY <1>5, Zenon
<1>7. ArgsIn(types, s) = [i \in 1 .. n |-> SubSeq(s, c[i - 1] + 1, c[i])]
  BY <1>3 DEF ArgsIn, ArgEnds
<1> HIDE DEF c
<1>8. c[0] = o[0] /\ \A i \in 1 .. n : c[i - 1] = o[i - 1] => c[i] = o[i]
  <2>1. \A i \in 0 .. n : c[i] = IF i = 0 THEN 0
                                 ELSE c[i - 1] + lo_arg_size(types[i], Drop(s, c[i - 1]))
    BY <1>3, <1>6 DEF ArgEnds
  <2>2. o[0] = 0
    BY <1>2 DEF Places
  <2>3. 0 \in 0 .. n /\ \A i \in 1 .. n : i \in 0 .. n /\ i # 0
    OBVIOUS
  <2> QED
    BY <2>1, <2>2, <2>3, <1>4
<1>9. \A i \in 0 .. n : c[i] = o[i]
  <2>1. Steps(c, o, n)
    BY <1>8, Zenon DEF Steps
  <2>2. Alike(c, o, n)
    BY <2>1, StepsAlike
  <2> QED
    BY <2>2, Zenon DEF Alike
<1>10. \A i \in 1 .. n : SubSeq(s, c[i - 1] + 1, c[i]) = q[i]
  <2> SUFFICES ASSUME NEW i \in 1 .. n PROVE SubSeq(s, c[i - 1] + 1, c[i]) = q[i]
    OBVIOUS
  <2>1. i \in 0 .. n /\ i - 1 \in 0 .. n /\ i \in 1 .. Len(q)
    BY <1>3
  <2>2. SubSeq(s, o[i - 1] + 1, o[i]) = q[i]
    <3>1. PlacedIn(s, q, o, i)
      BY <2>1, <1>2, PlacedAt
    <3> QED
      BY <3>1, Zenon DEF PlacedIn
  <2> QED
    BY <2>1, <2>2, <1>9
<1>11. q = [i \in 1 .. n |-> q[i]]
  BY <1>3
<1> QED
  BY <1>1, <1>7, <1>10, <1>11

LegalEnds(f, types, mem) ==
    f = [i \in 0 .. Len(types) |->
            IF i = 0 THEN 0
            ELSE LET len == lo_validate_arg(types[i], Drop(mem, f[i - 1]))
                 IN  IF f[i - 1] < 0 \/ len < 0 THEN -1 ELSE f[i - 1] + len]

\* What Deserialised does once the ends of the arguments are known.
LEMMA DeserialisedIs ==
    ASSUME NEW types \in Seq(Nat), NEW mem \in Mem, NEW o, LegalEnds(o, types, mem)
    PROVE  LET n == Len(types) IN
           Deserialised(types, mem) =
               IF o[n] < 0 THEN Refused("LO_EINVALIDARG")
               ELSE IF o[n] # Len(mem) THEN Refused("LO_ESIZE")
               ELSE [error |-> "none",
                     argv |-> [i \in 1 .. n |->
                                  Swapped(types[i], SubSeq(mem, o[i - 1] + 1, o[i]))]]
<1> DEFINE c == CHOOSE f : LegalEnds(f, types, mem)
<1>1. LegalEnds(c, types, mem)
  BY Zenon
<1>2. Deserialised(types, mem) =
          IF c[Len(types)] < 0 THEN Refused("LO_EINVALIDARG")
          ELSE IF c[Len(types)] # Len(mem) THEN Refused("LO_ESIZE")
          ELSE [error |-> "none",
                argv |-> [i \in 1 .. Len(types) |->
                             Swapped(types[i], SubSeq(mem, c[i - 1] + 1, c[i]))]]
  BY DEF Deserialised, LegalEnds
<1> HIDE DEF c
<1>3. PICK n \in Nat : n = Len(types)
  OBVIOUS
<1> DEFINE Next(i, e) == LET len == lo_validate_arg(types[i], Drop(mem, e))
                         IN  IF e < 0 \/ len < 0 THEN -1 ELSE e + len
<1>4. /\ \A i \in 0 .. n : c[i] = IF i = 0 THEN 0 ELSE Next(i, c[i - 1])
      /\ \A i \in 0 .. n : o[i] = IF i = 0 THEN 0 ELSE Next(i, o[i - 1])
  BY <1>1, <1>3 DEF LegalEnds
<1>5. 0 \in 0 .. n /\ \A i \in 1 .. n : i \in 0 .. n /\ i # 0 /\ i - 1 \in 0 .. n
  OBVIOUS
<1> HIDE DEF Next
<1>6. \A i \in 0 .. n : c[i] = o[i]
  <2>1. c[0] = o[0] /\ \A i \in 1 .. n : c[i - 1] = o[i - 1] => c[i] = o[i]
    BY <1>4, <1>5
  <2> QED
    <3>1. Steps(c, o, n)
      BY <2>1, Zenon DEF Steps
    <3>2. Alike(c, o, n)
      BY <3>1, StepsAlike
    <3> QED
      BY <3>2, Zenon DEF Alike
<1>7. c[n] = o[n]
  BY <1>6
<1>8. [i \in 1 .. n |-> Swapped(types[i], SubSeq(mem, c[i - 1] + 1, c[i]))]
        = [i \in 1 .. n |-> Swapped(types[i], SubSeq(mem, o[i - 1] + 1, o[i]))]
  BY <1>5, <1>6
<1> QED
  BY <1>2, <1>3, <1>7, <1>8

\* Arguments that are legal, one after another, are accepted.
LEMMA DeserialisedAccepts ==
    ASSUME NEW types \in Seq(Nat), NEW q \in Seq(Mem), Len(q) = Len(types),
           \A i \in 1 .. Len(q) : Legal(types[i], q[i])
    PROVE  Deserialised(types, FlattenSeq(q)) =
               [error |-> "none", argv |-> [i \in 1 .. Len(q) |-> Swapped(types[i], q[i])]]
<1>1. PICK s \in Mem : s = FlattenSeq(q) /\ \E o : Places(s, q, o)
  BY FlattenSeqPlaces DEF Mem
<1>2. PICK o : Places(s, q, o)
  BY <1>1
<1>3. PICK n \in Nat : n = Len(q) /\ n = Len(types)
  OBVIOUS
<1>4. ASSUME NEW i \in 1 .. n
      PROVE  /\ o[i - 1] \in Nat /\ o[i] = o[i - 1] + Len(q[i]) /\ Len(q[i]) \in Nat
             /\ lo_validate_arg(types[i], Drop(s, o[i - 1])) = Len(q[i])
             /\ SubSeq(s, o[i - 1] + 1, o[i]) = q[i]
  <2>1. i \in 1 .. Len(q)
    BY <1>3
  <2>2. /\ o[i - 1] \in Nat /\ o[i] = o[i - 1] + Len(q[i]) /\ Len(q[i]) \in Nat
        /\ \E rest \in Mem : Drop(s, o[i - 1]) = q[i] \o rest
        /\ SubSeq(s, o[i - 1] + 1, o[i]) = q[i]
    <3>1. PlacedIn(s, q, o, i)
      BY <2>1, <1>2, PlacedAt
    <3> QED
      BY <3>1, Zenon DEF PlacedIn
  <2>3. PICK rest \in Mem : Drop(s, o[i - 1]) = q[i] \o rest
    BY <2>2
  <2>4. lo_validate_arg(types[i], q[i] \o rest) = Len(q[i])
    BY <2>1 DEF Legal
  <2> QED
    BY <2>2, <2>3, <2>4, Zenon
<1>5. LegalEnds(o, types, s)
  <2>1. o \in [0 .. n -> Nat] /\ o[0] = 0
    BY <1>2, <1>3 DEF Places
  <2>2. \A i \in 0 .. n : o[i] =
            IF i = 0 THEN 0
            ELSE LET len == lo_validate_arg(types[i], Drop(s, o[i - 1]))
                 IN  IF o[i - 1] < 0 \/ len < 0 THEN -1 ELSE o[i - 1] + len
    <3> SUFFICES ASSUME NEW i \in 0 .. n, i # 0
                 PROVE  o[i] = LET len == lo_validate_arg(types[i], Drop(s, o[i - 1]))
                               IN  IF o[i - 1] < 0 \/ len < 0 THEN -1 ELSE o[i - 1] + len
      BY <2>1
    <3>1. i \in 1 .. n
      OBVIOUS
    <3>2. /\ o[i - 1] \in Nat /\ o[i] = o[i - 1] + Len(q[i]) /\ Len(q[i]) \in Nat
          /\ lo_validate_arg(types[i], Drop(s, o[i - 1])) = Len(q[i])
      BY <3>1, <1>4
    <3> QED
      BY <3>2
  <2> QED
    BY <2>1, <2>2, <1>3 DEF LegalEnds
<1>6. o[n] = Len(s) /\ Len(s) \in Nat
  BY <1>2, <1>3 DEF Places, Mem
<1>7. [i \in 1 .. n |-> Swapped(types[i], SubSeq(s, o[i - 1] + 1, o[i]))]
        = [i \in 1 .. n |-> Swapped(types[i], q[i])]
  BY <1>4
<1>8. Deserialised(types, s) =
          IF o[n] < 0 THEN Refused("LO_EINVALIDARG")
          ELSE IF o[n] # Len(s) THEN Refused("LO_ESIZE")
          ELSE [error |-> "none",
                argv |-> [i \in 1 .. n |->
                             Swapped(types[i], SubSeq(s, o[i - 1] + 1, o[i]))]]
  BY <1>3, <1>5, DeserialisedIs
<1>9. ~(o[n] < 0)
  BY <1>6
<1> QED
  BY <1>1, <1>3, <1>6, <1>7, <1>8, <1>9

LEMMA ValidateInt ==
    ASSUME NEW type, NEW mem \in Mem
    PROVE  lo_validate_arg(type, mem) \in Nat \cup {-1}
<1>1. lo_validate_string(mem) \in Nat \cup {-1}
  <2>1. CASE StrLen(mem) < 0
    BY <2>1 DEF lo_validate_string
  <2>2. CASE ~(StrLen(mem) < 0)
    <3>1. StrLen(mem) \in Nat
      BY <2>2, StrLenIs DEF Mem
    <3>2. lo_strsize(StrLen(mem)) \in Nat
      BY <3>1, StrSizeIs
    <3> QED
      BY <3>2 DEF lo_validate_string
  <2> QED
    BY <2>1, <2>2
<1>2. lo_validate_blob(mem) \in Nat \cup {-1}
  <2>1. CASE Len(mem) < 4
    BY <2>1 DEF lo_validate_blob
  <2>2. CASE ~(Len(mem) < 4)
    <3>1. Len(mem) >= 4
      BY <2>2 DEF Mem
    <3>2. lo_blobsize(Length32(mem)) \in Nat
      BY <3>1, Length32Nat, BlobSizeIs
    <3> QED
      BY <3>2 DEF lo_validate_blob
  <2> QED
    BY <2>1, <2>2
<1>3. type \in Empty \/ type \in Four \/ type \in Eight \/ type \in lo_string_types
        \/ type = LO_BLOB \/ type \notin Type
  BY DEF Type
<1> QED
  BY <1>1, <1>2, <1>3, ValidateCases

\* What is accepted is cut into pieces that are arguments of their types.
LEMMA AcceptedArgs ==
    ASSUME NEW types \in Seq(Nat), NEW mem \in Mem, Deserialised(types, mem).error = "none"
    PROVE  \E q \in Seq(Mem) :
              /\ Len(q) = Len(types) /\ FlattenSeq(q) = mem
              /\ Deserialised(types, mem).argv
                    = [i \in 1 .. Len(types) |-> Swapped(types[i], q[i])]
              /\ \A i \in 1 .. Len(types) : /\ types[i] \in Type /\ Enough(types[i], q[i])
                                            /\ Whole(types[i], Swapped(types[i], q[i]))
<1>1. PICK n \in Nat : n = Len(types)
  OBVIOUS
<1>2. PICK L \in Nat : L = Len(mem)
  BY DEF Mem
<1> DEFINE S == -1 .. L
           After(i, e) == LET len == lo_validate_arg(types[i], Drop(mem, e))
                          IN  IF e < 0 \/ len < 0 THEN -1 ELSE e + len
           g == [i \in 1 .. n |-> [e \in S |-> After(i, e)]]
<1>3. ASSUME NEW i \in 1 .. n, NEW e \in S, e >= 0
      PROVE  LET len == lo_validate_arg(types[i], Drop(mem, e)) IN
             /\ Drop(mem, e) \in Mem /\ len \in Nat \cup {-1}
             /\ len >= 0 => /\ types[i] \in Type /\ len \in Nat /\ e + len <= L
                            /\ Enough(types[i], SubSeq(mem, e + 1, e + len))
                            /\ SubSeq(mem, e + 1, e + len) \in Mem
                            /\ Len(SubSeq(mem, e + 1, e + len)) = len
                            /\ Whole(types[i], Swapped(types[i], SubSeq(mem, e + 1, e + len)))
  <2>1. e \in Nat /\ e <= Len(mem)
    BY <1>2, <1>3
  <2>2. PICK d \in Mem : d = Drop(mem, e) /\ Len(d) = Len(mem) - e
                         /\ \A k \in 1 .. Len(mem) - e : d[k] = mem[e + k]
    BY <2>1, MemDrop
  <2>3. lo_validate_arg(types[i], d) \in Nat \cup {-1}
    BY ValidateInt
  <2>4. ASSUME lo_validate_arg(types[i], d) >= 0
        PROVE  LET len == lo_validate_arg(types[i], d) IN
               /\ types[i] \in Type /\ len \in Nat /\ e + len <= L
               /\ Enough(types[i], SubSeq(mem, e + 1, e + len))
               /\ SubSeq(mem, e + 1, e + len) \in Mem
               /\ Len(SubSeq(mem, e + 1, e + len)) = len
               /\ Whole(types[i], Swapped(types[i], SubSeq(mem, e + 1, e + len)))
    <3>1. PICK len \in Nat : len = lo_validate_arg(types[i], d)
      BY <2>3, <2>4
    <3>2. PICK x \in Mem : /\ x = SubSeq(d, 1, len) /\ Len(x) = len /\ len <= Len(d)
                           /\ types[i] \in Type /\ Enough(types[i], x)
                           /\ Whole(types[i], Swapped(types[i], x))
      BY <3>1, <2>4, ValidArg, Zenon
    <3>3. e + len \in Nat /\ e <= e + len /\ e + len <= Len(mem) /\ (e + len) - e = len
      BY <3>2, <2>1, <2>2, <1>2
    <3>4. PICK y \in Mem : /\ y = SubSeq(mem, e + 1, e + len) /\ Len(y) = (e + len) - e
                           /\ \A k \in 1 .. (e + len) - e : y[k] = mem[e + k]
      <4>1. CutFrom(SubSeq(mem, e + 1, e + len), mem, e, e + len)
        BY <3>3, <2>1, MemCutFrom
      <4> QED
        BY <4>1, Zenon DEF CutFrom
    <3>5. x = y
      <4>1. \A k \in 1 .. len : x[k] = d[k]
        <5>1. 0 \in Nat /\ 0 <= len /\ len - 0 = len /\ 0 + 1 = 1
          OBVIOUS
        <5>2. /\ Len(SubSeq(d, 0 + 1, len)) = len - 0
              /\ \A k \in 1 .. len - 0 : SubSeq(d, 0 + 1, len)[k] = d[0 + k]
          BY <5>1, <3>2, MemPiece
        <5>3. \A k \in 1 .. len : 0 + k = k
          OBVIOUS
        <5> QED
          BY <5>1, <5>2, <5>3, <3>2
      <4>2. ASSUME NEW k \in 1 .. len PROVE x[k] = y[k]
        <5>1. k \in 1 .. Len(mem) - e
          BY <3>2, <2>1, <2>2, <1>2
        <5> QED
          BY <5>1, <4>1, <2>2, <3>3, <3>4
      <4>3. Len(x) = Len(y) /\ Len(x) = len
        BY <3>2, <3>3, <3>4
      <4> QED
        BY <4>2, <4>3, SameMem
    <3>6. /\ types[i] \in Type /\ Enough(types[i], y) /\ Whole(types[i], Swapped(types[i], y))
          /\ Len(y) = len /\ y \in Mem /\ len \in Nat /\ e + len <= L
      BY <3>2, <3>3, <3>4, <3>5, <1>2
    <3> QED
      BY <3>1, <3>4, <3>6, Zenon
  <2> QED
    BY <2>2, <2>3, <2>4, Zenon
<1>4. \A i \in 1 .. n : \A e \in S : g[i][e] = After(i, e) /\ After(i, e) \in S
  <2> SUFFICES ASSUME NEW i \in 1 .. n, NEW e \in S PROVE g[i][e] = After(i, e) /\ After(i, e) \in S
    OBVIOUS
  <2>1. g[i][e] = After(i, e)
    <3> HIDE DEF After
    <3> QED
      OBVIOUS
  <2> HIDE DEF g
  <2>2. CASE e < 0
    BY <2>1, <2>2
  <2>3. CASE ~(e < 0)
    <3>1. e >= 0
      BY <2>3
    <3>2. PICK len \in Nat \cup {-1} : /\ len = lo_validate_arg(types[i], Drop(mem, e))
                                       /\ len >= 0 => e + len <= L
      BY <3>1, <1>3
    <3> QED
      BY <2>1, <3>1, <3>2
  <2> QED
    BY <2>2, <2>3
<1>5. PICK o \in [0 .. n -> S] : Iterates(o, n, 0, g)
  <2>1. 0 \in S
    OBVIOUS
  <2>2. \A i \in 1 .. n : \A e \in S : g[i][e] \in S
    BY <1>4
  <2> HIDE DEF g, S
  <2> QED
    BY <2>1, <2>2, IterationInto
<1> HIDE DEF g
<1>6. o[0] = 0 /\ \A i \in 1 .. n : o[i] = After(i, o[i - 1]) /\ o[i - 1] \in S /\ o[i] \in S
  <2>1. \A i \in 0 .. n : o[i] = IF i = 0 THEN 0 ELSE g[i][o[i - 1]]
    BY <1>5 DEF Iterates
  <2>2. 0 \in 0 .. n /\ \A i \in 1 .. n : i \in 0 .. n /\ i # 0 /\ i - 1 \in 0 .. n
    OBVIOUS
  <2> HIDE DEF After, S
  <2>3. \A i \in 1 .. n : o[i - 1] \in S /\ o[i] \in S
    BY <2>2
  <2> QED
    BY <2>1, <2>2, <2>3, <1>4
<1>7. LegalEnds(o, types, mem)
  <2>1. \A i \in 0 .. n : o[i] = IF i = 0 THEN 0 ELSE After(i, o[i - 1])
    <3> HIDE DEF After
    <3>1. \A i \in 0 .. n : i = 0 \/ i \in 1 .. n
      OBVIOUS
    <3> QED
      BY <3>1, <1>6
  <2>2. o = [i \in 0 .. n |-> IF i = 0 THEN 0 ELSE After(i, o[i - 1])]
    <3> HIDE DEF After, S
    <3> QED
      BY <2>1
  <2> QED
    BY <2>2, <1>1 DEF LegalEnds
<1> DEFINE argv == [i \in 1 .. n |-> Swapped(types[i], SubSeq(mem, o[i - 1] + 1, o[i]))]
<1>8. o[n] = L /\ Deserialised(types, mem) = [error |-> "none", argv |-> argv]
  <2> HIDE DEF argv
  <2>1. Deserialised(types, mem) =
            IF o[n] < 0 THEN Refused("LO_EINVALIDARG")
            ELSE IF o[n] # L THEN Refused("LO_ESIZE")
            ELSE [error |-> "none", argv |-> argv]
    BY <1>1, <1>2, <1>7, DeserialisedIs DEF argv
  <2>2. Refused("LO_EINVALIDARG").error # "none" /\ Refused("LO_ESIZE").error # "none"
    BY DEF Refused
  <2> QED
    BY <2>1, <2>2
<1> HIDE DEF argv
<1>9. \A i \in 0 .. n : o[i] >= 0
  <2> DEFINE Bad == {i \in 0 .. n : o[i] < 0}
  <2>1. ASSUME Bad # {} PROVE FALSE
    <3>1. Bad \in SUBSET (0 .. n)
      OBVIOUS
    <3>2. PICK m \in Bad : \A k \in Bad : k <= m
      <4> HIDE DEF Bad
      <4> QED
        BY <3>1, <2>1, GreatestNat
    <3>3. m \in 0 .. n /\ o[m] < 0
      OBVIOUS
    <3>4. m # n
      BY <3>3, <1>8
    <3>5. m + 1 \in 1 .. n /\ (m + 1) - 1 = m
      BY <3>3, <3>4
    <3>6. o[m + 1] = -1
      BY <3>3, <3>5, <1>6
    <3>7. m + 1 \in Bad
      BY <3>5, <3>6
    <3> HIDE DEF Bad
    <3> QED
      BY <3>2, <3>3, <3>7
  <2>2. \A i \in 0 .. n : o[i] \in S /\ ~(o[i] < 0)
    BY <2>1
  <2>3. \A e \in S : ~(e < 0) => e >= 0
    OBVIOUS
  <2> HIDE DEF S
  <2> QED
    BY <2>2, <2>3
<1>10. ASSUME NEW i \in 1 .. n
       PROVE  LET x == SubSeq(mem, o[i - 1] + 1, o[i]) IN
              /\ o[i - 1] \in Nat /\ o[i] \in Nat /\ o[i - 1] <= o[i] /\ o[i] <= L
              /\ x \in Mem /\ o[i] = o[i - 1] + Len(x)
              /\ types[i] \in Type /\ Enough(types[i], x) /\ Whole(types[i], Swapped(types[i], x))
  <2>1. PICK e \in S : e = o[i - 1] /\ e >= 0 /\ e \in Nat
    <3>1. i - 1 \in 0 .. n
      OBVIOUS
    <3> QED
      BY <3>1, <1>9
  <2>2. PICK len \in Nat \cup {-1} : len = lo_validate_arg(types[i], Drop(mem, e))
    BY <2>1, <1>3
  <2>3. o[i] >= 0 /\ o[i] = After(i, e)
    <3>1. i \in 0 .. n
      OBVIOUS
    <3> HIDE DEF After
    <3> QED
      BY <3>1, <2>1, <1>6, <1>9
  <2>4. len >= 0 /\ o[i] = e + len
    BY <2>1, <2>2, <2>3
  <2> DEFINE x == SubSeq(mem, e + 1, e + len)
  <2>5. /\ types[i] \in Type /\ len \in Nat /\ e + len <= L
        /\ Enough(types[i], x) /\ x \in Mem /\ Len(x) = len
        /\ Whole(types[i], Swapped(types[i], x))
    BY <2>1, <2>2, <2>4, <1>3
  <2> HIDE DEF x
  <2>6. e \in Nat /\ e + len \in Nat /\ e <= e + len
    <3>1. e \in Nat
      BY <2>1, Zenon
    <3>2. len \in Nat
      BY <2>5, Zenon
    <3> QED
      BY <3>1, <3>2
  <2> QED
    BY <2>1, <2>4, <2>5, <2>6, Zenon DEF x
<1> DEFINE Piece(i) == SubSeq(mem, o[i - 1] + 1, o[i])
           q == [i \in 1 .. n |-> Piece(i)]
<1>11. q \in Seq(Mem) /\ Len(q) = n /\ \A i \in 1 .. n : q[i] = SubSeq(mem, o[i - 1] + 1, o[i])
  <2>1. \A i \in 1 .. n : Piece(i) \in Mem
    BY <1>10
  <2> HIDE DEF Piece
  <2>2. q \in Seq(Mem) /\ Len(q) = n /\ \A i \in 1 .. n : q[i] = Piece(i)
    BY <2>1
  <2> HIDE DEF q
  <2> QED
    BY <2>2, Zenon DEF Piece
<1> HIDE DEF q
<1>12. Places(mem, q, o)
  <2>1. o \in [0 .. n -> Nat]
    BY <1>9
  <2>2. ASSUME NEW i \in 1 .. n
        PROVE  o[i] = o[i - 1] + Len(q[i]) /\ \A k \in 1 .. Len(q[i]) : mem[o[i - 1] + k] = q[i][k]
    <3>1. /\ o[i - 1] \in Nat /\ o[i] \in Nat /\ o[i - 1] <= o[i] /\ o[i] <= Len(mem)
          /\ o[i] = o[i - 1] + Len(q[i])
      BY <1>2, <1>10, <1>11
    <3>4. CutFrom(SubSeq(mem, o[i - 1] + 1, o[i]), mem, o[i - 1], o[i])
      <4>1. PICK a \in Nat, b \in Nat : a = o[i - 1] /\ b = o[i] /\ a <= b /\ b <= Len(mem)
        BY <3>1
      <4>2. CutFrom(SubSeq(mem, a + 1, b), mem, a, b)
        BY <4>1, MemCutFrom
      <4> QED
        BY <4>1, <4>2, Zenon
    <3>2. \A k \in 1 .. o[i] - o[i - 1] : SubSeq(mem, o[i - 1] + 1, o[i])[k] = mem[o[i - 1] + k]
      BY <3>4, Zenon DEF CutFrom
    <3>3. Len(q[i]) = o[i] - o[i - 1]
      <4>1. Len(SubSeq(mem, o[i - 1] + 1, o[i])) = o[i] - o[i - 1]
        BY <3>4, Zenon DEF CutFrom
      <4> QED
        BY <4>1, <1>11
    <3> QED
      BY <3>1, <3>2, <3>3, <1>11
  <2> QED
    BY <2>1, <2>2, <1>2, <1>6, <1>8, <1>11 DEF Places
<1>13. FlattenSeq(q) = mem
  <2>1. FlattenSeq(q) \in Mem /\ \E u : Places(FlattenSeq(q), q, u)
    BY <1>11, FlattenSeqPlaces DEF Mem
  <2> QED
    BY <2>1, <1>11, <1>12, PlacesUnique DEF Mem
<1>14. argv = [i \in 1 .. n |-> Swapped(types[i], q[i])]
  BY <1>11 DEF argv
<1>15. \A i \in 1 .. n : /\ types[i] \in Type /\ Enough(types[i], q[i])
                         /\ Whole(types[i], Swapped(types[i], q[i]))
  BY <1>10, <1>11
<1> QED
  BY <1>1, <1>8, <1>11, <1>13, <1>14, <1>15

AcceptedIn(types, mem) ==
    \E q \in Seq(Mem) :
       /\ Len(q) = Len(types) /\ FlattenSeq(q) = mem
       /\ Deserialised(types, mem).argv = [i \in 1 .. Len(types) |-> Swapped(types[i], q[i])]
       /\ \A i \in 1 .. Len(types) : /\ types[i] \in Type /\ Enough(types[i], q[i])
                                     /\ Whole(types[i], Swapped(types[i], q[i]))

LEMMA ArgsAccepted ==
    ASSUME NEW types \in Seq(Nat), NEW mem \in Mem, Deserialised(types, mem).error = "none"
    PROVE  AcceptedIn(types, mem)
BY AcceptedArgs DEF AcceptedIn

-----------------------------------------------------------------------------
(* What is accepted says one thing only *)

\* Serialising a message: path, types and the arguments turned about.
LEMMA SerialisedIs ==
    ASSUME NEW m, NEW p, NEW q \in Seq(Mem), lo_message_get_argv(m) = q
    PROVE  lo_message_serialise(m, p) =
               Padded(p) \o Padded(m.types)
                 \o FlattenSeq([i \in 1 .. Len(q) |-> Swapped(m.types[i + 1], q[i])])
<1>1. DOMAIN q = 1 .. Len(q)
  OBVIOUS
<1> QED
  BY <1>1, Zenon DEF lo_message_serialise

LEMMA MemCut ==
    ASSUME NEW mem \in Mem, NEW n \in Nat, n <= Len(mem)
    PROVE  SubSeq(mem, 1, n) \in Mem /\ SubSeq(mem, 1, n) \o Drop(mem, n) = mem
<1>1. PICK x \in Mem : x = SubSeq(mem, 1, n) /\ Len(x) = n /\ \A i \in 1 .. n : x[i] = mem[i]
  <2>1. 0 \in Nat /\ 0 <= n /\ n - 0 = n /\ 0 + 1 = 1 /\ \A i \in 1 .. n : 0 + i = i
    OBVIOUS
  <2>2. /\ SubSeq(mem, 0 + 1, n) \in Mem /\ Len(SubSeq(mem, 0 + 1, n)) = n - 0
        /\ \A i \in 1 .. n - 0 : SubSeq(mem, 0 + 1, n)[i] = mem[0 + i]
    BY <2>1, MemPiece
  <2>3. /\ SubSeq(mem, 1, n) \in Mem /\ Len(SubSeq(mem, 1, n)) = n
        /\ \A i \in 1 .. n : SubSeq(mem, 1, n)[i] = mem[i]
    BY <2>1, <2>2, Zenon
  <2> QED
    BY <2>3, Zenon
<1>2. PICK y \in Mem : /\ y = Drop(mem, n) /\ Len(y) = Len(mem) - n
                       /\ \A i \in 1 .. Len(mem) - n : y[i] = mem[n + i]
  BY MemDrop
<1>3. PICK z \in Mem : /\ z = x \o y /\ Len(z) = Len(x) + Len(y)
                       /\ \A i \in 1 .. Len(x) : z[i] = x[i]
                       /\ \A i \in 1 .. Len(y) : z[Len(x) + i] = y[i]
  <2>1. Joined(x \o y, x, y)
    BY MemJoin
  <2> QED
    BY <2>1, Zenon DEF Joined
<1>4. Len(mem) \in Nat
  BY DEF Mem
<1>5. Len(z) = Len(mem)
  BY <1>1, <1>2, <1>3, <1>4
<1>6. ASSUME NEW i \in 1 .. Len(z) PROVE z[i] = mem[i]
  <2>1. CASE i <= n
    <3>1. i \in 1 .. n /\ i \in 1 .. Len(x)
      BY <2>1, <1>1, <1>4, <1>5
    <3> QED
      BY <3>1, <1>1, <1>3
  <2>2. CASE ~(i <= n)
    <3>1. PICK j \in 1 .. Len(mem) - n : i = n + j
      <4>1. i - n \in 1 .. Len(mem) - n /\ i = n + (i - n)
        BY <2>2, <1>4, <1>5
      <4> QED
        BY <4>1
    <3>2. j \in 1 .. Len(y) /\ Len(x) + j = i
      BY <3>1, <1>1, <1>2
    <3> QED
      BY <3>1, <3>2, <1>2, <1>3
  <2> QED
    BY <2>1, <2>2
<1> QED
  BY <1>1, <1>2, <1>3, <1>5, <1>6, SameMem

LEMMA ConcatThree ==
    \A x, y, z \in Mem : (x \o y) \o z = x \o (y \o z)
BY DEF Mem

ConcatAlike(x, y, z) == (x \o y) \o z = x \o (y \o z)

LEMMA ConcatsAlike ==
    ASSUME NEW x \in Mem, NEW y \in Mem, NEW z \in Mem
    PROVE  ConcatAlike(x, y, z)
BY ConcatThree DEF ConcatAlike

LEMMA TailIs ==
    ASSUME NEW types \in Seq(Nat), types # <<>>
    PROVE  /\ Tail(types) \in Seq(Nat) /\ Len(Tail(types)) = Len(types) - 1
           /\ \A i \in 1 .. Len(types) - 1 : Tail(types)[i] = types[i + 1]
OBVIOUS

LEMMA ValidStringInt ==
    ASSUME NEW mem \in Mem
    PROVE  /\ lo_validate_string(mem) \in Nat \cup {-1}
           /\ mem = <<>> => lo_validate_string(mem) = -1
<1>1. LO_STRING \in lo_string_types
  BY DEF lo_string_types
<1>2. lo_validate_string(mem) \in Nat \cup {-1}
  BY <1>1, ValidateInt, ValidateCases
<1>3. ASSUME mem = <<>>, lo_validate_string(mem) >= 0 PROVE FALSE
  <2>1. PICK a \in Nat : a < lo_validate_string(mem) /\ lo_validate_string(mem) <= Len(mem)
    BY <1>3, ValidString
  <2>2. Len(mem) = 0
    BY <1>3
  <2> QED
    BY <2>1, <2>2, <1>2
<1> QED
  BY <1>2, <1>3

LEMMA AcceptedBytes ==
    ASSUME NEW mem \in Mem, lo_message_deserialise(mem).error = "none"
    PROVE  lo_message_serialise(lo_message_deserialise(mem), lo_get_path(mem)) = mem
<1> DEFINE n == lo_validate_string(mem)
           rest == Drop(mem, n)
           k == lo_validate_string(rest)
           types == SubSeq(rest, 1, StrLen(rest))
           data == Drop(rest, k)
           args == Deserialised(Tail(types), data)
           m == lo_message_deserialise(mem)
<1>0. /\ n \in Nat \cup {-1} /\ (mem = <<>> => n = -1)
      /\ n >= 0 => rest \in Mem /\ k \in Nat \cup {-1} /\ (rest = <<>> => k = -1)
  <2>1. n \in Nat \cup {-1} /\ (mem = <<>> => n = -1)
    BY ValidStringInt
  <2>2. ASSUME n >= 0 PROVE rest \in Mem
    <3>1. n \in Nat /\ n <= Len(mem)
      BY <2>1, <2>2, ValidString
    <3> QED
      BY <3>1, MemDrop
  <2> HIDE DEF rest, n
  <2> QED
    BY <2>1, <2>2, ValidStringInt
<1>1. /\ n >= 0 /\ k >= 0 /\ rest[1] = Comma /\ rest # <<>> /\ args.error = "none"
      /\ m = [error |-> "none", argv |-> args.argv, types |-> types, typesize |-> k,
              data |-> FlattenSeq(args.argv), datasize |-> Len(rest) - k]
  <2> HIDE DEF n, rest, k, types, data, args
  <2>0. \A e : Refused(e).error = e
    BY DEF Refused
  <2>1. m = CASE mem = <<>> -> Refused("LO_ESIZE")
            [] mem # <<>> /\ n < 0 -> Refused("LO_EINVALIDPATH")
            [] n >= 0 /\ rest = <<>> -> Refused("LO_ENOTYPE")
            [] n >= 0 /\ rest # <<>> /\ k < 0 -> Refused("LO_EINVALIDTYPE")
            [] n >= 0 /\ k >= 0 /\ rest[1] # Comma -> Refused("LO_EBADTYPE")
            [] n >= 0 /\ k >= 0 /\ rest[1] = Comma ->
                 IF args.error # "none" THEN args
                 ELSE [error |-> "none", argv |-> args.argv, types |-> types, typesize |-> k,
                       data |-> FlattenSeq(args.argv), datasize |-> Len(rest) - k]
    BY Zenon DEF lo_message_deserialise, n, rest, k, types, data, args
  <2>2. m.error = "none"
    OBVIOUS
  <2> HIDE DEF m
  <2>3. n \in Nat /\ mem # <<>>
    <3>1. n >= 0
      <4>1. CASE mem = <<>>
        BY <4>1, <2>0, <2>1, <2>2, <1>0
      <4>2. CASE mem # <<>> /\ n = -1
        BY <4>2, <2>0, <2>1, <2>2, <1>0
      <4> QED
        BY <4>1, <4>2, <1>0
    <3> QED
      BY <3>1, <1>0
  <2>4. k \in Nat /\ rest # <<>>
    <3>1. k \in Nat \cup {-1} /\ (rest = <<>> => k = -1)
      BY <2>3, <1>0
    <3>2. CASE rest = <<>>
      BY <3>1, <3>2, <2>0, <2>1, <2>2, <2>3
    <3>3. CASE rest # <<>> /\ k = -1
      BY <3>1, <3>3, <2>0, <2>1, <2>2, <2>3
    <3> QED
      BY <3>1, <3>2, <3>3
  <2>5. rest[1] = Comma
    BY <2>0, <2>1, <2>2, <2>3, <2>4
  <2>6. m = IF args.error # "none" THEN args
            ELSE [error |-> "none", argv |-> args.argv, types |-> types, typesize |-> k,
                  data |-> FlattenSeq(args.argv), datasize |-> Len(rest) - k]
    BY <2>1, <2>3, <2>4, <2>5
  <2>7. args.error = "none"
    BY <2>2, <2>6
  <2> QED
    BY <2>3, <2>4, <2>5, <2>6, <2>7
<1> HIDE DEF m
<1>2. /\ rest \in Mem /\ n \in Nat /\ n <= Len(mem)
      /\ SubSeq(mem, 1, n) = Padded(lo_get_path(mem))
  BY <1>0, <1>1, ValidString DEF lo_get_path
<1>3. /\ k \in Nat /\ k <= Len(rest) /\ types \in Str /\ SubSeq(rest, 1, k) = Padded(types)
      /\ StrLen(rest) \in Nat /\ Len(types) = StrLen(rest)
  <2> HIDE DEF rest
  <2> QED
    BY <1>0, <1>1, <1>2, ValidString
<1>4. types # <<>> /\ types \in Seq(Nat)
  <2>1. types \in Mem
    BY <1>3, Bytes
  <2>2. StrLen(rest) # 0
    <3>1. StrLen(rest) = -1 \/ rest[StrLen(rest) + 1] = 0
      <4> HIDE DEF rest
      <4> QED
        BY <1>2, StrLenIs
    <3>2. rest[1] # 0
      BY <1>1 DEF Comma
    <3> HIDE DEF rest
    <3> QED
      BY <3>1, <3>2
  <2> HIDE DEF types
  <2> QED
    BY <2>1, <2>2, <1>3 DEF Mem
<1>5. data \in Mem
  <2> HIDE DEF rest, k
  <2> QED
    BY <1>2, <1>3, MemDrop
<1>6. PICK tail \in Seq(Nat) : /\ tail = Tail(types) /\ Len(tail) = Len(types) - 1
                               /\ \A i \in 1 .. Len(types) - 1 : tail[i] = types[i + 1]
  <2> HIDE DEF types
  <2> QED
    BY <1>4, TailIs
<1>7. PICK q \in Seq(Mem) :
          /\ Len(q) = Len(tail) /\ FlattenSeq(q) = data
          /\ args.argv = [i \in 1 .. Len(tail) |-> Swapped(tail[i], q[i])]
          /\ \A i \in 1 .. Len(tail) : /\ tail[i] \in Type /\ Enough(tail[i], q[i])
                                       /\ Whole(tail[i], Swapped(tail[i], q[i]))
  <2>1. Deserialised(tail, data).error = "none"
    BY <1>1, <1>6
  <2> HIDE DEF data
  <2> QED
    <3>1. AcceptedIn(tail, data)
      BY <2>1, <1>5, <1>6, ArgsAccepted
    <3>2. args = Deserialised(tail, data)
      BY <1>6
    <3> QED
      BY <3>1, <3>2, Zenon DEF AcceptedIn
<1>8. PICK argv \in Seq(Mem) :
          /\ argv = args.argv /\ Len(argv) = Len(tail)
          /\ \A i \in 1 .. Len(tail) : argv[i] = Swapped(tail[i], q[i])
  <2> DEFINE v == [i \in 1 .. Len(tail) |-> Swapped(tail[i], q[i])]
  <2>1. \A i \in 1 .. Len(tail) : Swapped(tail[i], q[i]) \in Mem
    BY <1>7 DEF Whole
  <2>2. v \in Seq(Mem) /\ Len(v) = Len(tail) /\ \A i \in 1 .. Len(tail) : v[i] = Swapped(tail[i], q[i])
    BY <2>1
  <2>3. args.argv = v
    BY <1>7
  <2> HIDE DEF v, args
  <2> QED
    BY <2>2, <2>3
<1>9. lo_message_get_argv(m) = argv
  <2>1. m.types = types /\ m.data = FlattenSeq(argv)
    BY <1>1, <1>8
  <2>2. \A i \in 1 .. Len(argv) : Whole(tail[i], argv[i])
    BY <1>7, <1>8
  <2>3. ArgsIn(tail, FlattenSeq(argv)) = argv
    BY <2>2, <1>8, ArgsOf
  <2> QED
    BY <2>1, <2>3, <1>6, Zenon DEF lo_message_get_argv
<1>10. [i \in 1 .. Len(argv) |-> Swapped(m.types[i + 1], argv[i])] = q
  <2>1. m.types = types
    BY <1>1
  <2>2. ASSUME NEW i \in 1 .. Len(argv) PROVE Swapped(m.types[i + 1], argv[i]) = q[i]
    <3>1. i \in 1 .. Len(tail) /\ i \in 1 .. Len(types) - 1
      BY <1>6, <1>8
    <3>2. m.types[i + 1] = tail[i] /\ argv[i] = Swapped(tail[i], q[i])
      BY <3>1, <2>1, <1>6, <1>8
    <3>3. q[i] \in Mem
      BY <3>1, <1>7
    <3> QED
      BY <3>1, <3>2, <3>3, <1>7, SwappedTwice
  <2>3. q = [i \in 1 .. Len(argv) |-> q[i]]
    BY <1>7, <1>8
  <2> QED
    BY <2>2, <2>3
<1>11. lo_message_serialise(m, lo_get_path(mem))
          = Padded(lo_get_path(mem)) \o Padded(types) \o data
  <2>1. m.types = types
    BY <1>1
  <2> DEFINE p == lo_get_path(mem)
  <2> HIDE DEF p, types, data
  <2>2. lo_message_serialise(m, p) =
            Padded(p) \o Padded(m.types)
              \o FlattenSeq([i \in 1 .. Len(argv) |-> Swapped(m.types[i + 1], argv[i])])
    BY <1>9, SerialisedIs
  <2>3. lo_message_serialise(m, p) = Padded(p) \o Padded(m.types) \o FlattenSeq(q)
    BY <2>2, <1>10, Zenon
  <2> QED
    BY <2>1, <2>3, <1>7, Zenon DEF p
<1>12. Padded(types) \o data = rest
  <2> HIDE DEF rest, k
  <2> QED
    BY <1>2, <1>3, MemCut
<1>13. Padded(lo_get_path(mem)) \o rest = mem
  BY <1>2, MemCut
<1>14. \A x, y, z \in Mem : (x \o y) \o z = x \o (y \o z)
  BY ConcatThree
<1>15. Padded(lo_get_path(mem)) \in Mem /\ Padded(types) \in Mem
  <2>1. Padded(lo_get_path(mem)) \in Mem
    BY <1>2, MemCut
  <2>2. Padded(types) \in Mem
    <3> HIDE DEF rest, k
    <3> QED
      BY <1>2, <1>3, MemCut
  <2> QED
    BY <2>1, <2>2
<1> HIDE DEF data, types, rest
<1>16. lo_message_serialise(m, lo_get_path(mem)) = mem
  BY <1>5, <1>11, <1>12, <1>13, <1>14, <1>15, Zenon
<1> QED
  BY <1>16 DEF m

\* What AcceptedIsCanonical needs of the states: memory is bytes.
RawInv == raw \in Mem /\ cut \in Nat

LEMMA RawIsMemory == WireSpec => []RawInv
<1>1. WireInit => RawInv
  BY Bytes DEF WireInit, RawInv
<1>2. RawInv /\ [WireNext]_wireVars => RawInv'
  <2> SUFFICES ASSUME RawInv, [WireNext]_wireVars PROVE RawInv'
    OBVIOUS
  <2>1. CASE Receive
    <3>1. ASSUME NEW w \in Words, raw' = raw \o w, UNCHANGED cut PROVE RawInv'
      <4>1. w \in Mem
        BY WireAssumption, Bytes
      <4> QED
        BY <3>1, <4>1, MemConcat DEF RawInv
    <3>2. CASE raw # <<>> /\ cut' \in 1..3 /\ UNCHANGED raw
      BY <3>2 DEF RawInv
    <3> QED
      BY <2>1, <3>1, <3>2, Zenon DEF Receive
  <2>2. CASE UNCHANGED <<raw, cut>>
    BY <2>2 DEF RawInv
  <2>3. CASE \E type \in DOMAIN Args : \E a \in Args[type] :
                Add(type, a) \/ AddDataFails(type) \/ AddTypeFails(type, a)
    <3>1. UNCHANGED <<raw, cut>>
      BY <2>3, Zenon DEF Add, AddDataFails, AddTypeFails
    <3> QED
      BY <3>1, <2>2
  <2>4. CASE \E call \in Calls : lo_message_add(call) \/ \E path \in Paths : lo_send(call, path)
    <3>1. UNCHANGED <<raw, cut>>
      BY <2>4, Zenon DEF lo_message_add, lo_send
    <3> QED
      BY <3>1, <2>2
  <2>5. CASE UNCHANGED wireVars
    BY <2>2, <2>5 DEF wireVars
  <2> QED
    BY <2>1, <2>3, <2>4, <2>5, Zenon DEF WireNext
<1> QED
  BY <1>1, <1>2, PTL DEF WireSpec

\* lo_message_deserialise accepts memory only if it is what lo_message_serialise
\* makes of the message that is returned: nothing is skipped, and no two pieces
\* of memory mean the same (lo_message_deserialise and the validation it does).
THEOREM AcceptedOnce == WireSpec => []AcceptedIsCanonical
<1>1. RawInv => AcceptedIsCanonical
  <2> SUFFICES ASSUME RawInv PROVE AcceptedIsCanonical
    OBVIOUS
  <2> DEFINE mem == SubSeq(raw, 1, Len(raw) - cut)
  <2>1. mem \in Mem
    <3>1. CASE Len(raw) - cut >= 0
      <4>1. Len(raw) - cut \in Nat /\ Len(raw) - cut <= Len(raw)
        BY <3>1 DEF RawInv, Mem
      <4> QED
        BY <4>1, MemCut DEF RawInv
    <3>2. CASE ~(Len(raw) - cut >= 0)
      <4>1. Len(raw) - cut < 1
        BY <3>2 DEF RawInv, Mem
      <4>2. mem = <<>>
        BY <4>1 DEF RawInv, Mem
      <4> QED
        BY <4>2, Bytes
    <3> QED
      BY <3>1, <3>2
  <2>2. lo_message_deserialise(mem).error = "none"
          => lo_message_serialise(lo_message_deserialise(mem), lo_get_path(mem)) = mem
    <3> HIDE DEF mem
    <3> QED
      BY <2>1, AcceptedBytes
  <2> QED
    BY <2>2, Zenon DEF AcceptedIsCanonical
<1> QED
  BY <1>1, RawIsMemory, PTL

-----------------------------------------------------------------------------
(* Messages that hold arguments *)

Argument == {a \in [type : Type, value : Mem] : Passable(a.type, a.value)}
TypesOf(args) == [i \in 1 .. Len(args) |-> args[i].type]
Held(args) == [i \in 1 .. Len(args) |-> Stored(args[i].type, args[i].value)]
Message == [types : Seq(Nat), typesize : Nat, data : Mem, datasize : Nat, past : Nat]

\* The data are within what is allocated, or beyond it by what lo_pow2_over leaves out
\* of a size doubled n times.
Short(n, size, past) == past <= (n * size) \div LogPrecision
Roomy(m) ==
    /\ m.past = 0 => Len(m.data) <= m.datasize
    /\ \/ m.datasize = 0 /\ m.past = 0
       \/ \E n \in Nat : m.datasize = Doubled(LO_DEF_DATA_SIZE, n)
                          /\ Short(n, m.datasize, m.past)
Built(m, args) ==
    /\ m \in Message /\ args \in Seq(Argument)
    /\ m.types = <<Comma>> \o TypesOf(args) /\ m.data = FlattenSeq(Held(args))
    /\ Len(m.types) < m.typesize /\ Roomy(m)

LEMMA TypesAreCodes == Type \subseteq Nat \ {0} /\ Comma \in Nat \ {0}
BY DEF Type, Empty, Four, Eight, lo_string_types, LO_INT32, LO_FLOAT, LO_STRING, LO_BLOB,
       LO_INT64, LO_TIMETAG, LO_DOUBLE, LO_SYMBOL, LO_CHAR, LO_MIDI, LO_TRUE, LO_FALSE,
       LO_NIL, LO_INFINITUM, Comma

LEMMA HeldIs ==
    ASSUME NEW args \in Seq(Argument)
    PROVE  /\ Len(args) \in Nat
           /\ TypesOf(args) \in Seq(Nat) /\ TypesOf(args) \in Str /\ Len(TypesOf(args)) = Len(args)
           /\ Held(args) \in Seq(Mem) /\ Len(Held(args)) = Len(args)
           /\ \A i \in 1 .. Len(args) :
                 /\ args[i] \in Argument /\ TypesOf(args)[i] = args[i].type
                 /\ args[i].type \in Type
                 /\ Held(args)[i] = Stored(args[i].type, args[i].value)
                 /\ Whole(args[i].type, Held(args)[i])
                 /\ Legal(args[i].type, Swapped(args[i].type, Held(args)[i]))
<1>1. PICK n \in Nat : n = Len(args) /\ \A i \in 1 .. n : args[i] \in Argument
  OBVIOUS
<1>2. ASSUME NEW i \in 1 .. n
      PROVE  LET s == Stored(args[i].type, args[i].value) IN
             /\ args[i].type \in Type /\ s \in Mem /\ Whole(args[i].type, s)
             /\ Legal(args[i].type, Swapped(args[i].type, s))
  <2>1. Passable(args[i].type, args[i].value) /\ args[i].type \in Type
    BY <1>1 DEF Argument
  <2> QED
    BY <2>1, StoredIs DEF Whole
<1>3. TypesOf(args) \in Seq(Nat) /\ TypesOf(args) \in Str /\ Len(TypesOf(args)) = n
      /\ \A i \in 1 .. n : TypesOf(args)[i] = args[i].type
  <2>1. \A i \in 1 .. n : args[i].type \in Nat /\ args[i].type \in Nat \ {0}
    BY <1>2, TypesAreCodes
  <2> QED
    BY <2>1, <1>1 DEF TypesOf, Str
<1>4. Held(args) \in Seq(Mem) /\ Len(Held(args)) = n
      /\ \A i \in 1 .. n : Held(args)[i] = Stored(args[i].type, args[i].value)
  <2> DEFINE S(i) == Stored(args[i].type, args[i].value)
             q == [i \in 1 .. n |-> S(i)]
  <2>1. \A i \in 1 .. n : S(i) \in Mem
    BY <1>2
  <2> HIDE DEF S
  <2>2. q \in Seq(Mem) /\ Len(q) = n /\ \A i \in 1 .. n : q[i] = S(i)
    BY <2>1
  <2>3. Held(args) = q
    BY <1>1, Zenon DEF Held, S
  <2> HIDE DEF q
  <2> QED
    BY <2>2, <2>3, Zenon DEF S
<1> QED
  BY <1>1, <1>2, <1>3, <1>4

LEMMA BuiltIs ==
    ASSUME NEW m, NEW args, Built(m, args)
    PROVE  /\ args \in Seq(Argument) /\ Len(args) \in Nat
           /\ m.types \in Seq(Nat) /\ m.types \in Str /\ Len(m.types) = Len(args) + 1
           /\ m.types[1] = Comma /\ Tail(m.types) = TypesOf(args)
           /\ \A i \in 1 .. Len(args) : m.types[i + 1] = args[i].type
           /\ lo_message_get_argv(m) = Held(args)
<1>1. PICK n \in Nat : n = Len(args) /\ args \in Seq(Argument)
  BY HeldIs DEF Built
<1>2. PICK t \in Seq(Nat) : /\ t = TypesOf(args) /\ t \in Str /\ Len(t) = n
                            /\ \A i \in 1 .. n : t[i] = args[i].type
  BY <1>1, HeldIs
<1>3. m.types = <<Comma>> \o t
  BY <1>2 DEF Built
<1>4. <<Comma>> \o t \in Seq(Nat) /\ <<Comma>> \o t \in Str /\ Len(<<Comma>> \o t) = n + 1
      /\ (<<Comma>> \o t)[1] = Comma /\ Tail(<<Comma>> \o t) = t
      /\ \A i \in 1 .. n : (<<Comma>> \o t)[i + 1] = t[i]
  BY <1>2, TypesAreCodes DEF Str
<1>5. ArgsIn(t, FlattenSeq(Held(args))) = Held(args)
  <2>1. /\ Held(args) \in Seq(Mem) /\ Len(Held(args)) = n
        /\ \A i \in 1 .. n : Whole(t[i], Held(args)[i])
    BY <1>1, <1>2, HeldIs
  <2> QED
    BY <2>1, <1>2, ArgsOf
<1>6. m.data = FlattenSeq(Held(args))
  BY DEF Built
<1>7. lo_message_get_argv(m) = Held(args)
  BY <1>3, <1>4, <1>5, <1>6, Zenon DEF lo_message_get_argv
<1> QED
  BY <1>1, <1>2, <1>3, <1>4, <1>7

-----------------------------------------------------------------------------
(* Coercion *)

LEMMA CoercibleIs ==
    ASSUME NEW types \in Seq(Nat), NEW spec \in Coercible(types)
    PROVE  /\ spec \in Seq(Type) /\ Len(spec) = Len(types)
           /\ \A i \in 1 .. Len(types) : lo_can_coerce(types[i], spec[i])
<1>1. PICK n \in Nat : n = Len(types)
  OBVIOUS
<1> DEFINE After(i, v) == AppendEach(v, Coercions(types[i]))
           S == SUBSET Seq(Type)
           g == [i \in 1 .. n |-> [v \in S |-> After(i, v)]]
           start == {<<>>}
           Is(f) == f = [i \in 0 .. Len(types) |->
                            IF i = 0 THEN {<<>>} ELSE AppendEach(f[i - 1], Coercions(types[i]))]
<1>2. \A i \in 1 .. n : \A v \in S : g[i][v] = After(i, v) /\ g[i][v] \in S
  <2> SUFFICES ASSUME NEW i \in 1 .. n, NEW v \in S PROVE g[i][v] = After(i, v) /\ g[i][v] \in S
    OBVIOUS
  <2>1. g[i][v] = After(i, v)
    <3> HIDE DEF After, S
    <3> QED
      OBVIOUS
  <2>2. After(i, v) \in S
    <3> SUFFICES ASSUME NEW x \in After(i, v) PROVE x \in Seq(Type)
      BY Zenon
    <3>1. PICK s \in v, t \in Type : x = Append(s, t)
      BY DEF AppendEach, Coercions
    <3>2. s \in Seq(Type)
      OBVIOUS
    <3> QED
      BY <3>1, <3>2
  <2> HIDE DEF g, After, S
  <2> QED
    BY <2>1, <2>2
<1>3. start \in S
  OBVIOUS
<1> HIDE DEF g, S, start, After
<1>4. PICK f \in [0 .. n -> S] : Iterates(f, n, start, g)
  BY <1>2, <1>3, IterationInto
<1>5. Is(f)
  <2>1. \A i \in 0 .. n : f[i] = IF i = 0 THEN start ELSE g[i][f[i - 1]]
    BY <1>4 DEF Iterates
  <2>2. \A i \in 0 .. n : i = 0 \/ (i \in 1 .. n /\ i - 1 \in 0 .. n)
    OBVIOUS
  <2>3. \A i \in 0 .. n : f[i] \in S
    OBVIOUS
  <2>4. \A i \in 0 .. n : f[i] = IF i = 0 THEN start ELSE After(i, f[i - 1])
    BY <2>1, <2>2, <2>3, <1>2
  <2>5. f = [i \in 0 .. n |-> IF i = 0 THEN start ELSE After(i, f[i - 1])]
    BY <2>4
  <2> QED
    BY <2>5, <1>1, Zenon DEF After, start
<1> DEFINE c == CHOOSE h : Is(h)
<1>6. Is(c)
  BY <1>5, Zenon
<1>7. Coercible(types) = c[Len(types)]
  BY Zenon DEF Coercible
<1> HIDE DEF c
<1>8. c[0] = {<<>>} /\ \A i \in 1 .. n : c[i] = After(i, c[i - 1])
  <2>1. \A i \in 0 .. n : c[i] = IF i = 0 THEN {<<>>} ELSE After(i, c[i - 1])
    <3>1. c = [i \in 0 .. n |-> IF i = 0 THEN {<<>>} ELSE After(i, c[i - 1])]
      BY <1>1, <1>6, Zenon DEF After
    <3> QED
      BY <3>1
  <2>2. 0 \in 0 .. n /\ \A i \in 1 .. n : i \in 0 .. n /\ i # 0
    OBVIOUS
  <2> HIDE DEF Is
  <2> QED
    BY <2>1, <2>2
<1> HIDE DEF Is
<1> DEFINE Fits(i) == {s \in Seq(Type) : /\ Len(s) = i
                                         /\ \A j \in 1 .. i : lo_can_coerce(types[j], s[j])}
           V == [i \in 0 .. n |-> SUBSET Fits(i)]
<1>9. \A i \in 0 .. n : V[i] = SUBSET Fits(i)
  BY Zenon
<1>10. {<<>>} \in SUBSET Fits(0)
  OBVIOUS
<1>11. ASSUME NEW i \in 1 .. n, NEW v \in SUBSET Fits(i - 1) PROVE After(i, v) \in SUBSET Fits(i)
  <2> SUFFICES ASSUME NEW x \in After(i, v) PROVE x \in Fits(i)
    BY Zenon
  <2>1. PICK s \in v, t \in Type : x = Append(s, t) /\ lo_can_coerce(types[i], t)
    BY DEF After, AppendEach, Coercions
  <2>2. s \in Seq(Type) /\ Len(s) = i - 1 /\ \A j \in 1 .. i - 1 : lo_can_coerce(types[j], s[j])
    BY Zenon
  <2>3. Append(s, t) \in Seq(Type) /\ Len(Append(s, t)) = i /\ Append(s, t)[i] = t
        /\ \A j \in 1 .. i - 1 : Append(s, t)[j] = s[j]
    BY <2>2
  <2>4. \A j \in 1 .. i : j = i \/ j \in 1 .. i - 1
    OBVIOUS
  <2>5. \A j \in 1 .. i : lo_can_coerce(types[j], x[j])
    BY <2>1, <2>2, <2>3, <2>4
  <2> QED
    BY <2>1, <2>3, <2>5
<1> HIDE DEF V
<1>12. c[0] \in V[0] /\ \A i \in 1 .. n : c[i - 1] \in V[i - 1] => c[i] \in V[i]
  <2>1. 0 \in 0 .. n /\ \A i \in 1 .. n : i \in 0 .. n /\ i - 1 \in 0 .. n
    OBVIOUS
  <2> HIDE DEF Fits
  <2>2. c[0] \in V[0]
    BY <2>1, <1>8, <1>9, <1>10, Zenon
  <2>3. ASSUME NEW i \in 1 .. n, c[i - 1] \in V[i - 1] PROVE c[i] \in V[i]
    <3>1. c[i - 1] \in SUBSET Fits(i - 1)
      BY <2>1, <2>3, <1>9, Zenon
    <3>2. After(i, c[i - 1]) \in SUBSET Fits(i)
      BY <3>1, <1>11
    <3> QED
      BY <2>1, <3>2, <1>8, <1>9, Zenon
  <2> QED
    BY <2>2, <2>3
<1>13. c[n] \in V[n]
  <2>1. n \in 0 .. n
    OBVIOUS
  <2>2. \A i \in 0 .. n : c[i] \in V[i]
    BY <1>12, IterationIn
  <2> QED
    BY <2>1, <2>2
<1>14. spec \in Fits(n)
  <2>1. n \in 0 .. n
    OBVIOUS
  <2> HIDE DEF Fits
  <2> QED
    BY <2>1, <1>1, <1>7, <1>9, <1>13
<1> QED
  BY <1>1, <1>14

\* An argument held in memory, and the type it is coerced to.
LEMMA CoercedArgFits ==
    ASSUME NEW args \in Seq(Argument), NEW i \in 1 .. Len(args), NEW to \in Type,
           lo_can_coerce(args[i].type, to)
    PROVE  LET from == args[i].type x == Held(args)[i] IN
           /\ lo_arg_size(to, x) \in Nat
           /\ lo_coerce(to, from, x) \in Nat /\ lo_coerce(to, from, x) <= lo_arg_size(to, x)
<1> DEFINE from == args[i].type
           x == Held(args)[i]
<1>1. /\ from \in Type /\ x \in Mem /\ Whole(from, x)
      /\ Passable(from, args[i].value) /\ x = Stored(from, args[i].value)
  BY HeldIs DEF Argument, Whole
<1> HIDE DEF from, x
<1>2. CASE to = from
  <2>1. lo_arg_size(from, x \o <<>>) = Len(x)
    BY <1>1, Bytes DEF Whole
  <2>2. x \o <<>> = x /\ Len(x) \in Nat
    BY <1>1 DEF Mem
  <2> QED
    BY <2>1, <2>2, <1>2 DEF lo_coerce, from, x
<1>3. CASE to # from /\ {from, to} \subseteq lo_string_types
  <2>1. to \in lo_string_types /\ from \in lo_string_types
    BY <1>3
  <2>2. StrLen(x) \in Nat
    <3>1. args[i].value \in Str
      <4>1. args[i].value \in Seq(1 .. 255)
        <5>1. from \notin Empty /\ from \notin Four /\ from \notin Eight /\ from # LO_BLOB
          BY <2>1 DEF lo_string_types, Empty, Four, Eight, LO_INT32, LO_FLOAT, LO_STRING, LO_BLOB,
                LO_INT64, LO_TIMETAG, LO_DOUBLE, LO_SYMBOL, LO_CHAR, LO_MIDI, LO_TRUE, LO_FALSE,
                LO_NIL, LO_INFINITUM
        <5> QED
          BY <5>1, <1>1, Zenon DEF Passable
      <4> QED
        BY <4>1, Bytes
    <3>2. x = Padded(args[i].value)
      BY <3>1, <2>1, <1>1, StoredString
    <3>3. StrLen(Padded(args[i].value) \o <<>>) = Len(args[i].value)
      BY <3>1, Bytes, StringIsValid
    <3>4. x \o <<>> = x /\ Len(args[i].value) \in Nat
      BY <3>1, <1>1 DEF Mem, Str
    <3> QED
      BY <3>2, <3>3, <3>4
  <2>3. lo_strsize(StrLen(x)) \in Nat /\ StrLen(x) < lo_strsize(StrLen(x))
    BY <2>2, StrSizeIs
  <2>4. lo_arg_size(to, x) = lo_strsize(StrLen(x))
    BY <2>1, ArgSizeCases
  <2>5. lo_coerce(to, from, x) = StrLen(x) + 1
    BY <2>1, <1>3 DEF lo_coerce
  <2> QED
    BY <2>2, <2>3, <2>4, <2>5 DEF from, x
<1>4. CASE to # from /\ {from, to} \subseteq lo_numerical_types
  <2>1. to \notin lo_string_types /\ (to \in Four \/ to \in Eight)
    BY <1>4 DEF lo_numerical_types, lo_string_types, Four, Eight, LO_INT32, LO_FLOAT, LO_STRING,
          LO_INT64, LO_TIMETAG, LO_DOUBLE, LO_SYMBOL, LO_CHAR, LO_MIDI
  <2>2. lo_arg_size(to, x) = lo_arg_size(to, <<>>) /\ lo_arg_size(to, <<>>) \in Nat
    BY <2>1, ArgSizeCases
  <2>3. lo_coerce(to, from, x) = lo_arg_size(to, <<>>)
    BY <2>1, <1>4 DEF lo_coerce
  <2> QED
    BY <2>2, <2>3 DEF from, x
<1> QED
  BY <1>2, <1>3, <1>4 DEF lo_can_coerce, from, x

LEMMA CoercionHasRoom ==
    ASSUME NEW m, NEW args, Built(m, args), NEW spec \in Coercible(Tail(m.types)),
           NEW i \in DOMAIN lo_message_get_argv(m)
    PROVE  LET argv == lo_message_get_argv(m)
               types == Tail(m.types)
           IN  CoercedAt(spec, argv, i) + lo_coerce(spec[i], types[i], argv[i])
                  <= CoercedSize(spec, argv)
<1> DEFINE n == Len(args)
           argv == Held(args)
           types == TypesOf(args)
<1>1. /\ args \in Seq(Argument) /\ n \in Nat
      /\ lo_message_get_argv(m) = argv /\ Tail(m.types) = types
  BY BuiltIs
<1>2. /\ argv \in Seq(Mem) /\ Len(argv) = n /\ types \in Seq(Nat) /\ Len(types) = n
      /\ \A j \in 1 .. n : types[j] = args[j].type /\ args[j].type \in Type
  BY <1>1, HeldIs
<1> HIDE DEF argv, types
<1>3. spec \in Seq(Type) /\ Len(spec) = n /\ \A j \in 1 .. n : lo_can_coerce(types[j], spec[j])
  BY <1>1, <1>2, CoercibleIs
<1>4. DOMAIN argv = 1 .. n /\ i \in 1 .. n /\ \A j \in 1 .. n : spec[j] \in Type
  BY <1>1, <1>2, <1>3
<1>5. ASSUME NEW j \in 1 .. n
      PROVE  /\ lo_arg_size(spec[j], argv[j]) \in Nat
             /\ lo_coerce(spec[j], types[j], argv[j]) \in Nat
             /\ lo_coerce(spec[j], types[j], argv[j]) <= lo_arg_size(spec[j], argv[j])
  BY <1>1, <1>2, <1>3, <1>4, CoercedArgFits, Zenon DEF argv
<1> DEFINE size(j) == lo_arg_size(spec[j], argv[j])
           sizes == [j \in 1 .. n |-> size(j)]
<1>6. sizes \in Seq(Nat) /\ Len(sizes) = n /\ sizes[i] = size(i)
  <2>1. \A j \in 1 .. n : size(j) \in Nat
    BY <1>5
  <2> HIDE DEF size
  <2> QED
    BY <2>1, <1>1, <1>4
<1>7. CoercedSize(spec, argv) = Total(sizes)
  BY <1>4, Zenon DEF CoercedSize
<1>8. CoercedAt(spec, argv, i) = Total(SubSeq(sizes, 1, i - 1))
  <2> DEFINE a == SubSeq(argv, 1, i - 1)
             t == SubSeq(spec, 1, i - 1)
  <2>1. /\ DOMAIN a = 1 .. i - 1
        /\ \A j \in 1 .. i - 1 : a[j] = argv[j] /\ t[j] = spec[j]
    BY <1>1, <1>2, <1>3, <1>4
  <2> HIDE DEF a, t
  <2>2. \A j \in 1 .. i - 1 : lo_arg_size(t[j], a[j]) = size(j)
    BY <2>1
  <2>3. [j \in DOMAIN a |-> lo_arg_size(t[j], a[j])] = [j \in 1 .. i - 1 |-> size(j)]
    <3> HIDE DEF size
    <3> QED
      BY <2>1, <2>2
  <2>4. SubSeq(sizes, 1, i - 1) = [j \in 1 .. i - 1 |-> size(j)]
    <3> HIDE DEF size
    <3> QED
      BY <1>1, <1>4
  <2> QED
    BY <2>3, <2>4, Zenon DEF CoercedAt, CoercedSize, a, t
<1>9. Total(SubSeq(sizes, 1, i - 1)) + sizes[i] <= Total(sizes)
  <2> HIDE DEF sizes
  <2> QED
    BY <1>4, <1>6, TotalPrefix
<1>10. Total(sizes) \in Int /\ Total(SubSeq(sizes, 1, i - 1)) \in Int
  <2>1. SubSeq(sizes, 1, i - 1) \in Seq(Nat)
    <3> HIDE DEF sizes
    <3> QED
      BY <1>1, <1>4, <1>6
  <2> HIDE DEF sizes
  <2>2. \A p \in Seq(Nat) : Total(p) \in Int
    <3> SUFFICES ASSUME NEW p \in Seq(Nat) PROVE Total(p) \in Int
      OBVIOUS
    <3>1. PICK f : Sums(f, p) /\ Total(p) = f[Len(p)]
      BY TotalIs
    <3>2. Len(p) \in 0 .. Len(p)
      OBVIOUS
    <3> QED
      BY <3>1, <3>2 DEF Sums
  <2> QED
    BY <2>1, <2>2, <1>6
<1>11. lo_coerce(spec[i], types[i], argv[i]) \in Nat
       /\ lo_coerce(spec[i], types[i], argv[i]) <= sizes[i] /\ sizes[i] \in Nat
  BY <1>4, <1>5, <1>6
<1> HIDE DEF sizes, size
<1>12. \A a, b \in Int : \A c, d \in Nat : a + d <= b /\ c <= d => a + c <= b
  OBVIOUS
<1>13. Total(SubSeq(sizes, 1, i - 1)) + lo_coerce(spec[i], types[i], argv[i]) <= Total(sizes)
  BY <1>9, <1>10, <1>11, <1>12, Zenon
<1> QED
  BY <1>1, <1>7, <1>8, <1>13, Zenon

-----------------------------------------------------------------------------
(* Adding an argument *)

\* Doubled is what it says.
LEMMA DoubledIs ==
    ASSUME NEW a \in Nat
    PROVE  /\ Doubled(a, 0) = a
           /\ \A n \in Nat : Doubled(a, n) \in Nat /\ Doubled(a, n + 1) = 2 * Doubled(a, n)
<1> DEFINE Turn(f, i) == IF i = 0 THEN a ELSE 2 * f[i - 1]
           Is(n, f) == f = [i \in 0 .. n |-> Turn(f, i)]
           d(n) == CHOOSE f : Is(n, f)
<1>1. ASSUME NEW n \in Nat
      PROVE  /\ d(n)[0] = a
             /\ \A i \in 0 .. n : d(n)[i] \in Nat
             /\ \A i \in 1 .. n : d(n)[i] = 2 * d(n)[i - 1]
  <2> DEFINE g == [i \in 1 .. n |-> [v \in Nat |-> 2 * v]]
  <2>1. \A i \in 1 .. n : \A v \in Nat : g[i][v] = 2 * v /\ g[i][v] \in Nat
    OBVIOUS
  <2> HIDE DEF g
  <2>2. PICK f \in [0 .. n -> Nat] : Iterates(f, n, a, g)
    BY <2>1, IterationInto
  <2>3. \A i \in 0 .. n : f[i] = Turn(f, i)
    <3>1. \A i \in 0 .. n : f[i] = IF i = 0 THEN a ELSE g[i][f[i - 1]]
      BY <2>2 DEF Iterates
    <3>2. \A i \in 0 .. n : i = 0 \/ (i \in 1 .. n /\ f[i - 1] \in Nat)
      OBVIOUS
    <3> QED
      BY <2>1, <3>1, <3>2
  <2>4. Is(n, f)
    <3> HIDE DEF Turn
    <3> QED
      BY <2>3
  <2> DEFINE c == d(n)
  <2>5. Is(n, c)
    BY <2>4, Zenon
  <2> HIDE DEF c
  <2>6. \A i \in 0 .. n : c[i] = Turn(c, i)
    <3> HIDE DEF Turn
    <3> QED
      BY <2>5
  <2>7. c[0] = a /\ \A i \in 1 .. n : c[i] = 2 * c[i - 1]
    <3>1. 0 \in 0 .. n /\ \A i \in 1 .. n : i \in 0 .. n /\ i # 0
      OBVIOUS
    <3> QED
      BY <2>6, <3>1
  <2> DEFINE V == [i \in 0 .. n |-> Nat]
  <2>8. V[0] = Nat /\ \A i \in 0 .. n : V[i] = Nat
    OBVIOUS
  <2>9. \A i \in 1 .. n : i \in 0 .. n /\ i - 1 \in 0 .. n
    OBVIOUS
  <2> HIDE DEF V
  <2>10. ASSUME NEW i \in 1 .. n, c[i - 1] \in V[i - 1] PROVE c[i] \in V[i]
    <3>1. c[i - 1] \in Nat
      BY <2>8, <2>9, <2>10, Zenon
    <3>2. c[i] \in Nat
      BY <2>7, <3>1
    <3> QED
      BY <2>8, <2>9, <3>2, Zenon
  <2>11. c[0] \in V[0]
    BY <2>7, <2>8, Zenon
  <2>12. \A i \in 0 .. n : c[i] \in V[i]
    BY <2>10, <2>11, IterationIn
  <2> QED
    BY <2>7, <2>8, <2>12, Zenon DEF c
<1>2. \A n : Doubled(a, n) = d(n)[n]
  BY Zenon DEF Doubled
<1> HIDE DEF d
<1>3. \A n \in Nat : Doubled(a, n) \in Nat
  <2>1. \A n \in Nat : n \in 0 .. n
    OBVIOUS
  <2> QED
    BY <1>1, <1>2, <2>1, Zenon
<1>4. ASSUME NEW n \in Nat PROVE Doubled(a, n + 1) = 2 * Doubled(a, n)
  <2> DEFINE f == d(n + 1)
             h == d(n)
  <2>1. n + 1 \in Nat /\ n + 1 \in 1 .. n + 1 /\ (n + 1) - 1 = n /\ n \in 0 .. n
        /\ \A i \in 1 .. n : i \in 1 .. n + 1
    OBVIOUS
  <2>2. f[0] = h[0] /\ \A i \in 1 .. n : f[i - 1] = h[i - 1] => f[i] = h[i]
    BY <1>1, <2>1, Zenon
  <2>3. f[n + 1] = 2 * f[n]
    BY <1>1, <2>1
  <2> HIDE DEF f, h
  <2>4. \A i \in 0 .. n : f[i] = h[i]
    BY <2>2, IterationSame
  <2>5. f[n] = h[n]
    BY <2>1, <2>4, Zenon
  <2> QED
    BY <1>2, <2>3, <2>5, Zenon DEF f, h
<1>5. Doubled(a, 0) = a
  BY <1>1, <1>2, Zenon
<1> QED
  BY <1>3, <1>4, <1>5

\* It grows, and is above the number of doublings.
LEMMA DoubledAbove ==
    ASSUME NEW a \in Nat \ {0}, NEW n \in Nat
    PROVE  Doubled(a, n) \in Nat /\ Doubled(a, n) >= a /\ Doubled(a, n) >= n + 1
<1> DEFINE f == [i \in 0 .. n |-> Doubled(a, i)]
           Above(i) == {v \in Nat : v >= a /\ v >= i + 1}
           V == [i \in 0 .. n |-> Above(i)]
<1>1. /\ \A i \in 0 .. n : f[i] = Doubled(a, i) /\ V[i] = Above(i)
      /\ 0 \in 0 .. n /\ n \in 0 .. n
      /\ \A i \in 1 .. n : i \in 0 .. n /\ i - 1 \in 0 .. n /\ i - 1 \in Nat /\ (i - 1) + 1 = i
  OBVIOUS
<1> HIDE DEF f, V
<1>2. a \in Nat
  OBVIOUS
<1>3. f[0] \in V[0]
  <2>1. Doubled(a, 0) \in Above(0)
    BY <1>2, DoubledIs
  <2> HIDE DEF Above
  <2> QED
    BY <1>1, <2>1
<1>4. ASSUME NEW i \in 1 .. n, f[i - 1] \in V[i - 1] PROVE f[i] \in V[i]
  <2>1. Doubled(a, i - 1) \in Above(i - 1)
    BY <1>1, <1>4, Zenon
  <2>2. Doubled(a, i) = 2 * Doubled(a, i - 1)
    BY <1>1, <1>2, DoubledIs
  <2>3. Doubled(a, i) \in Above(i)
    BY <2>1, <2>2
  <2> QED
    BY <1>1, <2>3, Zenon
<1>5. \A i \in 0 .. n : f[i] \in V[i]
  BY <1>3, <1>4, IterationIn
<1>6. Doubled(a, n) \in Above(n)
  BY <1>1, <1>5, Zenon
<1> QED
  BY <1>6

LEMMA DoubledTwice ==
    ASSUME NEW a \in Nat, NEW j \in Nat, NEW n \in Nat
    PROVE  Doubled(Doubled(a, j), n) = Doubled(a, j + n)
<1> DEFINE b == Doubled(a, j)
           f == [k \in 0 .. n |-> Doubled(b, k)]
           h == [k \in 0 .. n |-> Doubled(a, j + k)]
<1>1. b \in Nat
  BY DoubledIs
<1> HIDE DEF b
<1>2. /\ \A k \in 0 .. n : f[k] = Doubled(b, k) /\ h[k] = Doubled(a, j + k)
      /\ 0 \in 0 .. n /\ n \in 0 .. n
  OBVIOUS
<1>3. \A k \in 1 .. n : /\ k \in 0 .. n /\ k - 1 \in 0 .. n /\ k - 1 \in Nat /\ (k - 1) + 1 = k
                        /\ j + (k - 1) \in Nat /\ (j + (k - 1)) + 1 = j + k
  OBVIOUS
<1> HIDE DEF f, h
<1>4. f[0] = h[0]
  <2>1. Doubled(b, 0) = b
    BY <1>1, DoubledIs
  <2>2. j + 0 = j
    OBVIOUS
  <2> QED
    BY <1>2, <2>1, <2>2, Zenon DEF b
<1>5. ASSUME NEW k \in 1 .. n, f[k - 1] = h[k - 1] PROVE f[k] = h[k]
  <2>1. Doubled(b, k) = 2 * Doubled(b, k - 1)
    BY <1>1, <1>3, DoubledIs
  <2>2. Doubled(a, j + k) = 2 * Doubled(a, j + (k - 1))
    BY <1>3, DoubledIs
  <2>3. f[k] = Doubled(b, k) /\ h[k] = Doubled(a, j + k)
    BY <1>2, <1>3, Zenon
  <2>4. f[k - 1] = Doubled(b, k - 1) /\ h[k - 1] = Doubled(a, j + (k - 1))
    BY <1>2, <1>3, Zenon
  <2> QED
    BY <1>5, <2>1, <2>2, <2>3, <2>4
<1>6. \A k \in 0 .. n : f[k] = h[k]
  BY <1>4, <1>5, IterationSame
<1> QED
  BY <1>2, <1>6, Zenon DEF b

\* A share of a natural number.
LEMMA ShareIs ==
    ASSUME NEW x \in Nat, NEW p \in Nat \ {0}
    PROVE  x \div p \in Nat /\ p * (x \div p) <= x /\ x < p * ((x \div p) + 1)
OBVIOUS

LEMMA SharesOrdered ==
    ASSUME NEW x \in Nat, NEW y \in Nat, x <= y, NEW p \in Nat \ {0}
    PROVE  x \div p <= y \div p
<1>1. PICK u \in Nat : u = x \div p /\ p * u <= x
  BY ShareIs
<1>2. PICK v \in Nat : v = y \div p /\ y < p * (v + 1)
  BY ShareIs
<1>3. ASSUME u >= v + 1 PROVE FALSE
  <2>1. \A k, m \in Nat : k >= m => p * k >= p * m
    OBVIOUS
  <2>2. p * u >= p * (v + 1)
    BY <1>3, <2>1
  <2>3. p * u \in Nat /\ p * (v + 1) \in Nat
    OBVIOUS
  <2> QED
    BY <1>1, <1>2, <2>2, <2>3
<1> QED
  BY <1>1, <1>2, <1>3

LEMMA ProductsOrdered ==
    ASSUME NEW i \in Nat, NEW j \in Nat, i <= j, NEW k \in Nat, NEW l \in Nat, k <= l
    PROVE  i * k \in Nat /\ j * l \in Nat /\ i * k <= j * l
OBVIOUS

LEMMA ShortLater ==
    ASSUME NEW i \in Nat, NEW j \in Nat, i <= j, NEW k \in Nat, NEW l \in Nat, k <= l,
           NEW past \in Int, Short(i, k, past)
    PROVE  Short(j, l, past)
<1>1. i * k \in Nat /\ j * l \in Nat /\ i * k <= j * l
  BY ProductsOrdered
<1>2. LogPrecision \in Nat \ {0}
  BY WireAssumption
<1>3. PICK u \in Nat : u = (i * k) \div LogPrecision
  BY <1>1, <1>2, ShareIs
<1>4. PICK v \in Nat : v = (j * l) \div LogPrecision
  BY <1>1, <1>2, ShareIs
<1>5. u <= v
  BY <1>1, <1>2, <1>3, <1>4, SharesOrdered
<1>6. past <= u
  BY <1>3 DEF Short
<1> QED
  BY <1>4, <1>5, <1>6 DEF Short

\* lo_pow2_over doubles the size, and falls short of the need by little.
LEMMA PowerIs ==
    ASSUME NEW a \in Nat \ {0}, NEW b \in Nat
    PROVE  \E n \in Nat : /\ lo_pow2_over(a, b) = Doubled(a, n)
                          /\ Short(n, Doubled(a, n), b - Doubled(a, n))
<1> DEFINE Is(n) == Suffices(a, b, n) /\ \A k \in 0 .. n - 1 : ~Suffices(a, b, k)
           T == {n \in 0 .. b : Suffices(a, b, n)}
<1>1. b \in T
  <2>1. Doubled(a, b) \in Nat /\ Doubled(a, b) >= b + 1
    BY DoubledAbove
  <2> DEFINE z == b * Doubled(a, b)
  <2>2. z \in Nat
    BY <2>1
  <2> HIDE DEF z
  <2>3. z \div LogPrecision \in Nat
    BY <2>2, WireAssumption, ShareIs
  <2>4. b - Doubled(a, b) <= z \div LogPrecision
    BY <2>1, <2>3
  <2> QED
    BY <2>4 DEF Suffices, z
<1>2. PICK n \in T : \A m \in T : n <= m
  <2>1. T \in SUBSET Nat /\ T # {}
    BY <1>1
  <2> HIDE DEF T
  <2> QED
    BY <2>1, LeastNat
<1>3. n \in 0 .. b /\ Is(n)
  <2>1. ASSUME NEW k \in 0 .. n - 1 PROVE ~Suffices(a, b, k)
    <3>1. k \in 0 .. b /\ ~(n <= k)
      BY <1>2
    <3> QED
      BY <1>2, <3>1
  <2> QED
    BY <1>2, <2>1
<1> DEFINE c == CHOOSE m \in 0 .. b : Is(m)
<1>4. c \in 0 .. b /\ Is(c)
  BY <1>3, Zenon
<1>5. lo_pow2_over(a, b) = Doubled(a, c)
  BY Zenon DEF lo_pow2_over
<1> HIDE DEF c
<1>6. c \in Nat /\ Suffices(a, b, c)
  BY <1>4
<1> QED
  BY <1>5, <1>6, Zenon DEF Suffices, Short

LEMMA FlattenSeqAppend ==
    ASSUME NEW q \in Seq(Mem), NEW x \in Mem, NEW p \in Seq(Mem), Len(p) = Len(q) + 1,
           \A i \in 1 .. Len(q) : p[i] = q[i], p[Len(q) + 1] = x
    PROVE  FlattenSeq(p) = FlattenSeq(q) \o x
<1>1. p = Append(q, x)
  <2>1. PICK r \in Seq(Mem) : r = Append(q, x) /\ Len(r) = Len(q) + 1 /\ r[Len(q) + 1] = x
                              /\ \A i \in 1 .. Len(q) : r[i] = q[i]
    OBVIOUS
  <2>2. \A i \in 1 .. Len(q) + 1 : i \in 1 .. Len(q) \/ i = Len(q) + 1
    OBVIOUS
  <2>3. \A i \in 1 .. Len(q) + 1 : r[i] = p[i]
    BY <2>1, <2>2
  <2>4. r = [i \in 1 .. Len(q) + 1 |-> r[i]] /\ p = [i \in 1 .. Len(q) + 1 |-> p[i]]
    <3>1. \A w \in Seq(Mem) : w = [i \in 1 .. Len(w) |-> w[i]]
      OBVIOUS
    <3> QED
      BY <3>1, <2>1, Zenon
  <2> QED
    BY <2>1, <2>3, <2>4
<1>2. PICK s \in Mem : s = FlattenSeq(q) /\ \E o : Places(s, q, o)
  BY FlattenSeqPlaces DEF Mem
<1>3. PICK o : Places(s, q, o)
  BY <1>2
<1>4. \E u : Places(s \o x, p, u)
  <2> DEFINE u == OneMore(o, Len(q), Len(s) + Len(x))
  <2>1. Places(s \o x, Append(q, x), u)
    BY <1>3, PlacesAppend DEF Mem
  <2> HIDE DEF u
  <2> QED
    BY <2>1, <1>1
<1>5. s \o x \in Mem
  BY MemConcat
<1>6. FlattenSeq(p) \in Mem /\ \E u : Places(FlattenSeq(p), p, u)
  BY FlattenSeqPlaces DEF Mem
<1>7. FlattenSeq(p) = s \o x
  <2> DEFINE t == s \o x
  <2> HIDE DEF t
  <2>1. t \in Mem /\ \E u : Places(t, p, u)
    BY <1>4, <1>5 DEF t
  <2>2. FlattenSeq(p) = t
    BY <2>1, <1>6, PlacesUnique DEF Mem
  <2> QED
    BY <2>2 DEF t
<1> QED
  BY <1>2, <1>7

LEMMA AppendIs ==
    ASSUME NEW w \in Seq(Nat), NEW n \in Nat
    PROVE  /\ Append(w, n) \in Seq(Nat) /\ Len(Append(w, n)) = Len(w) + 1
           /\ Append(w, n)[Len(w) + 1] = n
           /\ \A i \in 1 .. Len(w) : Append(w, n)[i] = w[i]
OBVIOUS

LEMMA PassableIs ==
    ASSUME NEW type, NEW a, Passable(type, a)
    PROVE  /\ type \in Type /\ a \in Mem /\ Typed(type, a) \in Argument
           /\ Typed(type, a).type = type /\ Typed(type, a).value = a
           /\ Stored(type, a) \in Mem
<1>1. type \in Type
  BY DEF Passable, Type
<1>2. a \in Mem
  BY Bytes DEF Passable
<1>3. Stored(type, a) \in Mem
  BY StoredIs DEF Whole
<1>4. /\ Typed(type, a) \in [type : Type, value : Mem]
      /\ Typed(type, a).type = type /\ Typed(type, a).value = a
  BY <1>1, <1>2 DEF Typed
<1>5. Typed(type, a) \in Argument
  BY <1>4 DEF Argument
<1> QED
  BY <1>1, <1>2, <1>3, <1>4, <1>5

LEMMA NewIsBuilt == Built(lo_message_new, <<>>) /\ <<>> \in Seq(Argument)
<1> DEFINE m == lo_message_new
<1>1. /\ m \in Message /\ m.types = <<Comma>> /\ m.data = <<>>
      /\ m.typesize = LO_DEF_TYPE_SIZE /\ m.datasize = 0 /\ m.past = 0
  BY WireAssumption, Bytes, TypesAreCodes DEF lo_message_new, Message
<1>2. <<>> \in Seq(Argument) /\ Len(<<>>) = 0
  OBVIOUS
<1>3. TypesOf(<<>>) = <<>>
  BY DEF TypesOf
<1>4. Held(<<>>) = <<>>
  BY DEF Held
<1>5. FlattenSeq(<<>>) = <<>>
  BY DEF FlattenSeq
<1>6. <<Comma>> = <<Comma>> \o <<>> /\ Len(<<Comma>>) = 1
  OBVIOUS
<1>7. 1 < LO_DEF_TYPE_SIZE
  BY WireAssumption
<1> HIDE DEF m
<1>8. m.types = <<Comma>> \o TypesOf(<<>>) /\ m.data = FlattenSeq(Held(<<>>))
  BY <1>1, <1>3, <1>4, <1>5, <1>6, Zenon
<1>9. Len(m.types) < m.typesize /\ Roomy(m)
  BY <1>1, <1>2, <1>6, <1>7 DEF Roomy
<1> QED
  BY <1>1, <1>2, <1>8, <1>9, Zenon DEF Built, m

\* Data added fits into what is allocated then, or nearly.
LEMMA DataAdded ==
    ASSUME NEW m \in Message, Roomy(m), NEW x \in Mem
    PROVE  LET m1 == lo_message_add_data(m, x) IN
           /\ m1 \in Message /\ m1.types = m.types /\ m1.typesize = m.typesize
           /\ m1.data = m.data \o x /\ Roomy(m1)
<1> DEFINE size == IF m.datasize = 0 THEN LO_DEF_DATA_SIZE ELSE m.datasize
           need == Len(m.data) + Len(x)
           m1 == lo_message_add_data(m, x)
<1>0. LO_DEF_DATA_SIZE \in Nat \ {0} /\ LO_DEF_DATA_SIZE \in Nat
  BY WireAssumption
<1>1. size \in Nat \ {0} /\ need \in Nat /\ m.past \in Nat
  BY <1>0 DEF Message, Mem
<1>2. m.data \o x \in Mem /\ Len(m.data \o x) = need
  BY MemConcat DEF Message
<1>3. PICK j \in Nat : size = Doubled(LO_DEF_DATA_SIZE, j) /\ Short(j, size, m.past)
  <2>1. CASE m.datasize = 0 /\ m.past = 0
    <3>1. size = Doubled(LO_DEF_DATA_SIZE, 0)
      BY <1>0, <2>1, DoubledIs
    <3>2. 0 * size = 0 /\ 0 \div LogPrecision \in Nat
      BY <1>1, WireAssumption, ShareIs
    <3>3. Short(0, size, m.past)
      <4> HIDE DEF size
      <4> QED
        BY <2>1, <3>2 DEF Short
    <3> QED
      BY <3>1, <3>3, Zenon
  <2>2. CASE m.datasize # 0
    BY <2>2, Zenon DEF Roomy
  <2>3. CASE m.datasize = 0 /\ m.past # 0
    <3>1. PICK n \in Nat : m.datasize = Doubled(LO_DEF_DATA_SIZE, n)
      BY <2>3, Zenon DEF Roomy
    <3> QED
      BY <1>0, <2>3, <3>1, DoubledAbove
  <2> QED
    BY <2>1, <2>2, <2>3, Zenon
<1> DEFINE power == lo_pow2_over(size, need)
<1>4. PICK n \in Nat : power = Doubled(size, n) /\ Short(n, power, need - power)
  <2> HIDE DEF size, need
  <2>1. PICK n \in Nat : /\ power = Doubled(size, n)
                         /\ Short(n, Doubled(size, n), need - Doubled(size, n))
    BY <1>1, PowerIs
  <2> QED
    BY <2>1, Zenon
<1> DEFINE past == IF need > power THEN need - power ELSE m.past
<1>5. m1 = [m EXCEPT !.data = @ \o x, !.datasize = power, !.past = past]
  <2>1. m1 = [m EXCEPT !.data = @ \o x, !.datasize = power,
                       !.past = IF need > power THEN need - power ELSE @]
    BY Zenon DEF lo_message_add_data
  <2> HIDE DEF m1, power, need
  <2> QED
    BY <2>1
<1> HIDE DEF power, size, need
<1>6. power \in Nat /\ power >= size
  BY <1>1, <1>4, DoubledAbove
<1>7. past \in Nat
  BY <1>1, <1>6
<1>8. j + n \in Nat /\ power = Doubled(LO_DEF_DATA_SIZE, j + n)
  BY <1>0, <1>3, <1>4, DoubledTwice
<1>9. Short(j + n, power, past)
  <2>1. j <= j + n /\ n <= j + n /\ size <= power /\ power <= power /\ size \in Nat
    BY <1>1, <1>6
  <2>2. Short(j + n, power, need - power)
    <3>1. need - power \in Int
      BY <1>1, <1>6
    <3> QED
      BY <1>4, <1>6, <1>8, <2>1, <3>1, ShortLater
  <2>3. Short(j + n, power, m.past)
    <3>1. m.past \in Int
      BY <1>1
    <3> QED
      BY <1>3, <1>6, <1>8, <2>1, <3>1, ShortLater
  <2> QED
    BY <2>2, <2>3
<1> HIDE DEF m1
<1>10. past = 0 => need <= power
  BY <1>1, <1>6
<1> HIDE DEF past
<1>11. /\ m1.types = m.types /\ m1.typesize = m.typesize
       /\ m1.data = m.data \o x /\ m1.datasize = power /\ m1.past = past
  BY <1>5 DEF Message
<1>12. m1 \in Message
  <2> DEFINE data == m.data \o x
  <2>1. data \in Mem
    BY <1>2
  <2>2. m1 = [m EXCEPT !.data = data, !.datasize = power, !.past = past]
    BY <1>5
  <2> HIDE DEF data
  <2> QED
    BY <2>1, <2>2, <1>6, <1>7 DEF Message
<1>13. Roomy(m1)
  <2>1. m1.past = 0 => Len(m1.data) <= m1.datasize
    BY <1>2, <1>10, <1>11
  <2>2. m1.datasize = Doubled(LO_DEF_DATA_SIZE, j + n) /\ Short(j + n, m1.datasize, m1.past)
    BY <1>8, <1>9, <1>11, Zenon
  <2> QED
    BY <1>8, <2>1, <2>2, Zenon DEF Roomy
<1> QED
  BY <1>11, <1>12, <1>13 DEF m1

LEMMA WithArgIsBuilt ==
    ASSUME NEW m, NEW args, Built(m, args), NEW type, NEW a, Passable(type, a)
    PROVE  /\ Append(args, Typed(type, a)) \in Seq(Argument)
           /\ Built(WithArg(m, type, a), Append(args, Typed(type, a)))
<1> DEFINE x == Stored(type, a)
           m1 == IF type \in Empty THEN m ELSE lo_message_add_data(m, x)
           m2 == lo_message_add_typechar(m1, type)
           arg == Typed(type, a)
           more == Append(args, arg)
<1>1. /\ type \in Type /\ x \in Mem /\ arg \in Argument /\ arg.type = type /\ arg.value = a
      /\ m \in Message /\ args \in Seq(Argument)
  BY PassableIs DEF Built
<1>2. /\ m1 \in Message /\ m1.types = m.types /\ m1.typesize = m.typesize
      /\ m1.data = m.data \o x /\ Roomy(m1)
  <2>0. Roomy(m)
    BY Zenon DEF Built
  <2>1. CASE type \in Empty
    <3>1. x = <<>>
      <4>1. a = <<>> /\ type \notin lo_string_types /\ type # LO_BLOB
        BY <2>1 DEF Passable, Empty, Four, Eight, lo_string_types, LO_INT32, LO_FLOAT, LO_STRING,
                    LO_BLOB, LO_INT64, LO_TIMETAG, LO_DOUBLE, LO_SYMBOL, LO_CHAR, LO_MIDI, LO_TRUE,
                    LO_FALSE, LO_NIL, LO_INFINITUM
      <4> QED
        BY <4>1 DEF Stored
    <3>2. m.data \in Seq(Nat)
      BY <1>1 DEF Message, Mem
    <3>3. m.data \o <<>> = m.data
      BY <3>2
    <3> QED
      BY <2>0, <2>1, <3>1, <3>3, <1>1, Zenon
  <2>2. CASE type \notin Empty
    <3>1. m1 = lo_message_add_data(m, x)
      BY <2>2, Zenon
    <3> HIDE DEF m1, x
    <3> QED
      BY <3>1, <2>0, <1>1, DataAdded
  <2> QED
    BY <2>1, <2>2, Zenon
<1> HIDE DEF m1, x
<1>3. /\ m2 = [m1 EXCEPT !.types = Append(@, type),
                         !.typesize = IF Len(m1.types) + 1 >= m1.typesize THEN 2 * @ ELSE @]
  BY Zenon DEF lo_message_add_typechar, Full
<1>4. Len(m.types) \in Nat /\ m.typesize \in Nat /\ Len(m.types) < m.typesize
      /\ m.types \in Seq(Nat)
  <2>1. m.types \in Seq(Nat) /\ m.typesize \in Nat
    BY <1>1 DEF Message
  <2>2. Len(m.types) < m.typesize
    BY DEF Built
  <2>3. Len(m.types) \in Nat
    BY <2>1
  <2> QED
    BY <2>1, <2>2, <2>3
<1>5. PICK size \in Nat : /\ size = IF Len(m1.types) + 1 >= m1.typesize THEN 2 * m1.typesize
                                    ELSE m1.typesize
                          /\ Len(m.types) + 1 < size
  <2>1. m1.types = m.types /\ m1.typesize = m.typesize
    BY <1>2, Zenon
  <2> QED
    BY <2>1, <1>4
<1>6. PICK t \in Seq(Nat) : t = Append(m.types, type) /\ Len(t) = Len(m.types) + 1
  <2>1. type \in Nat
    BY <1>1, TypesAreCodes
  <2>2. Append(m.types, type) \in Seq(Nat) /\ Len(Append(m.types, type)) = Len(m.types) + 1
    BY <2>1, <1>4, AppendIs
  <2> QED
    BY <2>2
<1>7. m2 = [m1 EXCEPT !.types = t, !.typesize = size]
  BY <1>2, <1>3, <1>5, <1>6, Zenon
<1> HIDE DEF m2
<1>8. /\ m2 \in Message /\ m2.types = t /\ m2.typesize = size
      /\ m2.data = m1.data /\ m2.datasize = m1.datasize /\ m2.past = m1.past
  BY <1>2, <1>7 DEF Message
<1>9. /\ more \in Seq(Argument) /\ Len(more) = Len(args) + 1 /\ more[Len(args) + 1] = arg
      /\ \A i \in 1 .. Len(args) : more[i] = args[i]
  BY <1>1
<1> HIDE DEF more, arg
<1>10. t = <<Comma>> \o TypesOf(more)
  <2>1. TypesOf(args) \in Seq(Nat) /\ Len(TypesOf(args)) = Len(args)
        /\ \A i \in 1 .. Len(args) : TypesOf(args)[i] = args[i].type
    BY <1>1, HeldIs
  <2>2. TypesOf(more) \in Seq(Nat) /\ Len(TypesOf(more)) = Len(args) + 1
        /\ \A i \in 1 .. Len(args) + 1 : TypesOf(more)[i] = more[i].type
    BY <1>9, HeldIs
  <2>3. TypesOf(more) = Append(TypesOf(args), type)
    <3>1. Len(args) \in Nat /\ type \in Nat
      BY <1>1, TypesAreCodes
    <3>2. PICK r \in Seq(Nat) : r = Append(TypesOf(args), type) /\ Len(r) = Len(args) + 1
                                /\ r[Len(args) + 1] = type
                                /\ \A i \in 1 .. Len(args) : r[i] = TypesOf(args)[i]
      <4> DEFINE w == TypesOf(args)
      <4>1. w \in Seq(Nat) /\ Len(w) = Len(args)
        BY <2>1
      <4> HIDE DEF w
      <4>2. /\ Append(w, type) \in Seq(Nat) /\ Len(Append(w, type)) = Len(args) + 1
            /\ Append(w, type)[Len(args) + 1] = type
            /\ \A i \in 1 .. Len(args) : Append(w, type)[i] = w[i]
        BY <3>1, <4>1, AppendIs
      <4> QED
        BY <4>2 DEF w
    <3>3. \A i \in 1 .. Len(args) + 1 : i \in 1 .. Len(args) \/ i = Len(args) + 1
      BY <3>1
    <3>4. \A i \in 1 .. Len(args) : i \in 1 .. Len(args) + 1
      BY <3>1
    <3>5. \A i \in 1 .. Len(args) + 1 : r[i] = TypesOf(more)[i]
      BY <3>2, <3>3, <3>4, <2>1, <2>2, <1>1, <1>9
    <3>6. \A w \in Seq(Nat) : w = [i \in 1 .. Len(w) |-> w[i]]
      OBVIOUS
    <3>7. TypesOf(more) = [i \in 1 .. Len(args) + 1 |-> TypesOf(more)[i]]
      BY <3>6, <2>2, Zenon
    <3>8. r = [i \in 1 .. Len(args) + 1 |-> r[i]]
      BY <3>6, <3>2, Zenon
    <3> QED
      BY <3>2, <3>5, <3>7, <3>8
  <2>4. m.types = <<Comma>> \o TypesOf(args)
    BY DEF Built
  <2>5. \A w \in Seq(Nat) : Append(<<Comma>> \o w, type) = <<Comma>> \o Append(w, type)
    BY <1>1, TypesAreCodes
  <2> QED
    BY <2>1, <2>3, <2>4, <2>5, <1>6, Zenon
<1>11. m2.data = FlattenSeq(Held(more))
  <2>1. Held(args) \in Seq(Mem) /\ Len(Held(args)) = Len(args)
        /\ \A i \in 1 .. Len(args) : Held(args)[i] = Stored(args[i].type, args[i].value)
    BY <1>1, HeldIs
  <2>2. Held(more) \in Seq(Mem) /\ Len(Held(more)) = Len(args) + 1
        /\ \A i \in 1 .. Len(args) + 1 : Held(more)[i] = Stored(more[i].type, more[i].value)
    BY <1>9, HeldIs
  <2>3. Len(args) \in Nat
    BY <1>1
  <2>4. \A i \in 1 .. Len(args) : Held(more)[i] = Held(args)[i]
    <3>1. \A i \in 1 .. Len(args) : i \in 1 .. Len(args) + 1
      BY <2>3
    <3> QED
      BY <3>1, <2>1, <2>2, <1>9, Zenon
  <2>5. Held(more)[Len(args) + 1] = x
    <3>1. Len(args) + 1 \in 1 .. Len(args) + 1
      BY <2>3
    <3> QED
      BY <3>1, <2>2, <1>1, <1>9, Zenon DEF x
  <2>6. FlattenSeq(Held(more)) = FlattenSeq(Held(args)) \o x
    BY <2>1, <2>2, <2>4, <2>5, <1>1, FlattenSeqAppend
  <2>7. m.data = FlattenSeq(Held(args))
    BY DEF Built
  <2> QED
    BY <2>6, <2>7, <1>2, <1>8, Zenon
<1>12. Len(m2.types) < m2.typesize /\ Roomy(m2)
  <2>1. Len(m2.types) < m2.typesize
    BY <1>5, <1>6, <1>8
  <2>2. Roomy(m2)
    BY <1>2, <1>8, Zenon DEF Roomy
  <2> QED
    BY <2>1, <2>2
<1>13. m2.types = <<Comma>> \o TypesOf(more)
  BY <1>8, <1>10, Zenon
<1>14. Built(m2, more)
  BY <1>8, <1>9, <1>11, <1>12, <1>13, Zenon DEF Built
<1> QED
  BY <1>9, <1>14, Zenon DEF WithArg, m2, m1, x, more, arg

-----------------------------------------------------------------------------
(* A call of lo_message_add *)

LEMMA ConcatIs ==
    ASSUME NEW S, NEW x \in Seq(S), NEW y \in Seq(S)
    PROVE  /\ x \o y \in Seq(S) /\ Len(x \o y) = Len(x) + Len(y)
           /\ \A i \in 1 .. Len(x) : (x \o y)[i] = x[i]
           /\ \A i \in 1 .. Len(y) : (x \o y)[Len(x) + i] = y[i]
OBVIOUS

LEMMA MarkersDiffer ==
    /\ MarkerA \in Mem /\ MarkerB \in Mem /\ Zeros(8) \in Mem
    /\ MarkerA \in Seq(0 .. 255) /\ MarkerB \in Seq(0 .. 255) /\ Zeros(8) \in Seq(0 .. 255)
    /\ Len(MarkerA) = 8 /\ Len(MarkerB) = 8 /\ Len(Zeros(8)) = 8
    /\ MarkerA[1] = 239 /\ MarkerB[1] = 35
<1>1. MarkerA \in Seq(0 .. 255) /\ MarkerB \in Seq(0 .. 255) /\ Len(MarkerA) = 8 /\ Len(MarkerB) = 8
  BY DEF MarkerA, MarkerB
<1>2. MarkerA[1] = 239 /\ MarkerB[1] = 35
  BY DEF MarkerA, MarkerB
<1>3. Zeros(8) \in Mem /\ Len(Zeros(8)) = 8 /\ Zeros(8)[1] = 0
  <2>1. 8 \in Nat /\ 1 \in 1 .. 8
    OBVIOUS
  <2> QED
    BY <2>1, ZerosAre
<1>4. Zeros(8) \in Seq(0 .. 255)
  BY DEF Zeros
<1>5. MarkerA \in Mem /\ MarkerB \in Mem
  BY <1>1, Bytes
<1> QED
  BY <1>1, <1>2, <1>3, <1>4, <1>5

LEMMA OthersDoNotMark == ~ Marks(MarkerB, MarkerA) /\ ~ Marks(Zeros(8), MarkerA)
<1>1. ASSUME NEW v \in Mem, Len(v) = 8, Marks(v, MarkerA) PROVE v[1] = 239
  <2>1. ASSUME NEW x \in Mem, Len(x) = 8 PROVE SubSeq(x, 1, 4)[1] = x[1]
    BY <2>1 DEF Mem
  <2>2. SubSeq(v, 1, 4)[1] = v[1] /\ SubSeq(MarkerA, 1, 4)[1] = MarkerA[1]
    BY <1>1, <2>1, MarkersDiffer
  <2>3. SubSeq(v, 1, 4) = SubSeq(MarkerA, 1, 4) /\ MarkerA[1] = 239
    BY <1>1, MarkersDiffer, Zenon DEF Marks
  <2>4. v[1] = SubSeq(MarkerA, 1, 4)[1]
    BY <2>2, <2>3
  <2> QED
    BY <2>2, <2>3, <2>4
<1>2. Zeros(8)[1] = 0
  <2>1. 8 \in Nat /\ 1 \in 1 .. 8
    OBVIOUS
  <2> QED
    BY <2>1, ZerosAre
<1>3. 35 # 239 /\ 0 # 239
  OBVIOUS
<1> QED
  <2>1. MarkerB[1] # 239 /\ Zeros(8)[1] # 239
    BY <1>2, <1>3, MarkersDiffer
  <2>2. MarkerB \in Mem /\ Zeros(8) \in Mem /\ Len(MarkerB) = 8 /\ Len(Zeros(8)) = 8
    BY MarkersDiffer, Zenon
  <2> QED
    <3>1. ~ Marks(MarkerB, MarkerA)
      BY <1>1, <2>1, <2>2
    <3>2. ~ Marks(Zeros(8), MarkerA)
      BY <1>1, <2>1, <2>2
    <3> QED
      BY <3>1, <3>2

\* An entry of the list of values.
Entry == {v \in Mem : v \in Seq(0 .. 255) /\ Len(v) = 8}

LEMMA EntryIs ==
    ASSUME NEW v \in [1 .. 8 -> 1 .. 255]
    PROVE  v \in Seq(1 .. 255) /\ v \in Entry
<1>1. v = [i \in 1 .. 8 |-> v[i]] /\ \A i \in 1 .. 8 : v[i] \in 1 .. 255
  OBVIOUS
<1>2. \A w : w = [i \in 1 .. 8 |-> w[i]] /\ (\A i \in 1 .. 8 : w[i] \in 1 .. 255)
               => w \in Seq(1 .. 255) /\ w \in Seq(0 .. 255) /\ Len(w) = 8
  OBVIOUS
<1>3. v \in Seq(1 .. 255) /\ v \in Seq(0 .. 255) /\ Len(v) = 8
  BY <1>1, <1>2, Zenon
<1> QED
  BY <1>3, Bytes DEF Entry

LEMMA ListIs ==
    ASSUME NEW call \in Calls
    PROVE  LET list == Values(call) c == Len(call.values) n == Len(call.types) IN
           /\ c \in Nat /\ n \in Nat
           /\ \A j \in 1 .. c : /\ list[j] = call.values[j] /\ list[j] \in Entry
                                /\ list[j] \in Seq(1 .. 255)
           /\ list[c + 1] = MarkerA /\ list[c + 2] = MarkerB
           /\ \A j \in c + 3 .. c + 2 + n : list[j] = Zeros(8)
<1> DEFINE c == Len(call.values)
           n == Len(call.types)
           zs == [i \in 1 .. n |-> Zeros(8)]
           ab == <<MarkerA, MarkerB>>
<1>1. call.values \in Seq([1 .. 8 -> 1 .. 255]) /\ c \in Nat /\ n \in Nat
  BY WireAssumption
<1>2. \A j \in 1 .. c : call.values[j] \in [1 .. 8 -> 1 .. 255]
  <2>1. \A S : call.values \in Seq(S) => \A j \in 1 .. Len(call.values) : call.values[j] \in S
    BY ElementOfSeq
  <2> QED
    BY <1>1, <2>1, Zenon
<1>3. \A j \in 1 .. c : call.values[j] \in Seq(1 .. 255) /\ call.values[j] \in Entry
  BY <1>2, EntryIs
<1>4. PICK x \in Seq(Mem) : x = call.values /\ Len(x) = c
  <2>1. \A j \in 1 .. c : call.values[j] \in Mem
    BY <1>3 DEF Entry
  <2>2. \A w, D : w \in Seq(D) /\ (\A j \in 1 .. Len(w) : w[j] \in Mem) => w \in Seq(Mem)
    OBVIOUS
  <2>3. call.values \in Seq(Mem)
    BY <2>1, <2>2, <1>1, Zenon
  <2> QED
    BY <2>3, Zenon
<1>5. PICK y \in Seq(Mem) : y = ab /\ Len(y) = 2 /\ y[1] = MarkerA /\ y[2] = MarkerB
  <2>1. \A a, b \in Mem : /\ <<a, b>> \in Seq(Mem) /\ Len(<<a, b>>) = 2
                          /\ <<a, b>>[1] = a /\ <<a, b>>[2] = b
    OBVIOUS
  <2> QED
    <3>1. MarkerA \in Mem /\ MarkerB \in Mem
      BY MarkersDiffer
    <3>2. ab \in Seq(Mem) /\ Len(ab) = 2 /\ ab[1] = MarkerA /\ ab[2] = MarkerB
      BY <2>1, <3>1, Zenon
    <3> HIDE DEF ab
    <3> QED
      BY <3>2, Zenon
<1>6. PICK z \in Seq(Mem) : z = zs /\ Len(z) = n /\ \A i \in 1 .. n : z[i] = Zeros(8)
  <2>1. Zeros(8) \in Mem
    BY MarkersDiffer
  <2>2. zs \in Seq(Mem) /\ Len(zs) = n /\ \A i \in 1 .. n : zs[i] = Zeros(8)
    BY <2>1, <1>1
  <2> HIDE DEF zs
  <2> QED
    BY <2>2
<1>7. PICK xy \in Seq(Mem) : /\ xy = x \o y /\ Len(xy) = Len(x) + Len(y)
                             /\ \A i \in 1 .. Len(x) : xy[i] = x[i]
                             /\ \A i \in 1 .. Len(y) : xy[Len(x) + i] = y[i]
  <2>1. /\ x \o y \in Seq(Mem) /\ Len(x \o y) = Len(x) + Len(y)
        /\ \A i \in 1 .. Len(x) : (x \o y)[i] = x[i]
        /\ \A i \in 1 .. Len(y) : (x \o y)[Len(x) + i] = y[i]
    BY ConcatIs
  <2> QED
    BY <2>1, Zenon
<1>8. PICK list \in Seq(Mem) : /\ list = xy \o z
                               /\ \A i \in 1 .. Len(xy) : list[i] = xy[i]
                               /\ \A i \in 1 .. Len(z) : list[Len(xy) + i] = z[i]
  <2>1. /\ xy \o z \in Seq(Mem)
        /\ \A i \in 1 .. Len(xy) : (xy \o z)[i] = xy[i]
        /\ \A i \in 1 .. Len(z) : (xy \o z)[Len(xy) + i] = z[i]
    BY ConcatIs
  <2> QED
    BY <2>1, Zenon
<1>9. Values(call) = list
  BY <1>4, <1>5, <1>6, <1>7, <1>8, Zenon DEF Values
<1> HIDE DEF c, n, zs, ab
<1>10. Len(xy) = c + 2 /\ Len(x) = c /\ Len(y) = 2
  BY <1>4, <1>5, <1>7
<1>11. \A j \in 1 .. c : list[j] = x[j]
  <2>1. \A j \in 1 .. c : j \in 1 .. Len(xy) /\ j \in 1 .. Len(x)
    BY <1>1, <1>10
  <2> QED
    BY <2>1, <1>7, <1>8, Zenon
<1>12. list[c + 1] = MarkerA /\ list[c + 2] = MarkerB
  <2>1. c + 1 \in 1 .. Len(xy) /\ c + 2 \in 1 .. Len(xy) /\ 1 \in 1 .. Len(y) /\ 2 \in 1 .. Len(y)
    BY <1>1, <1>10
  <2>2. xy[c + 1] = y[1] /\ xy[c + 2] = y[2]
    BY <2>1, <1>7, <1>10
  <2> QED
    BY <2>1, <2>2, <1>5, <1>8
<1>13. ASSUME NEW j \in c + 3 .. c + 2 + n PROVE list[j] = Zeros(8)
  <2>1. j - (c + 2) \in 1 .. n /\ j = Len(xy) + (j - (c + 2)) /\ Len(z) = n
    BY <1>1, <1>6, <1>10
  <2> QED
    BY <2>1, <1>6, <1>8
<1> QED
  BY <1>1, <1>3, <1>4, <1>9, <1>11, <1>12, <1>13 DEF c, n

\* What an entry is taken for can be added.
LEMMA FromListIs ==
    ASSUME NEW type \in Type \ {LO_FLOAT, LO_DOUBLE}, NEW v \in Entry,
           type \in Pointers => v \notin {MarkerA, MarkerB, Zeros(8)},
           v \in Seq(1 .. 255) \/ v \in {MarkerA, MarkerB, Zeros(8)}
    PROVE  /\ Passable(type, FromList(type, v))
           /\ type \in Empty => FromList(type, v) = <<>>
<1>1. v \in Seq(0 .. 255) /\ Len(v) = 8
  BY DEF Entry
<1>2. CASE type \in Empty
  <2>1. FromList(type, v) = <<>>
    BY <1>2 DEF FromList, Empty, LO_INT32, LO_MIDI, LO_CHAR, LO_TRUE, LO_FALSE, LO_NIL,
          LO_INFINITUM
  <2> QED
    BY <2>1, <1>2 DEF Passable
<1>3. CASE type \in {LO_INT32, LO_MIDI}
  <2>1. FromList(type, v) = SubSeq(v, 1, 4)
    BY <1>3 DEF FromList, Empty, LO_INT32, LO_MIDI, LO_CHAR, LO_TRUE, LO_FALSE, LO_NIL, LO_INFINITUM
  <2>2. SubSeq(v, 1, 4) \in Seq(0 .. 255) /\ Len(SubSeq(v, 1, 4)) = 4
    <3>1. ASSUME NEW S, NEW w \in Seq(S), Len(w) = 8
          PROVE  SubSeq(w, 1, 4) \in Seq(S) /\ Len(SubSeq(w, 1, 4)) = 4
      <4>1. \A i \in 1 .. 4 : w[i] \in S
        <5>1. \A i \in 1 .. 4 : i \in 1 .. Len(w)
          BY <3>1
        <5> QED
          BY <5>1, ElementOfSeq
      <4>2. /\ SubSeq(w, 1, 4) \in Seq(S)
            /\ Len(SubSeq(w, 1, 4)) = IF 1 <= 4 THEN 4 - 1 + 1 ELSE 0
        BY <4>1, SubSeqProperties
      <4> QED
        BY <4>2
    <3> QED
      BY <3>1, <1>1
  <2>3. type \in Four /\ type \notin Empty
    BY <1>3 DEF Four, Empty, LO_INT32, LO_MIDI, LO_TRUE, LO_FALSE, LO_NIL, LO_INFINITUM
  <2> QED
    BY <2>1, <2>2, <2>3, Zenon DEF Passable
<1>4. CASE type = LO_CHAR
  <2>1. FromList(type, v) = <<v[1], 0, 0, 0>>
    BY <1>4 DEF FromList, Empty, LO_INT32, LO_MIDI, LO_CHAR, LO_TRUE, LO_FALSE, LO_NIL, LO_INFINITUM
  <2>2. <<v[1], 0, 0, 0>> \in Seq(0 .. 255) /\ Len(<<v[1], 0, 0, 0>>) = 4
    <3>1. ASSUME NEW S, NEW a \in S, NEW b \in S
          PROVE  <<a, b, b, b>> \in Seq(S) /\ Len(<<a, b, b, b>>) = 4
      OBVIOUS
    <3>2. v[1] \in 0 .. 255 /\ 0 \in 0 .. 255
      <4>1. 1 \in 1 .. Len(v)
        BY <1>1
      <4>2. v[1] \in 0 .. 255
        <5>1. \A S : v \in Seq(S) => v[1] \in S
          BY <4>1, ElementOfSeq
        <5> QED
          BY <5>1, <1>1, Zenon
      <4> QED
        BY <4>2
    <3> QED
      BY <3>1, <3>2
  <2>3. type \in Four /\ type \notin Empty
    BY <1>4 DEF Four, Empty, LO_CHAR, LO_TRUE, LO_FALSE, LO_NIL, LO_INFINITUM
  <2> QED
    BY <2>1, <2>2, <2>3, Zenon DEF Passable
<1>5. CASE type \notin Empty /\ type \notin {LO_INT32, LO_MIDI} /\ type # LO_CHAR
  <2>1. FromList(type, v) = v
    BY <1>5 DEF FromList
  <2>2. type \in {LO_INT64, LO_TIMETAG} \/ type \in lo_string_types \/ type = LO_BLOB
    BY <1>5 DEF Type, Four, Eight, LO_FLOAT, LO_DOUBLE
  <2>3. CASE type \in {LO_INT64, LO_TIMETAG}
    BY <2>1, <2>3, <1>1, <1>5 DEF Passable, Eight
  <2>4. CASE type \in lo_string_types
    <3>1. v \in Seq(1 .. 255)
      BY <2>4 DEF Pointers
    <3> QED
      BY <3>1, <2>1, <2>4, <1>5, Zenon DEF Passable
  <2>5. CASE type = LO_BLOB
    <3>1. Len(v) <= LO_MAX_MSG_SIZE
      BY <1>1, WireAssumption
    <3> QED
      <4>1. v \in Seq(0 .. 255)
        BY <1>1, Zenon
      <4> QED
        <5>1. FromList(type, v) \in Seq(0 .. 255) /\ Len(FromList(type, v)) <= LO_MAX_MSG_SIZE
          BY <2>1, <3>1, <4>1
        <5>2. ASSUME NEW a, a \in Seq(0 .. 255), Len(a) <= LO_MAX_MSG_SIZE
              PROVE  Passable(LO_BLOB, a)
          BY <5>2, Zenon DEF Passable
        <5> QED
          BY <5>1, <5>2, <2>5, <1>5
  <2> QED
    BY <2>2, <2>3, <2>4, <2>5, <1>5
<1> QED
  BY <1>2, <1>3, <1>4, <1>5

LEMMA PlaceIs ==
    ASSUME NEW types \in Seq(Nat), NEW i \in 1 .. Len(types)
    PROVE  /\ Place(types, i - 1) \in Nat
           /\ Place(types, i) = IF types[i] \in Type \ Empty THEN Place(types, i - 1) + 1
                                ELSE Place(types, i - 1)
<1> DEFINE Counted(j) == {k \in 1 .. j : types[k] \in Type \ Empty}
<1>1. IsFiniteSet(Counted(i - 1)) /\ Cardinality(Counted(i - 1)) \in Nat
  <2>1. IsFiniteSet(1 .. i - 1)
    BY FS_Interval
  <2>2. Counted(i - 1) \in SUBSET (1 .. i - 1)
    OBVIOUS
  <2> HIDE DEF Counted
  <2> QED
    BY <2>1, <2>2, FS_Subset, FS_CardinalityType
<1>2. CASE types[i] \in Type \ Empty
  <2>1. Counted(i) = Counted(i - 1) \cup {i} /\ i \notin Counted(i - 1)
    <3>1. \A k : k \in 1 .. i <=> k \in 1 .. i - 1 \/ k = i
      OBVIOUS
    <3>2. i \notin 1 .. i - 1
      OBVIOUS
    <3> QED
      BY <3>1, <3>2, <1>2, Zenon
  <2>2. Cardinality(Counted(i)) = Cardinality(Counted(i - 1)) + 1
    <3> HIDE DEF Counted
    <3> QED
      BY <2>1, <1>1, FS_AddElement
  <2> QED
    BY <2>2, <1>1, <1>2, Zenon DEF Place
<1>3. CASE types[i] \notin Type \ Empty
  <2>1. Counted(i) = Counted(i - 1)
    <3>1. \A k : k \in 1 .. i <=> k \in 1 .. i - 1 \/ k = i
      OBVIOUS
    <3> QED
      BY <3>1, <1>3, Zenon
  <2> QED
    BY <2>1, <1>1, <1>3, Zenon DEF Place
<1> QED
  BY <1>2, <1>3

LEMMA PlaceZero == \A types : Place(types, 0) = 0
<1> SUFFICES ASSUME NEW types PROVE Place(types, 0) = 0
  OBVIOUS
<1>1. {k \in 1 .. 0 : types[k] \in Type \ Empty} = {}
  OBVIOUS
<1> QED
  BY <1>1, FS_EmptySet DEF Place

\* "$$" begins here.
Ends(types, j) == j < Len(types) /\ types[j] = Dollar /\ types[j + 1] = Dollar

LEMMA CheckedIs ==
    ASSUME NEW call \in Calls
    PROVE  LET types == call.types n == Len(types) IN
           /\ types \in Seq(Nat) /\ n \in Nat
           /\ \/ Checked(call) = types /\ \A j \in 1 .. n : ~ Ends(types, j)
              \/ \E k \in 1 .. n : /\ Ends(types, k) /\ \A j \in 1 .. k - 1 : ~ Ends(types, j)
                                   /\ Checked(call) # types /\ Len(Checked(call)) = k - 1
                                   /\ \A j \in 1 .. k - 1 : Checked(call)[j] = types[j]
<1> DEFINE types == call.types
           n == Len(types)
           ends == {i \in 1 .. n - 1 : types[i] = Dollar /\ types[i + 1] = Dollar}
<1>1. types \in Seq(Nat) /\ n \in Nat
  <2>1. types \in Seq((1 .. 255) \ {LO_FLOAT, LO_DOUBLE})
    BY WireAssumption
  <2>2. \A S, T : S \subseteq T => Seq(S) \subseteq Seq(T)
    BY SeqMonotonic
  <2>3. (1 .. 255) \ {LO_FLOAT, LO_DOUBLE} \subseteq Nat
    OBVIOUS
  <2>4. \A w \in Seq(Nat) : Len(w) \in Nat
    OBVIOUS
  <2> HIDE DEF types
  <2> QED
    <3>1. Below((1 .. 255) \ {LO_FLOAT, LO_DOUBLE}, Nat)
      BY <2>3 DEF Below
    <3>2. Below(Seq((1 .. 255) \ {LO_FLOAT, LO_DOUBLE}), Seq(Nat))
      BY <3>1, SeqGrows
    <3>3. types \in Seq(Nat)
      BY <2>1, <3>2, Zenon DEF Below
    <3> QED
      BY <3>3, <2>4, Zenon
<1>2. Checked(call) = IF ends = {} THEN types ELSE SubSeq(types, 1, Min(ends) - 1)
  BY Zenon DEF Checked
<1> HIDE DEF types
<1>3. ends \in SUBSET Nat /\ \A j \in 1 .. n : j \in ends <=> Ends(types, j)
  BY <1>1 DEF Ends
<1>4. CASE ends = {}
  <2> HIDE DEF ends
  <2> QED
    BY <1>1, <1>2, <1>3, <1>4 DEF types
<1>5. CASE ends # {}
  <2>1. \A j \in ends : j \in 1 .. n
    BY <1>1
  <2> HIDE DEF ends
  <2>2. PICK k \in ends : k = Min(ends) /\ \A j \in ends : k <= j
    BY <1>3, <1>5, MinIs
  <2>3. k \in 1 .. n
    BY <2>1
  <2>4. Ends(types, k)
    BY <2>3, <1>3
  <2>5. \A j \in 1 .. k - 1 : ~ Ends(types, j)
    <3>1. \A j \in 1 .. k - 1 : j \in 1 .. n /\ ~(k <= j)
      BY <2>3, <1>1
    <3> QED
      BY <3>1, <2>2, <1>3
  <2>6. Checked(call) = SubSeq(types, 1, k - 1)
    BY <2>2, <1>2, <1>5
  <2>7. /\ Len(SubSeq(types, 1, k - 1)) = k - 1 /\ SubSeq(types, 1, k - 1) # types
        /\ \A j \in 1 .. k - 1 : SubSeq(types, 1, k - 1)[j] = types[j]
    BY <2>3, <1>1
  <2> QED
    BY <2>3, <2>4, <2>5, <2>6, <2>7, <1>1 DEF types
<1> QED
  BY <1>4, <1>5

WantedUpTo(f, call, n) ==
    f = [i \in 0 .. n |->
            IF i = 0 THEN <<>>
            ELSE IF call.types[i] \in Type THEN Append(f[i - 1], WantedArg(call, i))
            ELSE f[i - 1]]

LEMMA WantedExists ==
    ASSUME NEW call, NEW n \in Nat
    PROVE  \E f : WantedUpTo(f, call, n)
<1> DEFINE After(i, v) == IF call.types[i] \in Type THEN Append(v, WantedArg(call, i)) ELSE v
           R == {WantedArg(call, i) : i \in 1 .. n}
           S == Seq(R)
           start == <<>>
           g == [i \in 1 .. n |-> [v \in S |-> After(i, v)]]
<1>1. \A i \in 1 .. n : \A v \in S : g[i][v] = After(i, v) /\ g[i][v] \in S
  <2> SUFFICES ASSUME NEW i \in 1 .. n, NEW v \in S PROVE g[i][v] = After(i, v) /\ g[i][v] \in S
    OBVIOUS
  <2>1. g[i][v] = After(i, v)
    <3> HIDE DEF After, S
    <3> QED
      OBVIOUS
  <2>2. After(i, v) \in S
    <3>1. WantedArg(call, i) \in R
      OBVIOUS
    <3>2. v \in Seq(R)
      OBVIOUS
    <3> DEFINE x == WantedArg(call, i)
    <3> HIDE DEF R, x
    <3>3. Append(v, x) \in Seq(R)
      BY <3>1, <3>2 DEF x
    <3> QED
      BY <3>2, <3>3 DEF x
  <2> HIDE DEF g, After, S
  <2> QED
    BY <2>1, <2>2
<1>2. start \in S
  OBVIOUS
<1> HIDE DEF g, S, After, start
<1>3. PICK f \in [0 .. n -> S] : Iterates(f, n, start, g)
  BY <1>1, <1>2, IterationInto
<1>4. \A i \in 0 .. n : f[i] = IF i = 0 THEN start ELSE g[i][f[i - 1]]
  BY <1>3 DEF Iterates
<1>5. \A i \in 0 .. n : i = 0 \/ (i \in 1 .. n /\ f[i - 1] \in S)
  OBVIOUS
<1>6. \A i \in 0 .. n : f[i] = IF i = 0 THEN start ELSE After(i, f[i - 1])
  BY <1>1, <1>4, <1>5
<1>7. f = [i \in 0 .. n |-> IF i = 0 THEN start ELSE After(i, f[i - 1])]
  BY <1>6
<1> QED
  BY <1>7, Zenon DEF WantedUpTo, After, start

\* What a call asks for, type by type.
Wants(W, call) ==
    /\ W[0] = <<>>
    /\ \A i \in 1 .. Len(call.types) :
          W[i] = IF call.types[i] \in Type THEN Append(W[i - 1], WantedArg(call, i))
                 ELSE W[i - 1]

LEMMA WantedTurns ==
    ASSUME NEW call, NEW n \in Nat, NEW f, WantedUpTo(f, call, n)
    PROVE  /\ f[0] = <<>>
           /\ \A i \in 1 .. n :
                f[i] = IF call.types[i] \in Type THEN Append(f[i - 1], WantedArg(call, i))
                       ELSE f[i - 1]
<1> DEFINE After(i, v) == IF call.types[i] \in Type THEN Append(v, WantedArg(call, i)) ELSE v
           start == <<>>
<1>1. f = [i \in 0 .. n |-> IF i = 0 THEN start ELSE After(i, f[i - 1])]
  BY Zenon DEF WantedUpTo
<1> HIDE DEF After, start
<1>2. \A i \in 0 .. n : f[i] = IF i = 0 THEN start ELSE After(i, f[i - 1])
  BY <1>1
<1>3. 0 \in 0 .. n /\ \A i \in 1 .. n : i \in 0 .. n /\ i # 0
  OBVIOUS
<1>4. f[0] = start /\ \A i \in 1 .. n : f[i] = After(i, f[i - 1])
  BY <1>2, <1>3
<1> QED
  BY <1>4, Zenon DEF After, start

LEMMA WantedIs ==
    ASSUME NEW call \in Calls
    PROVE  \E W : /\ Wants(W, call) /\ Wanted(call) = W[Len(Checked(call))]
                  /\ Len(Checked(call)) \in 0 .. Len(call.types)
<1> DEFINE n == Len(call.types)
           m == Len(Checked(call))
<1>1. n \in Nat /\ m \in 0 .. n
  <2>1. n \in Nat
    BY CheckedIs
  <2>2. CASE Checked(call) = call.types
    BY <2>1, <2>2
  <2>3. CASE \E k \in 1 .. n : m = k - 1
    BY <2>1, <2>3
  <2> QED
    BY <2>2, <2>3, CheckedIs
<1> HIDE DEF n, m
<1>2. PICK W : WantedUpTo(W, call, n)
  BY <1>1, WantedExists
<1>3. PICK f : WantedUpTo(f, call, m)
  BY <1>1, WantedExists
<1> DEFINE c == CHOOSE h : WantedUpTo(h, call, m)
<1>4. WantedUpTo(c, call, m)
  BY <1>3, Zenon
<1>5. Wanted(call) = c[m]
  BY Zenon DEF Wanted, WantedUpTo, m
<1> HIDE DEF c
<1> DEFINE After(i, v) == IF call.types[i] \in Type THEN Append(v, WantedArg(call, i)) ELSE v
<1>6. /\ W[0] = <<>> /\ \A i \in 1 .. n : W[i] = After(i, W[i - 1])
      /\ c[0] = <<>> /\ \A i \in 1 .. m : c[i] = After(i, c[i - 1])
  <2>1. m \in Nat
    BY <1>1
  <2>2. W[0] = <<>> /\ \A i \in 1 .. n : W[i] = After(i, W[i - 1])
    BY <1>1, <1>2, WantedTurns, Zenon
  <2>3. c[0] = <<>> /\ \A i \in 1 .. m : c[i] = After(i, c[i - 1])
    BY <2>1, <1>4, WantedTurns, Zenon
  <2> QED
    BY <2>2, <2>3
<1> HIDE DEF After
<1>7. \A i \in 0 .. m : c[i] = W[i]
  <2>1. \A i \in 1 .. m : i \in 1 .. n
    BY <1>1
  <2>2. c[0] = W[0] /\ \A i \in 1 .. m : c[i - 1] = W[i - 1] => c[i] = W[i]
    BY <2>1, <1>6
  <2>3. m \in Nat
    BY <1>1
  <2> QED
    BY <2>2, <2>3, IterationSame
<1>8. c[m] = W[m]
  BY <1>1, <1>7
<1>9. Wants(W, call)
  BY <1>6, Zenon DEF Wants, After, n
<1> QED
  BY <1>1, <1>5, <1>8, <1>9 DEF n, m

LEMMA PlaceWithin ==
    ASSUME NEW types \in Seq(Nat), NEW i \in 0 .. Len(types)
    PROVE  Place(types, i) \in Nat /\ Place(types, i) <= i
<1> DEFINE n == Len(types)
           f == [j \in 0 .. n |-> Place(types, j)]
           Low(j) == 0 .. j
           V == [j \in 0 .. n |-> Low(j)]
<1>1. n \in Nat
  OBVIOUS
<1>2. \A j \in 0 .. n : f[j] = Place(types, j)
  BY Zenon
<1>3. \A j \in 0 .. n : V[j] = Low(j)
  BY Zenon
<1> HIDE DEF f, V
<1>4. 0 \in 0 .. n /\ \A j \in 1 .. n : j \in 0 .. n /\ j - 1 \in 0 .. n
  BY <1>1
<1>5. f[0] \in V[0]
  <2>1. 0 \in Low(0)
    OBVIOUS
  <2> HIDE DEF Low
  <2> QED
    BY <2>1, <1>2, <1>3, <1>4, PlaceZero, Zenon
<1>6. ASSUME NEW j \in 1 .. n, f[j - 1] \in V[j - 1] PROVE f[j] \in V[j]
  <2>1. Place(types, j - 1) \in Low(j - 1)
    BY <1>2, <1>3, <1>4, <1>6, Zenon
  <2>2. Place(types, j) = Place(types, j - 1) + 1 \/ Place(types, j) = Place(types, j - 1)
    BY PlaceIs
  <2>3. Place(types, j) \in Low(j)
    BY <2>1, <2>2
  <2> QED
    BY <2>3, <1>2, <1>3, <1>4, Zenon
<1>7. \A j \in 0 .. n : f[j] \in V[j]
  BY <1>1, <1>5, <1>6, IterationIn
<1>8. Place(types, i) \in Low(i)
  BY <1>2, <1>3, <1>7, Zenon
<1> QED
  BY <1>8

Turn == [msg : Message, taken : Nat, ret : {0, -1, -2, Undefined}, over : BOOLEAN]

\* Where the loop over the types is after i turns.  The arguments that the message
\* holds are those asked for up to there, if there were values for all of them.
Turned(call, W, i, s) ==
    LET types == call.types
        Asked(args, k) == Place(types, k) <= Len(call.values) => args = W[k]
    IN  \E args \in Seq(Argument) :
           /\ Built(s.msg, args)
           /\ ~ s.over => /\ s.taken = Place(types, i) /\ Asked(args, i)
                          /\ \A j \in 1 .. i : ~ Ends(types, j)
           /\ s.over /\ s.ret = 0 =>
                \E k \in 1 .. i : /\ Ends(types, k) /\ Asked(args, k - 1)
                                  /\ \A j \in 1 .. k - 1 : ~ Ends(types, j)

LEMMA PrefixOfTwo ==
    ASSUME NEW x \in Seq(Nat), NEW y \in Seq(Nat), Len(x) = 2, Len(y) >= 2
    PROVE  IsPrefix(x, y) <=> x[1] = y[1] /\ x[2] = y[2]
<1> DEFINE z == SubSeq(y, 1, 2)
           w == SubSeq(x, 1, 2)
<1>1. \A s \in Seq(Nat) : Len(s) >= 2 =>
         /\ SubSeq(s, 1, 2) \in Seq(Nat) /\ Len(SubSeq(s, 1, 2)) = 2
         /\ SubSeq(s, 1, 2)[1] = s[1] /\ SubSeq(s, 1, 2)[2] = s[2]
  OBVIOUS
<1>5. Len(x) >= 2
  OBVIOUS
<1>2. /\ z \in Seq(Nat) /\ Len(z) = 2 /\ z[1] = y[1] /\ z[2] = y[2]
      /\ w \in Seq(Nat) /\ Len(w) = 2 /\ w[1] = x[1] /\ w[2] = x[2]
  BY <1>1, <1>5, Zenon
<1>3. IsPrefix(x, y) <=> w = z
  BY DEF IsPrefix
<1> HIDE DEF w, z
<1>4. ASSUME NEW s \in Seq(Nat), NEW t \in Seq(Nat), Len(s) = 2, Len(t) = 2,
             s[1] = t[1], s[2] = t[2]
      PROVE  s = t
  <2>1. \A i \in 1 .. Len(s) : i = 1 \/ i = 2
    BY <1>4
  <2>2. \A i \in 1 .. Len(s) : s[i] = t[i]
    BY <2>1, <1>4
  <2>3. s \in Mem /\ t \in Mem /\ Len(s) = Len(t)
    BY <1>4 DEF Mem
  <2> QED
    BY <2>2, <2>3, SameMem
<1> QED
  BY <1>2, <1>3, <1>4

LEMMA EndsIs ==
    ASSUME NEW types \in Seq(Nat), NEW i \in 1 .. Len(types)
    PROVE  LET rest == SubSeq(types, i, Len(types)) IN
           Head(rest) = types[i] /\ (IsPrefix(<<Dollar, Dollar>>, rest) <=> Ends(types, i))
<1>1. PICK n \in Nat : n = Len(types) /\ i \in 1 .. n
  OBVIOUS
<1>2. PICK rest : rest = SubSeq(types, i, n)
  OBVIOUS
<1>3. /\ rest \in Seq(Nat) /\ Len(rest) = n - i + 1
      /\ \A k \in 1 .. n - i + 1 : rest[k] = types[i + k - 1]
  <2>1. \A j \in i .. n : types[j] \in Nat
    BY <1>1
  <2>2. /\ SubSeq(types, i, n) \in Seq(Nat)
        /\ Len(SubSeq(types, i, n)) = IF i <= n THEN n - i + 1 ELSE 0
        /\ \A k \in 1 .. n - i + 1 : SubSeq(types, i, n)[k] = types[i + k - 1]
    BY <2>1, <1>1, SubSeqProperties
  <2> QED
    BY <2>2, <1>1, <1>2
<1>4. Head(rest) = types[i]
  <2>1. 1 \in 1 .. n - i + 1 /\ i + 1 - 1 = i
    BY <1>1
  <2>2. rest[1] = types[i]
    BY <2>1, <1>3
  <2> QED
    BY <2>2, <1>1, <1>3
<1>5. CASE Len(rest) < 2
  <2>1. ~(i < n)
    BY <1>1, <1>3, <1>5
  <2>2. Len(<<Dollar, Dollar>>) = 2
    OBVIOUS
  <2>3. ~ IsPrefix(<<Dollar, Dollar>>, rest)
    BY <2>2, <1>5, <1>3 DEF IsPrefix
  <2> QED
    BY <2>1, <2>3, <1>1, <1>2, <1>4 DEF Ends
<1>6. CASE Len(rest) >= 2
  <2>1. i < n /\ 1 \in 1 .. n - i + 1 /\ 2 \in 1 .. n - i + 1 /\ i + 1 - 1 = i /\ i + 2 - 1 = i + 1
    BY <1>1, <1>3, <1>6
  <2>2. rest[1] = types[i] /\ rest[2] = types[i + 1]
    BY <2>1, <1>3
  <2>3. PICK dd \in Seq(Nat) : dd = <<Dollar, Dollar>> /\ Len(dd) = 2 /\ dd[1] = Dollar /\ dd[2] = Dollar
    <3>1. \A a \in Nat : /\ <<a, a>> \in Seq(Nat) /\ Len(<<a, a>>) = 2
                         /\ <<a, a>>[1] = a /\ <<a, a>>[2] = a
      OBVIOUS
    <3>2. Dollar \in Nat
      BY DEF Dollar
    <3>3. <<Dollar, Dollar>> \in Seq(Nat) /\ Len(<<Dollar, Dollar>>) = 2
          /\ <<Dollar, Dollar>>[1] = Dollar /\ <<Dollar, Dollar>>[2] = Dollar
      BY <3>1, <3>2, Zenon
    <3> QED
      BY <3>3, Zenon
  <2>4. IsPrefix(dd, rest) <=> dd[1] = rest[1] /\ dd[2] = rest[2]
    BY <2>3, <1>3, <1>6, PrefixOfTwo
  <2> QED
    BY <2>1, <2>2, <2>3, <2>4, <1>1, <1>2, <1>4 DEF Ends
<1> QED
  BY <1>1, <1>3, <1>5, <1>6

\* The types of a call are codes, floats and doubles are not among them.
LEMMA CallTypes ==
    ASSUME NEW call \in Calls, NEW i \in 1 .. Len(call.types)
    PROVE  call.types[i] # LO_FLOAT /\ call.types[i] # LO_DOUBLE
<1>1. call.types \in Seq((1 .. 255) \ {LO_FLOAT, LO_DOUBLE})
  BY WireAssumption
<1>2. call.types[i] \in (1 .. 255) \ {LO_FLOAT, LO_DOUBLE}
  BY <1>1, ElementOfSeq
<1> QED
  BY <1>2

\* The entry that a turn finds.
LEMMA EntryFound ==
    ASSUME NEW call \in Calls, NEW k \in 0 .. Len(call.types)
    PROVE  LET v == Values(call)[k + 1] c == Len(call.values) IN
           /\ v \in Entry
           /\ v \in Seq(1 .. 255) \/ v \in {MarkerA, MarkerB, Zeros(8)}
           /\ k + 1 <= c => v = call.values[k + 1]
           /\ Marks(v, MarkerA) /\ k >= c => k = c
<1> DEFINE c == Len(call.values)
           n == Len(call.types)
           list == Values(call)
<1>1. /\ c \in Nat /\ n \in Nat
      /\ \A j \in 1 .. c : list[j] = call.values[j] /\ list[j] \in Entry /\ list[j] \in Seq(1 .. 255)
      /\ list[c + 1] = MarkerA /\ list[c + 2] = MarkerB
      /\ \A j \in c + 3 .. c + 2 + n : list[j] = Zeros(8)
  BY ListIs
<1> HIDE DEF c, n, list
<1>2. k \in 0 .. n
  BY DEF n
<1>3. MarkerA \in Entry /\ MarkerB \in Entry /\ Zeros(8) \in Entry
  BY MarkersDiffer DEF Entry
<1>4. CASE k + 1 <= c
  <2>1. k + 1 \in 1 .. c /\ ~(k >= c)
    BY <1>1, <1>2, <1>4
  <2> QED
    BY <2>1, <1>1 DEF c, list
<1>5. CASE k = c
  <2>1. list[k + 1] = MarkerA /\ ~(k + 1 <= c)
    BY <1>1, <1>5
  <2> QED
    BY <2>1, <1>3, <1>5 DEF c, list
<1>6. CASE k = c + 1
  <2>1. list[k + 1] = MarkerB /\ ~(k + 1 <= c)
    <3>1. k + 1 = c + 2 /\ ~(k + 1 <= c)
      BY <1>1, <1>6
    <3> QED
      BY <3>1, <1>1
  <2> QED
    BY <2>1, <1>3, OthersDoNotMark DEF c, list
<1>7. CASE k >= c + 2
  <2>1. k + 1 \in c + 3 .. c + 2 + n /\ ~(k + 1 <= c)
    BY <1>1, <1>2, <1>7
  <2>2. list[k + 1] = Zeros(8)
    BY <2>1, <1>1
  <2> QED
    BY <2>1, <2>2, <1>3, OthersDoNotMark DEF c, list
<1>8. k + 1 <= c \/ k = c \/ k = c + 1 \/ k >= c + 2
  BY <1>1, <1>2
<1> QED
  BY <1>4, <1>5, <1>6, <1>7, <1>8

LEMMA TurnStep ==
    ASSUME NEW call \in Calls, NEW W, Wants(W, call), NEW i \in 1 .. Len(call.types),
           NEW s \in Turn, Turned(call, W, i - 1, s)
    PROVE  LET t == AddTurn(s, SubSeq(call.types, i, Len(call.types)), Values(call)[s.taken + 1])
           IN  t \in Turn /\ Turned(call, W, i, t)
<1> DEFINE types == call.types
           n == Len(types)
           c == Len(call.values)
           rest == SubSeq(types, i, n)
           v == Values(call)[s.taken + 1]
           t == AddTurn(s, rest, v)
           type == types[i]
           Asked(args, k) == Place(types, k) <= c => args = W[k]
<1>0. /\ types \in Seq(Nat) /\ n \in Nat /\ c \in Nat /\ Undefined \notin {0, -1, -2}
      /\ i - 1 \in 0 .. n /\ \A j \in 1 .. i - 1 : j \in 1 .. i
  BY CheckedIs, ListIs DEF Undefined
<1>1. PICK args \in Seq(Argument) :
         /\ Built(s.msg, args)
         /\ ~ s.over => /\ s.taken = Place(types, i - 1) /\ Asked(args, i - 1)
                        /\ \A j \in 1 .. i - 1 : ~ Ends(types, j)
         /\ s.over /\ s.ret = 0 =>
              \E k \in 1 .. i - 1 : /\ Ends(types, k) /\ Asked(args, k - 1)
                                    /\ \A j \in 1 .. k - 1 : ~ Ends(types, j)
  BY Zenon DEF Turned
<1>2. Head(rest) = type /\ (IsPrefix(<<Dollar, Dollar>>, rest) <=> Ends(types, i))
  BY <1>0, EndsIs
<1>3. t = IF s.over THEN s
          ELSE IF Ends(types, i) THEN [s EXCEPT !.over = TRUE, !.ret = 0]
          ELSE IF type \notin Type THEN [s EXCEPT !.ret = -1]
          ELSE IF type = LO_SYMBOL /\ v = MarkerA THEN [s EXCEPT !.over = TRUE, !.ret = -2]
          ELSE IF type \in Pointers /\ v \in {MarkerA, MarkerB, Zeros(8)}
               THEN [s EXCEPT !.over = TRUE, !.ret = Undefined]
          ELSE [s EXCEPT !.msg = WithArg(@, type, FromList(type, v)),
                         !.taken = IF type \in Empty THEN @ ELSE @ + 1]
  <2> HIDE DEF rest, v, types
  <2> QED
    BY <1>2, Zenon DEF AddTurn
<1>4. /\ s.msg \in Message /\ s.taken \in Nat /\ s.over \in BOOLEAN
      /\ s.ret \in {0, -1, -2, Undefined}
  BY DEF Turn
<1>5. /\ Place(types, i - 1) \in Nat /\ Place(types, i - 1) <= i - 1
      /\ Place(types, i) = IF type \in Type \ Empty THEN Place(types, i - 1) + 1
                           ELSE Place(types, i - 1)
  BY <1>0, PlaceIs, PlaceWithin
<1>6. W[i] = IF type \in Type THEN Append(W[i - 1], WantedArg(call, i)) ELSE W[i - 1]
  BY Zenon DEF Wants
<1> HIDE DEF t, rest, v, type, n, c, Asked
<1>7. CASE s.over
  <2>1. t = s
    BY <1>3, <1>7
  <2>2. s.ret = 0 =>
              \E k \in 1 .. i : /\ Ends(types, k) /\ Asked(args, k - 1)
                                /\ \A j \in 1 .. k - 1 : ~ Ends(types, j)
    BY <1>0, <1>1, <1>7, Zenon
  <2>3. Turned(call, W, i, s)
    BY <2>2, <1>1, <1>7, Zenon DEF Turned, Asked, c
  <2> QED
    BY <2>1, <2>3 DEF t, rest, v, n
<1>8. CASE ~ s.over /\ Ends(types, i)
  <2>1. t = [s EXCEPT !.over = TRUE, !.ret = 0]
    BY <1>3, <1>8
  <2>2. t.msg = s.msg /\ t.over /\ t \in Turn
    BY <2>1 DEF Turn
  <2>3. i \in 1 .. i
    OBVIOUS
  <2>4. Turned(call, W, i, t)
    BY <2>2, <2>3, <1>1, <1>8, Zenon DEF Turned, Asked, c
  <2> QED
    BY <2>2, <2>4 DEF t, rest, v, n
<1>9. \A j \in 1 .. i : j \in 1 .. i - 1 \/ j = i
  OBVIOUS
<1>10. CASE ~ s.over /\ ~ Ends(types, i) /\ type \notin Type
  <2>1. t = [s EXCEPT !.ret = -1]
    BY <1>3, <1>10
  <2>2. t.msg = s.msg /\ t.over = s.over /\ t.taken = s.taken /\ t \in Turn
    BY <2>1 DEF Turn
  <2>3. Place(types, i) = Place(types, i - 1) /\ W[i] = W[i - 1]
    BY <1>5, <1>6, <1>10
  <2>4. \A j \in 1 .. i : ~ Ends(types, j)
    BY <1>1, <1>9, <1>10
  <2>5. Turned(call, W, i, t)
    BY <2>2, <2>3, <2>4, <1>1, <1>10, Zenon DEF Turned, Asked, c
  <2> QED
    BY <2>2, <2>5 DEF t, rest, v, n
<1>11. CASE /\ ~ s.over /\ ~ Ends(types, i) /\ type \in Type
            /\ \/ type = LO_SYMBOL /\ v = MarkerA
               \/ type \in Pointers /\ v \in {MarkerA, MarkerB, Zeros(8)}
  <2>1. PICK r \in {-2, Undefined} : t = [s EXCEPT !.over = TRUE, !.ret = r]
    BY <1>3, <1>11
  <2>2. t.msg = s.msg /\ t.over /\ t.ret = r /\ t \in Turn
    BY <2>1 DEF Turn
  <2>3. t.ret # 0
    BY <2>2, <1>0 DEF Undefined
  <2>4. Turned(call, W, i, t)
    BY <2>2, <2>3, <1>1, Zenon DEF Turned
  <2> QED
    BY <2>2, <2>4 DEF t, rest, v, n
<1>12. CASE /\ ~ s.over /\ ~ Ends(types, i) /\ type \in Type
            /\ ~(type = LO_SYMBOL /\ v = MarkerA)
            /\ ~(type \in Pointers /\ v \in {MarkerA, MarkerB, Zeros(8)})
  <2> DEFINE a == FromList(type, v)
             m2 == WithArg(s.msg, type, a)
             more == Append(args, Typed(type, a))
  <2>1. /\ v \in Entry /\ (v \in Seq(1 .. 255) \/ v \in {MarkerA, MarkerB, Zeros(8)})
        /\ s.taken + 1 <= c => v = call.values[s.taken + 1]
    <3>1. s.taken \in 0 .. n
      BY <1>0, <1>1, <1>4, <1>5, <1>12 DEF n
    <3> QED
      BY <3>1, EntryFound DEF v, c, n
  <2>2. Passable(type, a) /\ (type \in Empty => a = <<>>)
    <3>1. type \in Type \ {LO_FLOAT, LO_DOUBLE}
      BY <1>12, CallTypes DEF type
    <3> QED
      BY <3>1, <2>1, <1>12, FromListIs
  <2>3. more \in Seq(Argument) /\ Built(m2, more)
    BY <2>2, <1>1, WithArgIsBuilt
  <2>4. t = [s EXCEPT !.msg = m2, !.taken = IF type \in Empty THEN @ ELSE @ + 1]
    BY <1>3, <1>12, Zenon
  <2> HIDE DEF m2
  <2>5. PICK taken \in Nat : /\ taken = IF type \in Empty THEN s.taken ELSE s.taken + 1
                             /\ t = [s EXCEPT !.msg = m2, !.taken = taken]
    <3>1. (IF type \in Empty THEN s.taken ELSE s.taken + 1) \in Nat
      BY <1>4
    <3> QED
      BY <3>1, <2>4, Zenon
  <2>6. t.msg = m2 /\ t.taken = taken /\ t.over = s.over /\ t \in Turn
    <3>1. m2 \in Message
      BY <2>3 DEF Built
    <3> QED
      BY <3>1, <2>5 DEF Turn
  <2>7. taken = Place(types, i)
    BY <2>5, <1>1, <1>5, <1>12
  <2>8. ASSUME Place(types, i) <= c PROVE more = W[i]
    <3>1. args = W[i - 1]
      <4>1. Place(types, i - 1) <= c
        BY <2>8, <1>0, <1>5 DEF c
      <4> QED
        BY <4>1, <1>1, <1>12 DEF Asked
    <3>2. WantedArg(call, i) = Typed(type, a)
      <4>1. WantedArg(call, i) =
               Typed(type, IF type \in Empty \/ Place(types, i) > c THEN <<>>
                           ELSE FromList(type, call.values[Place(types, i)]))
        BY Zenon DEF WantedArg, type, c
      <4>2. CASE type \in Empty
        BY <4>1, <4>2, <2>2
      <4>3. CASE type \notin Empty
        <5>1. ~(Place(types, i) > c) /\ Place(types, i) = s.taken + 1 /\ s.taken + 1 <= c
          BY <4>3, <2>5, <2>7, <2>8, <1>0, <1>4 DEF c
        <5> QED
          BY <4>1, <4>3, <5>1, <2>1
      <4> QED
        BY <4>2, <4>3
    <3>3. W[i] = Append(W[i - 1], WantedArg(call, i))
      BY <1>6, <1>12
    <3> QED
      BY <3>1, <3>2, <3>3, Zenon
  <2>9. \A j \in 1 .. i : ~ Ends(types, j)
    BY <1>1, <1>9, <1>12
  <2> HIDE DEF more
  <2>10. Turned(call, W, i, t)
    BY <2>3, <2>6, <2>7, <2>8, <2>9, <1>12, Zenon DEF Turned, c
  <2> QED
    BY <2>6, <2>10 DEF t, rest, v, n
<1> QED
  BY <1>4, <1>7, <1>8, <1>10, <1>11, <1>12

TurnsOf(f, m, call) ==
    f = [i \in 0 .. Len(call.types) |->
            IF i = 0 THEN [msg |-> m, taken |-> 0, ret |-> 0, over |-> FALSE]
            ELSE AddTurn(f[i - 1], SubSeq(call.types, i, Len(call.types)),
                         Values(call)[f[i - 1].taken + 1])]

\* The turns of the loop, for a message that is new.
LEMMA TurnsAre ==
    ASSUME NEW call \in Calls, NEW W, Wants(W, call)
    PROVE  \E e \in Turn :
              /\ Turned(call, W, Len(call.types), e)
              /\ lo_message_add_varargs_internal(lo_message_new, call) =
                    Added(e.msg, IF e.over \/ (/\ Marks(Values(call)[e.taken + 1], MarkerA)
                                               /\ Marks(Values(call)[e.taken + 2], MarkerB))
                                 THEN e.ret ELSE -2)
<1> DEFINE n == Len(call.types)
           start == [msg |-> lo_message_new, taken |-> 0, ret |-> 0, over |-> FALSE]
           After(i, s) == AddTurn(s, SubSeq(call.types, i, n), Values(call)[s.taken + 1])
           S(i) == {s \in Turn : Turned(call, W, i, s)}
           V == [i \in 0 .. n |-> S(i)]
           g == [i \in 1 .. n |-> [s \in S(i - 1) |-> After(i, s)]]
<1>1. n \in Nat
  BY CheckedIs
<1>2. \A i \in 0 .. n : V[i] = S(i)
  BY Zenon
<1>3. \A i \in 1 .. n : \A s \in S(i - 1) : g[i][s] = After(i, s)
  <2> HIDE DEF S, After, n
  <2> QED
    OBVIOUS
<1> HIDE DEF V, g
<1>4. \A i \in 1 .. n : \A s \in S(i - 1) : After(i, s) \in S(i)
  BY TurnStep
<1>5. start \in S(0)
  <2>1. start \in Turn /\ start.msg = lo_message_new /\ start.taken = 0 /\ start.over = FALSE
    BY NewIsBuilt DEF Turn, Built
  <2>2. W[0] = <<>> /\ Place(call.types, 0) = 0 /\ 1 .. 0 = {}
    BY PlaceZero DEF Wants
  <2> HIDE DEF start
  <2>3. Turned(call, W, 0, start)
    BY <2>1, <2>2, NewIsBuilt, Zenon DEF Turned
  <2> QED
    BY <2>1, <2>3
<1>6. 0 \in 0 .. n /\ n \in 0 .. n /\ \A i \in 1 .. n : i \in 0 .. n /\ i - 1 \in 0 .. n /\ i # 0
  BY <1>1
<1> HIDE DEF S, After, start
<1>7. start \in V[0] /\ \A i \in 1 .. n : \A s \in V[i - 1] : g[i][s] \in V[i]
  <2>1. start \in V[0]
    BY <1>2, <1>5, <1>6, Zenon
  <2>2. ASSUME NEW i \in 1 .. n, NEW s \in V[i - 1] PROVE g[i][s] \in V[i]
    <3>1. s \in S(i - 1)
      BY <1>2, <1>6, Zenon
    <3>2. g[i][s] \in S(i)
      BY <3>1, <1>3, <1>4
    <3> QED
      BY <3>2, <1>2, <1>6, Zenon
  <2> QED
    BY <2>1, <2>2
<1>8. PICK f : Iterates(f, n, start, g) /\ \A i \in 0 .. n : f[i] \in V[i]
  BY <1>1, <1>7, IterationExists
<1>9. f[0] = start /\ \A i \in 1 .. n : f[i] = After(i, f[i - 1])
  <2>1. \A i \in 0 .. n : f[i] = IF i = 0 THEN start ELSE g[i][f[i - 1]]
    BY <1>8 DEF Iterates
  <2>2. f[0] = start /\ \A i \in 1 .. n : f[i] = g[i][f[i - 1]] /\ f[i - 1] \in S(i - 1)
    BY <2>1, <1>2, <1>6, <1>8, Zenon
  <2> QED
    BY <2>2, <1>3, Zenon
<1>10. TurnsOf(f, lo_message_new, call)
  <2>1. \E w : f = [i \in 0 .. n |-> w[i]]
    <3> DEFINE w == [i \in 0 .. n |-> IF i = 0 THEN start ELSE g[i][f[i - 1]]]
    <3>1. f = [i \in 0 .. n |-> w[i]]
      BY <1>8 DEF Iterates
    <3> HIDE DEF w
    <3> QED
      BY <3>1
  <2>2. \A i \in 0 .. n : i = 0 \/ i \in 1 .. n
    BY <1>1
  <2>3. \A i \in 0 .. n : f[i] = IF i = 0 THEN start ELSE After(i, f[i - 1])
    BY <2>2, <1>9, Zenon
  <2>4. f = [i \in 0 .. n |-> IF i = 0 THEN start ELSE After(i, f[i - 1])]
    BY <2>1, <2>3
  <2> QED
    BY <2>4, Zenon DEF TurnsOf, After, start
<1> DEFINE c == CHOOSE h : TurnsOf(h, lo_message_new, call)
<1>11. TurnsOf(c, lo_message_new, call)
  BY <1>10, Zenon
<1>12. lo_message_add_varargs_internal(lo_message_new, call) =
          Added(c[n].msg, IF c[n].over \/ (/\ Marks(Values(call)[c[n].taken + 1], MarkerA)
                                           /\ Marks(Values(call)[c[n].taken + 2], MarkerB))
                          THEN c[n].ret ELSE -2)
  BY Zenon DEF lo_message_add_varargs_internal, TurnsOf
<1> HIDE DEF c
<1>13. c[n] = f[n]
  <2>1. c = [i \in 0 .. n |-> IF i = 0 THEN start ELSE After(i, c[i - 1])]
    BY <1>11, Zenon DEF TurnsOf, After, start
  <2>2. \A i \in 0 .. n : c[i] = IF i = 0 THEN start ELSE After(i, c[i - 1])
    BY <2>1
  <2>3. c[0] = start /\ \A i \in 1 .. n : c[i] = After(i, c[i - 1])
    BY <2>2, <1>6, Zenon
  <2>4. c[0] = f[0] /\ \A i \in 1 .. n : c[i - 1] = f[i - 1] => c[i] = f[i]
    BY <2>3, <1>9, Zenon
  <2>5. \A i \in 0 .. n : c[i] = f[i]
    <3>1. Steps(c, f, n)
      BY <2>4, Zenon DEF Steps
    <3>2. Alike(c, f, n)
      BY <3>1, StepsAlike
    <3> QED
      BY <3>2, Zenon DEF Alike
  <2> QED
    BY <2>5, <1>6
<1>14. f[n] \in Turn /\ Turned(call, W, n, f[n])
  <2>1. f[n] \in S(n)
    BY <1>2, <1>6, <1>8, Zenon
  <2> QED
    BY <2>1 DEF S
<1> QED
  BY <1>12, <1>13, <1>14

\* Whatever a call returns, the message holds arguments; if nothing is amiss they
\* are the ones asked for.
LEMMA CallBuilds ==
    ASSUME NEW call \in Calls
    PROVE  LET r == lo_message_add_varargs_internal(lo_message_new, call) IN
           \E args \in Seq(Argument) :
              Built(r.msg, args) /\ (~ Astray(call, r.ret) => args = Wanted(call))
<1> DEFINE types == call.types
           n == Len(types)
           c == Len(call.values)
           list == Values(call)
           r == lo_message_add_varargs_internal(lo_message_new, call)
           m == Len(Checked(call))
<1>1. PICK W : /\ Wants(W, call) /\ Wanted(call) = W[m] /\ m \in 0 .. n
  BY WantedIs
<1>2. PICK e \in Turn :
         /\ Turned(call, W, n, e)
         /\ r = Added(e.msg, IF e.over \/ (/\ Marks(list[e.taken + 1], MarkerA)
                                           /\ Marks(list[e.taken + 2], MarkerB))
                             THEN e.ret ELSE -2)
  BY <1>1, TurnsAre
<1>3. /\ r.msg = e.msg
      /\ r.ret = IF e.over \/ (/\ Marks(list[e.taken + 1], MarkerA)
                               /\ Marks(list[e.taken + 2], MarkerB))
                 THEN e.ret ELSE -2
  BY <1>2 DEF Added
<1> DEFINE Asked(args, k) == Place(types, k) <= c => args = W[k]
<1>4. PICK args \in Seq(Argument) :
         /\ Built(e.msg, args)
         /\ ~ e.over => /\ e.taken = Place(types, n) /\ Asked(args, n)
                        /\ \A j \in 1 .. n : ~ Ends(types, j)
         /\ e.over /\ e.ret = 0 =>
              \E k \in 1 .. n : /\ Ends(types, k) /\ Asked(args, k - 1)
                                /\ \A j \in 1 .. k - 1 : ~ Ends(types, j)
  BY <1>2, Zenon DEF Turned
<1>5. ASSUME ~ Astray(call, r.ret) PROVE args = Wanted(call)
  <2>1. r.ret = 0 /\ (Checked(call) = types \/ ~(Place(types, m) > c))
    BY <1>5, Zenon DEF Astray
  <2>2. /\ types \in Seq(Nat) /\ n \in Nat /\ c \in Nat
        /\ \/ Checked(call) = types /\ \A j \in 1 .. n : ~ Ends(types, j)
           \/ \E k \in 1 .. n : /\ Ends(types, k) /\ \A j \in 1 .. k - 1 : ~ Ends(types, j)
                                /\ Checked(call) # types /\ m = k - 1
    BY CheckedIs, ListIs
  <2>3. Place(types, m) \in Nat /\ Place(types, n) \in Nat /\ Place(types, n) <= n
    BY <2>2, <1>1, PlaceWithin
  <2> HIDE DEF types, c, list, r
  <2>4. CASE e.over
    <3>1. e.ret = 0
      BY <2>1, <2>4, <1>3
    <3>2. PICK k \in 1 .. n : /\ Ends(types, k) /\ Asked(args, k - 1)
                              /\ \A j \in 1 .. k - 1 : ~ Ends(types, j)
      BY <3>1, <2>4, <1>4
    <3>3. PICK l \in 1 .. n : /\ Ends(types, l) /\ \A j \in 1 .. l - 1 : ~ Ends(types, j)
                              /\ Checked(call) # types /\ m = l - 1
      BY <3>2, <2>2
    <3>4. k = l
      <4>1. ~(k < l) /\ ~(l < k)
        <5>1. k < l => k \in 1 .. l - 1
          OBVIOUS
        <5>2. l < k => l \in 1 .. k - 1
          OBVIOUS
        <5> QED
          BY <5>1, <5>2, <3>2, <3>3
      <4> QED
        BY <4>1
    <3>5. Place(types, m) <= c
      BY <3>3, <2>1, <2>2, <2>3
    <3> QED
      BY <3>2, <3>3, <3>4, <3>5, <1>1, Zenon
  <2>5. CASE ~ e.over
    <3>1. Marks(list[e.taken + 1], MarkerA) /\ e.taken = Place(types, n) /\ Asked(args, n)
          /\ \A j \in 1 .. n : ~ Ends(types, j)
      BY <2>1, <2>5, <1>3, <1>4
    <3>2. Checked(call) = types /\ m = n
      BY <3>1, <2>2 DEF types
    <3>3. e.taken \in 0 .. n
      BY <3>1, <2>2, <2>3
    <3>4. Marks(list[e.taken + 1], MarkerA) /\ e.taken >= c => e.taken = c
      BY <3>3, EntryFound DEF types, c, list
    <3>5. Place(types, n) <= c
      BY <3>1, <3>3, <3>4, <2>2, <2>3
    <3> QED
      BY <3>1, <3>2, <3>5, <1>1, Zenon
  <2> QED
    BY <2>4, <2>5
<1> QED
  BY <1>3, <1>4, <1>5

-----------------------------------------------------------------------------
(* There and back again *)

LEMMA SameLengths ==
    ASSUME NEW q \in Seq(Mem), NEW p \in Seq(Mem), Len(p) = Len(q),
           \A i \in 1 .. Len(q) : Len(p[i]) = Len(q[i])
    PROVE  Len(FlattenSeq(p)) = Len(FlattenSeq(q))
<1>1. /\ FlattenSeq(q) \in Mem /\ \E o : Places(FlattenSeq(q), q, o)
      /\ FlattenSeq(p) \in Mem /\ \E o : Places(FlattenSeq(p), p, o)
  BY FlattenSeqPlaces DEF Mem
<1>2. PICK o : Places(FlattenSeq(q), q, o)
  BY <1>1
<1>3. PICK u : Places(FlattenSeq(p), p, u)
  BY <1>1
<1>4. PICK n \in Nat : n = Len(q) /\ n = Len(p)
  OBVIOUS
<1>5. o[0] = u[0] /\ \A i \in 1 .. n : o[i - 1] = u[i - 1] => o[i] = u[i]
  <2>1. o[0] = 0 /\ \A i \in 1 .. n : o[i] = o[i - 1] + Len(q[i])
    BY <1>2, <1>4 DEF Places
  <2>2. u[0] = 0 /\ \A i \in 1 .. n : u[i] = u[i - 1] + Len(p[i])
    BY <1>3, <1>4 DEF Places
  <2> QED
    BY <2>1, <2>2, <1>4
<1>6. \A i \in 0 .. n : o[i] = u[i]
  <2>1. Steps(o, u, n)
    BY <1>5, Zenon DEF Steps
  <2>2. Alike(o, u, n)
    BY <2>1, StepsAlike
  <2> QED
    BY <2>2, Zenon DEF Alike
<1>7. o[n] = Len(FlattenSeq(q)) /\ u[n] = Len(FlattenSeq(p))
  BY <1>2, <1>3, <1>4 DEF Places
<1> QED
  BY <1>4, <1>6, <1>7

\* A message that holds arguments, serialised.
LEMMA Written ==
    ASSUME NEW m, NEW args, Built(m, args), NEW path \in Str
    PROVE  LET bytes == lo_message_serialise(m, path) IN
           \E flat \in Mem :
              /\ bytes \in Mem /\ bytes = Padded(path) \o (Padded(m.types) \o flat)
              /\ Len(bytes) = lo_message_length(m, path)
              /\ flat = FlattenSeq([i \in 1 .. Len(args) |->
                                       Swapped(args[i].type, Held(args)[i])])
<1>1. /\ args \in Seq(Argument) /\ Len(args) \in Nat /\ m.types \in Mem
      /\ \A i \in 1 .. Len(args) : m.types[i + 1] = args[i].type
      /\ lo_message_get_argv(m) = Held(args)
  BY BuiltIs, Bytes
<1> DEFINE n == Len(args)
           q == Held(args)
           Mirrored(i) == Swapped(args[i].type, q[i])
           p == [i \in 1 .. n |-> Mirrored(i)]
<1>2. q \in Seq(Mem) /\ Len(q) = n /\ \A i \in 1 .. n : args[i].type \in Type /\ q[i] \in Mem
      /\ Whole(args[i].type, q[i])
  BY <1>1, HeldIs DEF Whole
<1>3. \A i \in 1 .. n : Mirrored(i) \in Mem /\ Len(Mirrored(i)) = Len(q[i])
  <2> SUFFICES ASSUME NEW i \in 1 .. n PROVE Mirrored(i) \in Mem /\ Len(Mirrored(i)) = Len(q[i])
    OBVIOUS
  <2> HIDE DEF q
  <2>1. Enough(args[i].type, q[i])
    BY <1>2, WholeEnough
  <2> QED
    BY <2>1, <1>2, SwappedIs
<1>4. p \in Seq(Mem) /\ Len(p) = n /\ \A i \in 1 .. n : p[i] = Mirrored(i)
  <2> HIDE DEF Mirrored
  <2> QED
    BY <1>1, <1>3
<1>5. PICK flat \in Mem : flat = FlattenSeq(p) /\ Len(flat) = Len(FlattenSeq(q))
  <2> HIDE DEF p, q, Mirrored
  <2>1. FlattenSeq(p) \in Mem
    BY <1>4, FlattenSeqPlaces DEF Mem
  <2>2. \A i \in 1 .. Len(q) : Len(p[i]) = Len(q[i])
    BY <1>2, <1>3, <1>4
  <2>3. Len(FlattenSeq(p)) = Len(FlattenSeq(q))
    BY <2>2, <1>2, <1>4, SameLengths
  <2> QED
    BY <2>1, <2>3
<1>6. lo_message_serialise(m, path) = Padded(path) \o Padded(m.types) \o flat
  <2>1. lo_message_serialise(m, path) =
            Padded(path) \o Padded(m.types)
              \o FlattenSeq([i \in 1 .. Len(q) |-> Swapped(m.types[i + 1], q[i])])
    <3> HIDE DEF q
    <3> QED
      BY <1>1, <1>2, SerialisedIs DEF q
  <2>2. [i \in 1 .. Len(q) |-> Swapped(m.types[i + 1], q[i])] = p
    <3> HIDE DEF q
    <3> QED
      BY <1>1, <1>2
  <2> HIDE DEF p, q
  <2> QED
    BY <2>1, <2>2, <1>5, Zenon
<1>7. /\ Padded(path) \in Mem /\ Len(Padded(path)) = lo_strsize(Len(path))
      /\ Padded(m.types) \in Mem /\ Len(Padded(m.types)) = lo_strsize(Len(m.types))
  BY <1>1, PaddedIs, Bytes
<1>8. PICK x \in Mem : x = Padded(path) /\ Len(x) = lo_strsize(Len(path)) /\ Len(x) \in Nat
  BY <1>7 DEF Mem
<1>9. PICK y \in Mem : y = Padded(m.types) /\ Len(y) = lo_strsize(Len(m.types)) /\ Len(y) \in Nat
  BY <1>7 DEF Mem
<1>10. PICK z \in Mem : z = y \o flat /\ Len(z) = Len(y) + Len(flat)
  BY MemConcat, Zenon
<1>11. PICK w \in Mem : w = x \o z /\ Len(w) = Len(x) + Len(z)
  BY MemConcat, Zenon
<1>12. lo_message_serialise(m, path) = w
  <2>1. (x \o y) \o flat = x \o (y \o flat)
    BY ConcatThree, SMTT(20)
  <2> QED
    BY <2>1, <1>6, <1>8, <1>9, <1>10, <1>11, Zenon
<1>13. Len(w) = lo_message_length(m, path)
  <2>1. Len(flat) = Len(m.data) /\ Len(flat) \in Nat
    BY <1>5 DEF Built, Mem
  <2>2. lo_message_length(m, path) = Len(x) + Len(y) + Len(flat)
    BY <2>1, <1>8, <1>9, Zenon DEF lo_message_length
  <2>3. Len(w) = Len(x) + (Len(y) + Len(flat))
    BY <1>10, <1>11
  <2> QED
    BY <2>1, <2>2, <2>3, <1>8, <1>9
<1> HIDE DEF p
<1>14. flat = FlattenSeq(p) /\ w = Padded(path) \o (Padded(m.types) \o flat)
  BY <1>5, <1>8, <1>9, <1>10, <1>11, Zenon
<1> QED
  BY <1>12, <1>13, <1>14, Zenon DEF p

\* It is read back as it was, with its path.
LEMMA ReadBack ==
    ASSUME NEW m, NEW args, Built(m, args), NEW path \in Str, path # <<>>
    PROVE  LET bytes == lo_message_serialise(m, path)
               back == lo_message_deserialise(bytes)
           IN  /\ bytes \in Mem /\ Len(bytes) = lo_message_length(m, path)
               /\ bytes # <<>> /\ bytes[1] = path[1]
               /\ back.error = "none" /\ lo_get_path(bytes) = path
               /\ back.types = m.types /\ back.data = m.data /\ back.argv = Held(args)
<1> DEFINE bytes == lo_message_serialise(m, path)
           n == Len(args)
           q == Held(args)
           Legible(i) == Swapped(args[i].type, q[i])
           p == [i \in 1 .. n |-> Legible(i)]
           types == m.types
<1>1. /\ args \in Seq(Argument) /\ n \in Nat /\ types \in Seq(Nat) /\ types \in Str
      /\ Len(types) = n + 1 /\ types[1] = Comma /\ Tail(types) = TypesOf(args)
  BY BuiltIs
<1>2. PICK flat \in Mem :
         /\ bytes \in Mem /\ bytes = Padded(path) \o (Padded(types) \o flat)
         /\ Len(bytes) = lo_message_length(m, path) /\ flat = FlattenSeq(p)
  BY Written
<1>3. PICK rest \in Mem : rest = Padded(types) \o flat
  BY <1>1, PaddedIs, MemConcat, Bytes
<1>4. /\ StrLen(bytes) = Len(path) /\ lo_validate_string(bytes) = lo_strsize(Len(path))
      /\ SubSeq(bytes, 1, Len(path)) = path /\ Drop(bytes, lo_strsize(Len(path))) = rest
  <2> HIDE DEF bytes, types
  <2> QED
    BY <1>2, <1>3, StringIsValid
<1>5. /\ StrLen(rest) = Len(types) /\ lo_validate_string(rest) = lo_strsize(Len(types))
      /\ SubSeq(rest, 1, Len(types)) = types /\ Drop(rest, lo_strsize(Len(types))) = flat
  <2> HIDE DEF types
  <2> QED
    BY <1>1, <1>3, StringIsValid
<1>6. /\ q \in Seq(Mem) /\ Len(q) = n /\ TypesOf(args) \in Seq(Nat) /\ Len(TypesOf(args)) = n
      /\ \A i \in 1 .. n : /\ TypesOf(args)[i] = args[i].type /\ args[i].type \in Type
                           /\ q[i] \in Mem /\ Enough(args[i].type, q[i])
                           /\ Legal(args[i].type, Legible(i)) /\ Legible(i) \in Mem
  <2>1. \A i \in 1 .. n : Whole(args[i].type, q[i]) /\ Legal(args[i].type, Legible(i))
    BY <1>1, HeldIs
  <2>2. \A i \in 1 .. n : q[i] \in Mem /\ Enough(args[i].type, q[i]) /\ Legible(i) \in Mem
    <3> HIDE DEF q, Legible
    <3> QED
      BY <2>1, WholeEnough DEF Whole, Legal
  <2> QED
    BY <2>1, <2>2, <1>1, HeldIs
<1>7. p \in Seq(Mem) /\ Len(p) = n /\ \A i \in 1 .. n : p[i] = Legible(i)
  <2>1. n \in Nat /\ \A i \in 1 .. n : Legible(i) \in Mem
    BY <1>1, <1>6, Zenon
  <2> HIDE DEF n, Legible
  <2> QED
    BY <2>1
<1>8. Deserialised(TypesOf(args), flat) = [error |-> "none", argv |-> q]
  <2> DEFINE tail == TypesOf(args)
  <2> HIDE DEF p, tail
  <2>1. \A i \in 1 .. Len(p) : Legal(tail[i], p[i])
    BY <1>6, <1>7 DEF tail
  <2>2. Deserialised(tail, FlattenSeq(p)) =
            [error |-> "none", argv |-> [i \in 1 .. Len(p) |-> Swapped(tail[i], p[i])]]
    BY <2>1, <1>6, <1>7, DeserialisedAccepts DEF tail
  <2>3. [i \in 1 .. Len(p) |-> Swapped(tail[i], p[i])] = q
    <3>1. \A i \in 1 .. n : Swapped(tail[i], p[i]) = q[i]
      <4> SUFFICES ASSUME NEW i \in 1 .. n PROVE Swapped(tail[i], p[i]) = q[i]
        OBVIOUS
      <4> HIDE DEF q
      <4>1. Swapped(args[i].type, Swapped(args[i].type, q[i])) = q[i]
        BY <1>6, SwappedTwice
      <4> QED
        BY <4>1, <1>6, <1>7 DEF tail
    <3>2. q = [i \in 1 .. n |-> q[i]]
      <4>1. \A w \in Seq(Mem) : w = [i \in 1 .. Len(w) |-> w[i]]
        OBVIOUS
      <4> QED
        BY <4>1, <1>6, Zenon
    <3> QED
      BY <3>1, <3>2, <1>7
  <2> QED
    BY <2>2, <2>3, <1>2, Zenon DEF tail
<1>9. lo_strsize(Len(path)) \in Nat /\ lo_strsize(Len(types)) \in Nat
      /\ Len(path) \in Nat /\ Len(types) \in Nat /\ Len(path) > 0 /\ Len(types) > 0
  <2>1. Len(path) \in Nat /\ Len(path) > 0
    BY DEF Str
  <2>2. Len(types) \in Nat /\ Len(types) > 0
    BY <1>1
  <2> QED
    BY <2>1, <2>2, StrSizeIs
<1>10. bytes # <<>> /\ bytes[1] = path[1] /\ rest # <<>> /\ rest[1] = Comma
  <2>1. \A s \in Str : \A b, t \in Mem :
            Len(s) > 0 /\ b = Padded(s) \o t => b # <<>> /\ b[1] = s[1]
    <3> SUFFICES ASSUME NEW s \in Str, NEW b \in Mem, NEW t \in Mem,
                        Len(s) > 0, b = Padded(s) \o t
                 PROVE  b # <<>> /\ b[1] = s[1]
      OBVIOUS
    <3>1. Len(s) \in Nat /\ Padded(s) \in Mem /\ Len(Padded(s)) > 0 /\ Padded(s)[1] = s[1]
      <4>1. Len(s) \in Nat /\ 1 \in 1 .. Len(s)
        BY DEF Str
      <4>2. /\ Padded(s) \in Mem /\ Len(Padded(s)) = lo_strsize(Len(s))
            /\ Padded(s)[1] = s[1]
        <5>1. s \in Mem
          BY Bytes
        <5> QED
          BY <4>1, <5>1, PaddedIs
      <4>3. lo_strsize(Len(s)) \in Nat /\ lo_strsize(Len(s)) > Len(s)
        BY <4>1, StrSizeIs
      <4> QED
        BY <4>1, <4>2, <4>3
    <3>2. \A x, y \in Mem : Len(x) > 0 => Len(x \o y) > 0 /\ (x \o y)[1] = x[1]
      BY DEF Mem
    <3>3. \A x : Len(x) > 0 => x # <<>>
      BY Len(<<>>) = 0
    <3> QED
      BY <3>1, <3>2, <3>3
  <2> HIDE DEF bytes, types
  <2> QED
    BY <2>1, <1>1, <1>2, <1>3, <1>9
<1> DEFINE k == lo_strsize(Len(types))
           data == FlattenSeq(q)
<1>11. lo_message_deserialise(bytes) =
          [error |-> "none", argv |-> q, types |-> types, typesize |-> k,
           data |-> data, datasize |-> Len(rest) - k]
  <2> DEFINE good == [error |-> "none", argv |-> q, types |-> types, typesize |-> k,
                      data |-> data, datasize |-> Len(rest) - k]
             size == lo_strsize(Len(path))
             args2 == Deserialised(Tail(types), flat)
  <2>1. args2 = [error |-> "none", argv |-> q]
    BY <1>1, <1>8, Zenon
  <2>1a. \A r : r = [error |-> "none", argv |-> q] => r.error = "none" /\ r.argv = q
    <3> HIDE DEF q
    <3> QED
      OBVIOUS
  <2>1b. args2.error = "none" /\ args2.argv = q
    <3> HIDE DEF args2, q
    <3> QED
      BY <2>1, <2>1a
  <2> HIDE DEF good, size, k, bytes, types, q, data, args2
  <2>2. lo_message_deserialise(bytes) =
          CASE bytes = <<>> -> Refused("LO_ESIZE")
            [] bytes # <<>> /\ size < 0 -> Refused("LO_EINVALIDPATH")
            [] size >= 0 /\ rest = <<>> -> Refused("LO_ENOTYPE")
            [] size >= 0 /\ rest # <<>> /\ k < 0 -> Refused("LO_EINVALIDTYPE")
            [] size >= 0 /\ k >= 0 /\ rest[1] # Comma -> Refused("LO_EBADTYPE")
            [] size >= 0 /\ k >= 0 /\ rest[1] = Comma ->
                 IF args2.error # "none" THEN args2
                 ELSE [error |-> "none", argv |-> args2.argv, types |-> types, typesize |-> k,
                       data |-> FlattenSeq(args2.argv), datasize |-> Len(rest) - k]
    BY <1>4, <1>5, Zenon DEF lo_message_deserialise, size, k, args2
  <2>3. size \in Nat /\ k \in Nat
    BY <1>9 DEF size, k
  <2>4. lo_message_deserialise(bytes) =
          IF args2.error # "none" THEN args2
                 ELSE [error |-> "none", argv |-> args2.argv, types |-> types, typesize |-> k,
                       data |-> FlattenSeq(args2.argv), datasize |-> Len(rest) - k]
    BY <2>2, <2>3, <1>10
  <2> QED
    BY <2>1b, <2>4, Zenon DEF data, good
<1>12. data = m.data
  BY DEF Built
<1>13. lo_get_path(bytes) = path
  BY <1>4, Zenon DEF lo_get_path
<1> HIDE DEF bytes, types, q, data, k
<1>14. LET back == lo_message_deserialise(bytes) IN
       back.error = "none" /\ back.types = types /\ back.data = data /\ back.argv = q
  BY <1>11
<1> QED
  BY <1>2, <1>10, <1>12, <1>13, <1>14, Zenon DEF bytes, types, q

-----------------------------------------------------------------------------
(* Bundles *)

Element == {e \in [length : Nat, bytes : Mem] : Len(e.bytes) = e.length}
Piece(e) == Int32(e.length) \o e.bytes
BundleName == <<35, 98, 117, 110, 100, 108, 101>>

LEMMA BundleWordIs ==
    /\ BundleName \in Str /\ Len(BundleName) = 7 /\ lo_strsize(7) = 8
    /\ Padded(BundleName) = BundleWord /\ BundleWord \in Mem /\ Len(BundleWord) = 8
<1>1. BundleName \in Str /\ Len(BundleName) = 7
  BY DEF BundleName, Str
<1>2. lo_strsize(7) = 8
  BY DEF lo_strsize
<1>3. Zeros(8 - 7) = <<0>>
  BY DEF Zeros
<1>4. BundleName \o <<0>> = BundleWord
  <2>0. PICK name \in Mem : /\ name = BundleName /\ Len(name) = 7
                            /\ name[1] = 35 /\ name[2] = 98 /\ name[3] = 117 /\ name[4] = 110
                            /\ name[5] = 100 /\ name[6] = 108 /\ name[7] = 101
    <3>1. /\ BundleName[1] = 35 /\ BundleName[2] = 98 /\ BundleName[3] = 117
          /\ BundleName[4] = 110 /\ BundleName[5] = 100 /\ BundleName[6] = 108
          /\ BundleName[7] = 101
      BY DEF BundleName
    <3>2. BundleName \in Mem
      BY <1>1, Bytes
    <3> QED
      <4> QED
        BY <1>1, <3>1, <3>2
  <2>1. PICK x \in Mem : x = BundleName \o <<0>> /\ Len(x) = 8 /\ x[8] = 0
                         /\ \A i \in 1 .. 7 : x[i] = name[i]
    <3>1. PICK z \in Mem : z = <<0>> /\ Len(z) = 1 /\ z[1] = 0
      <4>1. <<0>> \in Seq(Nat) /\ Len(<<0>>) = 1 /\ <<0>>[1] = 0
        OBVIOUS
      <4> QED
        BY <4>1, Zenon DEF Mem
    <3>2. PICK x \in Mem : /\ x = name \o z /\ Len(x) = Len(name) + Len(z)
                           /\ \A i \in 1 .. Len(name) : x[i] = name[i]
                           /\ \A i \in 1 .. Len(z) : x[Len(name) + i] = z[i]
      BY MemConcat, Zenon
    <3>3. Len(x) = 8 /\ x[8] = 0 /\ \A i \in 1 .. 7 : x[i] = name[i]
      BY <2>0, <3>1, <3>2
    <3> QED
      BY <2>0, <3>1, <3>2, <3>3, Zenon
  <2>2. /\ x[1] = 35 /\ x[2] = 98 /\ x[3] = 117 /\ x[4] = 110
        /\ x[5] = 100 /\ x[6] = 108 /\ x[7] = 101 /\ x[8] = 0
    BY <2>0, <2>1
  <2>3. BundleWord \in Mem /\ Len(BundleWord) = 8 /\ \A i \in 1 .. 8 : x[i] = BundleWord[i]
    <3>1. BundleWord \in Mem /\ Len(BundleWord) = 8
      BY DEF BundleWord, Mem
    <3>2. \A i \in 1 .. 8 : i \in {1, 2, 3, 4, 5, 6, 7, 8}
      OBVIOUS
    <3>3. /\ x[1] = BundleWord[1] /\ x[2] = BundleWord[2] /\ x[3] = BundleWord[3]
          /\ x[4] = BundleWord[4] /\ x[5] = BundleWord[5] /\ x[6] = BundleWord[6]
          /\ x[7] = BundleWord[7] /\ x[8] = BundleWord[8]
      BY <2>2 DEF BundleWord
    <3> QED
      BY <3>1, <3>2, <3>3, Zenon
  <2> QED
    BY <2>1, <2>3, SameMem
<1>5. Padded(BundleName) = BundleWord
  BY <1>1, <1>2, <1>3, <1>4, Zenon DEF Padded
<1>6. BundleWord \in Mem /\ Len(BundleWord) = 8
  BY DEF BundleWord, Mem
<1> QED
  BY <1>1, <1>2, <1>5, <1>6

LEMMA PieceIs ==
    ASSUME NEW e \in Element
    PROVE  /\ Piece(e) \in Mem /\ e.length \in Nat /\ e.bytes \in Mem
           /\ Len(Piece(e)) = e.length + 4
           /\ \A b : (\A k \in 1 .. 4 : b[k] = Piece(e)[k]) => Length32(b) = e.length
<1>1. e.length \in Nat /\ e.bytes \in Mem /\ Len(e.bytes) = e.length
  BY DEF Element
<1>2. PICK head \in Mem :
         /\ head = Int32(e.length) /\ Len(head) = 4 /\ head[1] = 0 /\ head[2] = 0
         /\ head[3] = e.length \div 256 /\ head[4] = e.length % 256
  BY <1>1, Int32Is
<1>3. PICK r \in Mem : /\ r = Piece(e) /\ Len(r) = Len(head) + Len(e.bytes)
                       /\ \A i \in 1 .. Len(head) : r[i] = head[i]
  <2>1. Joined(head \o e.bytes, head, e.bytes)
    BY <1>1, MemJoin
  <2>2. Piece(e) = head \o e.bytes
    BY <1>2, Zenon DEF Piece
  <2> QED
    BY <2>1, <2>2, Zenon DEF Joined
<1>4. Len(r) = e.length + 4
  BY <1>1, <1>2, <1>3
<1>5. r[1] = 0 /\ r[2] = 0 /\ r[3] = e.length \div 256 /\ r[4] = e.length % 256
  BY <1>2, <1>3
<1>6. ASSUME NEW b, \A k \in 1 .. 4 : b[k] = r[k]
      PROVE  Length32(b) = e.length
  <2>1. b[1] = r[1] /\ b[2] = r[2] /\ b[3] = r[3] /\ b[4] = r[4]
    <3>1. 1 \in 1 .. 4 /\ 2 \in 1 .. 4 /\ 3 \in 1 .. 4 /\ 4 \in 1 .. 4
      OBVIOUS
    <3> QED
      BY <1>6, <3>1, Zenon
  <2> QED
    BY <2>1, <1>1, <1>5, Length32Of
<1> QED
  BY <1>1, <1>3, <1>4, <1>6

\* Where the loop of lo_validate_bundle comes to.
Stop(mem, p) ==
    LET elem_len == Length32(SubSeq(mem, p + 1, p + 4))
    IN  IF p < 0 \/ Len(mem) - p < 4 THEN p
        ELSE IF elem_len > Len(mem) - p - 4 THEN -1
        ELSE p + 4 + elem_len
Stops(f, mem) ==
    f = [i \in 0 .. Len(mem) \div 4 |-> IF i = 0 THEN 0 ELSE Stop(mem, f[i - 1])]

LEMMA ElementsFitWhen ==
    ASSUME NEW mem \in Mem, NEW o, Stops(o, mem), o[Len(mem) \div 4] = Len(mem)
    PROVE  ElementsFit(mem)
<1> DEFINE c == CHOOSE f : Stops(f, mem)
           n == Len(mem) \div 4
<1>1. Stops(c, mem)
  BY Zenon
<1>2. ElementsFit(mem) <=> c[n] = Len(mem)
  BY DEF ElementsFit, Stops, Stop
<1> HIDE DEF c
<1>3. n \in Nat
  BY DEF Mem
<1> HIDE DEF n
<1>4. /\ \A i \in 0 .. n : c[i] = IF i = 0 THEN 0 ELSE Stop(mem, c[i - 1])
      /\ \A i \in 0 .. n : o[i] = IF i = 0 THEN 0 ELSE Stop(mem, o[i - 1])
  BY <1>1 DEF Stops, n
<1>5. 0 \in 0 .. n /\ n \in 0 .. n /\ \A i \in 1 .. n : i \in 0 .. n /\ i # 0
  BY <1>3
<1>6. c[0] = o[0] /\ \A i \in 1 .. n : c[i - 1] = o[i - 1] => c[i] = o[i]
  BY <1>4, <1>5
<1>7. \A i \in 0 .. n : c[i] = o[i]
  <2>1. Steps(c, o, n)
    BY <1>6, Zenon DEF Steps
  <2>2. Alike(c, o, n)
    BY <1>3, <2>1, StepsAlike
  <2> QED
    BY <2>2, Zenon DEF Alike
<1> QED
  BY <1>2, <1>5, <1>7 DEF n

\* The elements one after another: the loop comes to where each one ends.
LEMMA ElementsAre ==
    ASSUME NEW elements \in Seq(Element)
    PROVE  LET pieces == [i \in 1 .. Len(elements) |-> Piece(elements[i])]
               flat == FlattenSeq(pieces)
           IN  /\ flat \in Mem /\ ElementsFit(flat)
               /\ Len(flat) = Total([i \in 1 .. Len(elements) |-> elements[i].length + 4])
<1>1. PICK N \in Nat : N = Len(elements) /\ \A i \in 1 .. N : elements[i] \in Element
  OBVIOUS
<1> DEFINE P(i) == Piece(elements[i])
           S(i) == elements[i].length + 4
<1>2. ASSUME NEW i \in 1 .. N
      PROVE  /\ P(i) \in Mem /\ Len(P(i)) = S(i) /\ elements[i].length \in Nat
             /\ \A b : (\A k \in 1 .. 4 : b[k] = P(i)[k]) => Length32(b) = elements[i].length
  BY <1>1, PieceIs
<1>3. \A i \in 1 .. N : S(i) \in Nat /\ S(i) >= 4
  BY <1>2
<1> HIDE DEF P, S
<1>4. PICK q \in Seq(Mem) : /\ q = [i \in 1 .. N |-> P(i)] /\ Len(q) = N
                            /\ \A i \in 1 .. N : q[i] = P(i)
  <2> DEFINE x == [i \in 1 .. N |-> P(i)]
  <2>1. x \in Seq(Mem) /\ Len(x) = N /\ \A i \in 1 .. N : x[i] = P(i)
    BY <1>1, <1>2
  <2> QED
    BY <2>1
<1>5. PICK sizes \in Seq(Nat) : /\ sizes = [i \in 1 .. N |-> S(i)] /\ Len(sizes) = N
                                /\ \A i \in 1 .. N : sizes[i] = S(i)
  <2> DEFINE x == [i \in 1 .. N |-> S(i)]
  <2>1. x \in Seq(Nat) /\ Len(x) = N /\ \A i \in 1 .. N : x[i] = S(i)
    BY <1>1, <1>3
  <2> QED
    BY <2>1
<1>6. FlattenSeq(q) \in Mem /\ \E o : Places(FlattenSeq(q), q, o)
  BY FlattenSeqPlaces DEF Mem
<1>7. PICK flat \in Mem : flat = FlattenSeq(q) /\ \E o : Places(flat, q, o)
  BY <1>6
<1>8. PICK o : Places(flat, q, o)
  BY <1>7
<1>9. Total(sizes) = Len(flat)
  BY <1>2, <1>4, <1>5, <1>8, TotalOfPieces
<1>10. /\ o \in [0 .. N -> Nat] /\ o[0] = 0 /\ o[N] = Len(flat)
       /\ \A i \in 1 .. N : o[i] = o[i - 1] + S(i)
  <2>1. o \in [0 .. Len(q) -> Nat] /\ o[0] = 0 /\ o[Len(q)] = Len(flat)
    BY <1>8, Zenon DEF Places
  <2>2. \A i \in 1 .. Len(q) : o[i] = o[i - 1] + Len(q[i])
    BY <1>8, Zenon DEF Places
  <2>3. Len(q) = N /\ \A i \in 1 .. N : q[i] = P(i)
    BY <1>4, Zenon
  <2> QED
    BY <1>2, <2>1, <2>2, <2>3
<1>11. N <= Len(flat) \div 4
  <2> DEFINE V == [i \in 0 .. N |-> {k \in Nat : k >= 4 * i}]
  <2>1. o[0] \in V[0]
    BY <1>1, <1>10
  <2>2. ASSUME NEW i \in 1 .. N, o[i - 1] \in V[i - 1] PROVE o[i] \in V[i]
    <3>1. o[i - 1] \in Nat /\ o[i - 1] >= 4 * (i - 1)
      BY <2>2
    <3>2. o[i] = o[i - 1] + S(i) /\ S(i) \in Nat /\ S(i) >= 4
      BY <1>3, <1>10
    <3>3. o[i] \in Nat /\ o[i] >= 4 * i
      BY <3>1, <3>2
    <3> QED
      BY <3>3
  <2> HIDE DEF V
  <2>3. \A i \in 0 .. N : o[i] \in V[i]
    BY <2>1, <2>2, IterationIn
  <2>4. o[N] \in V[N] /\ N \in 0 .. N
    BY <2>3, <1>1
  <2>5. o[N] \in Nat /\ o[N] >= 4 * N
    BY <2>4 DEF V
  <2> QED
    BY <2>5, <1>1, <1>10
<1>12. PICK L \in Nat : L = Len(flat) \div 4 /\ N <= L
  <2>1. Len(flat) \div 4 \in Nat
    BY DEF Mem
  <2> QED
    BY <2>1, <1>11
<1> DEFINE At(i) == IF i <= N THEN o[i] ELSE o[N]
           h == [i \in 0 .. L |-> At(i)]
<1>13. ASSUME NEW i \in 1 .. L PROVE At(i) = Stop(flat, At(i - 1))
  <2>1. CASE i <= N
    <3>1. /\ i \in 1 .. N /\ i - 1 <= N
      BY <2>1
    <3>2. PICK p \in Nat : /\ p = o[i - 1] /\ o[i] = p + S(i) /\ o[i] \in Nat
                           /\ o[i] <= Len(flat) /\ SubSeq(flat, p + 1, o[i]) = P(i)
      <4>1. i \in 1 .. Len(q)
        BY <3>1, <1>4
      <4>2. /\ o[i - 1] \in Nat /\ o[i] \in Nat /\ o[i] <= Len(flat)
            /\ SubSeq(flat, o[i - 1] + 1, o[i]) = q[i]
        <5>1. PlacedIn(flat, q, o, i)
          BY <4>1, <1>8, PlacedAt
        <5> QED
          BY <5>1, Zenon DEF PlacedIn
      <4> QED
        BY <4>2, <3>1, <1>4, <1>10
    <3>3. PICK len \in Nat : len = elements[i].length /\ S(i) = len + 4
      BY <3>1, <1>2 DEF S
    <3> DEFINE e == o[i]
               z == Len(flat)
    <3>10. e \in Nat /\ e = p + (len + 4) /\ e <= z /\ z \in Nat
      <4>1. Len(flat) \in Nat
        BY DEF Mem
      <4>2. e \in Nat /\ e = p + S(i) /\ e <= z
        BY <3>2, Zenon
      <4> QED
        BY <4>1, <4>2, <3>3, Zenon
    <3> HIDE DEF e, z
    <3>11. e = p + 4 + len /\ p <= e /\ e - p = len + 4 /\ z - p >= len + 4
           /\ p + 4 \in Nat /\ p <= p + 4 /\ p + 4 <= z /\ p + 4 - p = 4
      BY <3>10
    <3>4. Len(flat) \in Nat /\ Len(flat) - p >= len + 4
      BY <3>10, <3>11, Zenon DEF z
    <3>5. PICK x \in Mem : /\ x = P(i) /\ \A k \in 1 .. 4 : x[k] = flat[p + k]
      <4>1. p <= o[i] /\ o[i] - p = len + 4
        BY <3>11, Zenon DEF e
      <4>2. /\ SubSeq(flat, p + 1, o[i]) \in Mem
            /\ \A k \in 1 .. o[i] - p : SubSeq(flat, p + 1, o[i])[k] = flat[p + k]
        BY <4>1, <3>2, MemPiece
      <4>3. \A k \in 1 .. 4 : k \in 1 .. o[i] - p
        BY <4>1
      <4> QED
        BY <4>2, <4>3, <3>2
    <3>6. PICK b \in Mem : /\ b = SubSeq(flat, p + 1, p + 4)
                           /\ \A k \in 1 .. 4 : b[k] = flat[p + k]
      <4>1. p + 4 \in Nat /\ p <= p + 4 /\ p + 4 <= Len(flat) /\ p + 4 - p = 4
        BY <3>11, Zenon DEF z
      <4>2. /\ SubSeq(flat, p + 1, p + 4) \in Mem
            /\ \A k \in 1 .. p + 4 - p : SubSeq(flat, p + 1, p + 4)[k] = flat[p + k]
        BY <4>1, MemPiece
      <4> QED
        BY <4>1, <4>2, Zenon
    <3>7. Length32(b) = len
      BY <3>1, <3>3, <3>5, <3>6, <1>2
    <3>8. Stop(flat, p) = p + 4 + len
      <4>1. ~(p < 0 \/ Len(flat) - p < 4) /\ ~(len > Len(flat) - p - 4)
        BY <3>4
      <4> QED
        BY <4>1, <3>6, <3>7, Zenon DEF Stop
    <3>9. o[i] = p + 4 + len
      BY <3>11, Zenon DEF e
    <3> QED
      BY <3>1, <3>2, <3>8, <3>9, <2>1
  <2>2. CASE ~(i <= N)
    <3>1. At(i) = o[N] /\ At(i - 1) = o[N]
      <4>1. i - 1 <= N => i - 1 = N
        BY <2>2, <1>1
      <4> QED
        BY <4>1, <2>2
    <3>2. Len(flat) - o[N] < 4
      <4>1. Len(flat) \in Nat
        BY DEF Mem
      <4> QED
        BY <4>1, <1>10
    <3>3. Stop(flat, o[N]) = o[N]
      BY <3>2, Zenon DEF Stop
    <3> HIDE DEF At
    <3> QED
      BY <3>1, <3>3
  <2> QED
    BY <2>1, <2>2
<1>14. At(0) = 0 /\ At(L) = Len(flat) /\ L \in 0 .. L
  <2>1. 0 <= N /\ (L <= N => L = N) /\ L \in 0 .. L
    BY <1>1, <1>12
  <2> QED
    BY <2>1, <1>10
<1> HIDE DEF At
<1>15. h = [i \in 0 .. L |-> IF i = 0 THEN 0 ELSE Stop(flat, h[i - 1])]
  <2>1. \A i \in 0 .. L : At(i) = IF i = 0 THEN 0 ELSE Stop(flat, h[i - 1])
    <3> SUFFICES ASSUME NEW i \in 0 .. L
                 PROVE  At(i) = IF i = 0 THEN 0 ELSE Stop(flat, h[i - 1])
      OBVIOUS
    <3>1. CASE i = 0
      BY <3>1, <1>14
    <3>2. CASE i # 0
      <4>1. i \in 1 .. L /\ i - 1 \in 0 .. L
        BY <3>2
      <4>2. h[i - 1] = At(i - 1)
        BY <4>1
      <4> HIDE DEF h
      <4> QED
        BY <4>1, <4>2, <3>2, <1>13
    <3> QED
      BY <3>1, <3>2
  <2> QED
    BY <2>1
<1>16. h[L] = Len(flat)
  BY <1>14
<1> HIDE DEF h
<1>17. ElementsFit(flat)
  <2>1. Stops(h, flat) /\ h[Len(flat) \div 4] = Len(flat)
    BY <1>12, <1>15, <1>16 DEF Stops
  <2> QED
    BY <2>1, ElementsFitWhen
<1>18. /\ q = [i \in 1 .. Len(elements) |-> Piece(elements[i])]
       /\ sizes = [i \in 1 .. Len(elements) |-> elements[i].length + 4]
  BY <1>1, <1>4, <1>5, Zenon DEF P, S
<1> QED
  BY <1>7, <1>9, <1>17, <1>18, Zenon

\* A bundle has the length that lo_bundle_length says, and is valid.
LEMMA BundleIs ==
    ASSUME NEW ts \in Mem, Len(ts) = 8, NEW elements \in Seq(Element)
    PROVE  LET b == [ts |-> ts, elements |-> elements]
               bytes == lo_bundle_serialise(b)
               pieces == [i \in 1 .. Len(elements) |-> Piece(elements[i])]
           IN  /\ bytes \in Mem /\ Len(bytes) = lo_bundle_length(b)
               /\ lo_bundle_length(b) \in Nat /\ lo_validate_bundle(bytes)
               /\ bytes = (BundleWord \o ts) \o FlattenSeq(pieces)
<1> DEFINE b == [ts |-> ts, elements |-> elements]
           pieces == [i \in 1 .. Len(elements) |-> Piece(elements[i])]
           sizes == [i \in 1 .. Len(elements) |-> elements[i].length + 4]
           bytes == lo_bundle_serialise(b)
<1>1. DOMAIN elements = 1 .. Len(elements) /\ b.ts = ts /\ b.elements = elements
  OBVIOUS
<1>2. PICK flat \in Mem : /\ flat = FlattenSeq(pieces) /\ ElementsFit(flat)
                          /\ Len(flat) = Total(sizes)
  BY ElementsAre
<1> HIDE DEF b
<1>3. bytes = BundleWord \o ts \o flat
  <2>1. bytes = BundleWord \o ts \o FlattenSeq(pieces)
    BY <1>1, Zenon DEF lo_bundle_serialise, Piece
  <2> QED
    BY <2>1, <1>2, Zenon
<1>4. lo_bundle_length(b) = 16 + Len(flat)
  <2>1. lo_bundle_length(b) = 16 + Total(sizes)
    BY <1>1, Zenon DEF lo_bundle_length
  <2> QED
    BY <2>1, <1>2, Zenon
<1> HIDE DEF bytes, pieces, sizes
<1>5. BundleWord \in Mem /\ Len(BundleWord) = 8
  BY BundleWordIs
<1>6. PICK head \in Mem : head = BundleWord \o ts /\ Len(head) = 16
  <2>1. BundleWord \o ts \in Mem /\ Len(BundleWord \o ts) = Len(BundleWord) + Len(ts)
    BY <1>5, MemConcat, Zenon
  <2>2. Len(BundleWord \o ts) = 8 + 8
    BY <2>1, <1>5, Zenon
  <2>3. 8 + 8 = 16
    OBVIOUS
  <2> QED
    BY <2>1, <2>2, <2>3, Zenon
<1>7. bytes = head \o flat
  BY <1>3, <1>6, Zenon
<1>8. /\ head \o flat \in Mem /\ Len(head \o flat) = Len(head) + Len(flat)
      /\ Drop(head \o flat, Len(head)) = flat
  BY MemConcat
<1>9. bytes \in Mem /\ Len(bytes) = 16 + Len(flat) /\ Drop(bytes, 16) = flat
  BY <1>6, <1>7, <1>8, Zenon
<1>10. PICK rest \in Mem : rest = ts \o flat
  BY MemConcat
<1>11. bytes = Padded(BundleName) \o rest
  <2>1. (BundleWord \o ts) \o flat = BundleWord \o (ts \o flat)
    BY <1>5, ConcatThree, Zenon
  <2> QED
    BY <2>1, <1>3, <1>10, BundleWordIs, Zenon
<1>12. lo_validate_string(bytes) = 8 /\ SubSeq(bytes, 1, 8) = BundleWord
  <2>1. /\ lo_validate_string(bytes) = lo_strsize(Len(BundleName))
        /\ SubSeq(bytes, 1, lo_strsize(Len(BundleName))) = Padded(BundleName)
    BY <1>11, BundleWordIs, StringIsValid
  <2> QED
    BY <2>1, BundleWordIs, Zenon
<1>13. Len(flat) \in Nat /\ Len(bytes) >= 16 /\ 16 + Len(flat) \in Nat
  <2>1. Len(flat) \in Nat
    BY DEF Mem
  <2> QED
    BY <2>1, <1>9
<1>14. lo_validate_bundle(bytes)
  BY <1>2, <1>9, <1>12, <1>13, Zenon DEF lo_validate_bundle
<1>15. bytes = (BundleWord \o ts) \o FlattenSeq(pieces)
  BY <1>2, <1>3, Zenon
<1> QED
  BY <1>4, <1>9, <1>13, <1>14, <1>15, Zenon DEF bytes, pieces, b

\* A message in a bundle by itself: what follows the first twenty bytes.
LEMMA OneInBundle ==
    ASSUME NEW ts \in Mem, Len(ts) = 8, NEW e \in Element
    PROVE  LET bytes == lo_bundle_serialise([ts |-> ts, elements |-> <<e>>]) IN
           lo_validate_bundle(bytes) /\ Drop(bytes, 20) = e.bytes /\ bytes # <<>>
<1> DEFINE b == [ts |-> ts, elements |-> <<e>>]
           bytes == lo_bundle_serialise(b)
           pieces == [i \in 1 .. Len(<<e>>) |-> Piece(<<e>>[i])]
<1>1. <<e>> \in Seq(Element) /\ Len(<<e>>) = 1 /\ <<e>>[1] = e
  OBVIOUS
<1>2. /\ bytes \in Mem /\ lo_validate_bundle(bytes)
      /\ bytes = (BundleWord \o ts) \o FlattenSeq(pieces)
  BY <1>1, BundleIs
<1>3. PICK mbytes \in Mem : mbytes = e.bytes /\ e.length \in Nat
  BY PieceIs
<1>4. PICK number \in Mem : number = Int32(e.length) /\ Len(number) = 4
  BY <1>3, Int32Is
<1>5. PICK x \in Mem : x = number \o mbytes /\ x = Piece(e)
  <2>1. number \o mbytes \in Mem
    BY MemConcat
  <2> QED
    BY <2>1, <1>3, <1>4 DEF Piece
<1>6. FlattenSeq(pieces) = x
  <2>1. pieces = <<x>>
    <3>1. \A i \in 1 .. 1 : <<e>>[i] = e
      OBVIOUS
    <3>2. pieces = [i \in 1 .. 1 |-> Piece(e)]
      BY <1>1, <3>1
    <3>3. [i \in 1 .. 1 |-> x] = <<x>>
      OBVIOUS
    <3> QED
      BY <1>5, <3>2, <3>3, Zenon
  <2>2. FlattenSeq(<<x>>) = FlattenSeq(<<>>) \o x
    <3>1. <<>> \in Seq(Mem) /\ <<x>> \in Seq(Mem) /\ Len(<<x>>) = Len(<<>>) + 1
          /\ <<x>>[Len(<<>>) + 1] = x /\ \A i \in 1 .. Len(<<>>) : <<x>>[i] = <<>>[i]
      OBVIOUS
    <3> QED
      BY <3>1, FlattenSeqAppend
  <2>3. FlattenSeq(<<>>) = <<>>
    BY DEF FlattenSeq
  <2>4. \A w \in Mem : <<>> \o w = w
    BY DEF Mem
  <2> QED
    BY <2>1, <2>2, <2>3, <2>4, Zenon
<1>7. PICK top \in Mem : top = BundleWord \o ts /\ Len(top) = 16
  <2>1. BundleWord \in Mem /\ Len(BundleWord) = 8
    BY BundleWordIs
  <2>2. BundleWord \o ts \in Mem /\ Len(BundleWord \o ts) = Len(BundleWord) + Len(ts)
    BY <2>1, MemConcat, Zenon
  <2>3. Len(BundleWord \o ts) = 8 + 8
    BY <2>1, <2>2, Zenon
  <2>4. 8 + 8 = 16
    OBVIOUS
  <2> QED
    BY <2>2, <2>3, <2>4, Zenon
<1>8. PICK head \in Mem : head = top \o number /\ Len(head) = 20
  <2>1. top \o number \in Mem /\ Len(top \o number) = Len(top) + Len(number)
    BY MemConcat, Zenon
  <2>2. Len(top \o number) = 16 + 4
    BY <2>1, <1>4, <1>7, Zenon
  <2>3. 16 + 4 = 20
    OBVIOUS
  <2> QED
    BY <2>1, <2>2, <2>3, Zenon
<1> HIDE DEF b, bytes, pieces
<1>9. bytes = head \o mbytes
  <2>1. bytes = top \o x
    BY <1>2, <1>6, <1>7, Zenon
  <2>2. (top \o number) \o mbytes = top \o (number \o mbytes)
    <3>1. ConcatAlike(top, number, mbytes)
      BY ConcatsAlike
    <3> QED
      BY <3>1, Zenon DEF ConcatAlike
  <2> QED
    BY <2>1, <2>2, <1>5, <1>8, Zenon
<1>10. /\ Len(head \o mbytes) = Len(head) + Len(mbytes) /\ Drop(head \o mbytes, Len(head)) = mbytes
  BY MemConcat
<1>11. Drop(bytes, 20) = mbytes /\ Len(bytes) = 20 + Len(mbytes)
  BY <1>8, <1>9, <1>10, Zenon
<1>12. bytes # <<>>
  <2>1. Len(mbytes) \in Nat
    BY DEF Mem
  <2>2. Len(bytes) # 0
    BY <2>1, <1>11
  <2>3. Len(<<>>) = 0
    OBVIOUS
  <2> QED
    BY <2>2, <2>3, Zenon
<1> QED
  BY <1>2, <1>3, <1>11, <1>12, Zenon DEF bytes, b

\* A path does not begin like a bundle.
LEMMA MessageIsNoBundle ==
    ASSUME NEW bytes \in Mem, bytes[1] # Hash
    PROVE  ~ lo_validate_bundle(bytes)
<1> SUFFICES ASSUME lo_validate_bundle(bytes) PROVE FALSE
  OBVIOUS
<1>1. SubSeq(bytes, 1, 8) = BundleWord /\ Len(bytes) >= 16
  BY DEF lo_validate_bundle
<1>2. \A k \in 1 .. 8 - 0 : SubSeq(bytes, 0 + 1, 8)[k] = bytes[0 + k]
  <2>1. 0 \in Nat /\ 8 \in Nat /\ 0 <= 8 /\ 8 <= Len(bytes)
    BY <1>1 DEF Mem
  <2> QED
    BY <2>1, MemPiece
<1>3. SubSeq(bytes, 1, 8)[1] = bytes[1]
  <2>1. 0 + 1 = 1 /\ 1 \in 1 .. 8 - 0
    OBVIOUS
  <2> QED
    BY <1>2, <2>1
<1>4. BundleWord[1] = Hash
  BY DEF BundleWord, Hash
<1> QED
  BY <1>1, <1>3, <1>4

LEMMA PathIs ==
    ASSUME NEW path \in Paths
    PROVE  path \in Str /\ path # <<>> /\ Len(path) > 0 /\ path[1] # Hash
<1>1. path \in Seq(1 .. 255) /\ path # <<>> /\ path[1] # Hash
  BY WireAssumption
<1>2. path \in Str
  BY <1>1, Bytes
<1>3. Len(path) > 0
  BY <1>1
<1> QED
  BY <1>1, <1>2, <1>3

LEMMA TimesAre ==
    ASSUME NEW ts \in {LO_TT_IMMEDIATE, Zeros(8)}
    PROVE  ts \in Mem /\ Len(ts) = 8
<1>1. LO_TT_IMMEDIATE \in Mem /\ Len(LO_TT_IMMEDIATE) = 8
  BY DEF LO_TT_IMMEDIATE, Mem
<1>2. Zeros(8) \in Mem /\ Len(Zeros(8)) = 8
  BY ZerosAre
<1> QED
  BY <1>1, <1>2

\* A message and its path, as an element of a bundle.
LEMMA ElementIs ==
    ASSUME NEW m, NEW args, Built(m, args), NEW path \in Paths
    PROVE  /\ MessageElement(m, path) \in Element
           /\ MessageElement(m, path).bytes = lo_message_serialise(m, path)
<1>1. PICK bytes \in Mem : /\ bytes = lo_message_serialise(m, path)
                           /\ Len(bytes) = lo_message_length(m, path)
  BY PathIs, ReadBack
<1>2. PICK n \in Nat : n = Len(bytes)
  BY DEF Mem
<1>3. MessageElement(m, path) = [length |-> n, bytes |-> bytes]
  BY <1>1, <1>2, Zenon DEF MessageElement
<1>4. [length |-> n, bytes |-> bytes] \in Element
  BY <1>2 DEF Element
<1>5. [length |-> n, bytes |-> bytes].bytes = bytes
  OBVIOUS
<1> QED
  BY <1>1, <1>3, <1>4, <1>5, Zenon

\* What lo_send and its like may send of a message.
Sends(m, path) ==
    {lo_message_serialise(m, path)}
      \cup {lo_send_timestamped_varargs_internal(m, path, ts) : ts \in {LO_TT_IMMEDIATE, Zeros(8)}}

LEMMA SentIs ==
    ASSUME NEW m, NEW args, Built(m, args), NEW path \in Paths, NEW sent \in Sends(m, path)
    PROVE  /\ sent # <<>>
           /\ (IF lo_validate_bundle(sent) THEN Drop(sent, 20) ELSE sent)
                 = lo_message_serialise(m, path)
<1>1. CASE sent = lo_message_serialise(m, path)
  <2>1. sent \in Mem /\ sent # <<>> /\ sent[1] # Hash
    <3>1. path \in Str /\ Len(path) > 0 /\ path[1] # Hash
      BY PathIs
    <3>2. LET bytes == lo_message_serialise(m, path) IN
          bytes \in Mem /\ bytes # <<>> /\ bytes[1] = path[1]
      BY <3>1, PathIs, ReadBack
    <3> QED
      BY <3>1, <3>2, <1>1, Zenon
  <2>2. ~ lo_validate_bundle(sent)
    BY <2>1, MessageIsNoBundle
  <2> QED
    BY <2>1, <2>2, <1>1, Zenon
<1>2. CASE \E ts \in {LO_TT_IMMEDIATE, Zeros(8)} :
              sent = lo_send_timestamped_varargs_internal(m, path, ts)
  <2>1. PICK ts \in {LO_TT_IMMEDIATE, Zeros(8)} :
          sent = lo_send_timestamped_varargs_internal(m, path, ts)
    BY <1>2
  <2>2. PICK e \in Element : e = MessageElement(m, path)
                             /\ e.bytes = lo_message_serialise(m, path)
    BY ElementIs
  <2>3. sent = lo_bundle_serialise([ts |-> ts, elements |-> <<e>>])
    BY <2>1, <2>2, Zenon DEF lo_send_timestamped_varargs_internal
  <2>4. ts \in Mem /\ Len(ts) = 8
    BY TimesAre
  <2>5. LET bytes == lo_bundle_serialise([ts |-> ts, elements |-> <<e>>]) IN
        lo_validate_bundle(bytes) /\ Drop(bytes, 20) = e.bytes /\ bytes # <<>>
    BY <2>4, OneInBundle
  <2> QED
    BY <2>2, <2>3, <2>5, Zenon
<1> QED
  BY <1>1, <1>2, Zenon DEF Sends

-----------------------------------------------------------------------------
(* The state *)

\* Unless data without a type was left in it, the message holds arguments, the
\* ones asked for if nothing is amiss; what was sent holds such arguments; and
\* where the message's data are not within what is allocated is known.
HeldInv ==
    garbled # "data" =>
        \E args \in Seq(Argument) :
           Built(msg, args) /\ (garbled = "no" /\ outgoing = <<>> => args = asked)
SentInv ==
    outgoing # <<>> =>
        /\ ret = 0
        /\ \E m, args, path :
              /\ Built(m, args) /\ path \in Paths /\ outgoing \in Sends(m, path)
              /\ garbled = "no" => args = asked
RoomInv ==
    /\ msg \in Message /\ Roomy(msg)
    /\ garbled \notin {"data", "room"} => msg.past = 0
WireInv == HeldInv /\ SentInv /\ RoomInv

\* What Garbled says of a call.
LEMMA GarbledIs ==
    ASSUME NEW call, NEW r
    PROVE  /\ Garbled(call, r) = "no" => ~ Astray(call, r.ret)
           /\ Garbled(call, r) \notin {"data", "room"} => ~ (r.msg.past > 0)
           /\ Garbled(call, r) # "data"
BY DEF Garbled

LEMMA CallsHold ==
    ASSUME NEW call \in Calls, msg = lo_message_new, outgoing = <<>>, lo_message_add(call)
    PROVE  WireInv'
<1> DEFINE r == lo_message_add_varargs_internal(lo_message_new, call)
<1>1. PICK args \in Seq(Argument) :
         Built(r.msg, args) /\ (~ Astray(call, r.ret) => args = Wanted(call))
  BY CallBuilds
<1>2. /\ msg' = r.msg /\ asked' = Wanted(call) /\ outgoing' = <<>>
      /\ garbled' = Garbled(call, r)
  BY Zenon DEF lo_message_add
<1> HIDE DEF r
<1>3. garbled' = "no" => ~ Astray(call, r.ret)
  BY <1>2, GarbledIs, Zenon
<1>4. HeldInv'
  <2>1. Built(msg', args) /\ (garbled' = "no" => args = asked')
    BY <1>1, <1>2, <1>3, Zenon
  <2> QED
    BY <2>1, Zenon DEF HeldInv
<1>5. SentInv'
  BY <1>2, Zenon DEF SentInv
<1>6. RoomInv'
  <2>1. msg' \in Message /\ Roomy(msg')
    BY <1>1, <1>2, Zenon DEF Built
  <2>2. garbled' \notin {"data", "room"} => ~ (msg'.past > 0)
    BY <1>2, GarbledIs, Zenon
  <2>3. msg'.past \in Nat
    BY <2>1 DEF Message
  <2>4. ~ (msg'.past > 0) => msg'.past = 0
    BY <2>3
  <2> QED
    BY <2>1, <2>2, <2>4, Zenon DEF RoomInv
<1> QED
  BY <1>4, <1>5, <1>6, Zenon DEF WireInv

LEMMA SendsHold ==
    ASSUME NEW call \in Calls, NEW path \in Paths, msg = lo_message_new, outgoing = <<>>,
           lo_send(call, path)
    PROVE  WireInv'
<1> DEFINE r == lo_message_add_varargs_internal(lo_message_new, call)
<1>1. PICK args \in Seq(Argument) :
         Built(r.msg, args) /\ (~ Astray(call, r.ret) => args = Wanted(call))
  BY CallBuilds
<1>2. /\ msg' = lo_message_new /\ asked' = Wanted(call) /\ ret' = r.ret
      /\ garbled' = Garbled(call, r)
      /\ IF r.ret # 0 THEN outgoing' = <<>> ELSE outgoing' \in Sends(r.msg, path)
  <2>1. /\ msg' = lo_message_new /\ asked' = Wanted(call) /\ ret' = r.ret
        /\ garbled' = Garbled(call, r)
    <3>1. UNCHANGED msg /\ asked' = Wanted(call) /\ ret' = r.ret
      BY DEF lo_send
    <3>2. garbled' = Garbled(call, r)
      BY DEF lo_send
    <3> QED
      BY <3>1, <3>2, Zenon
  <2>2. IF r.ret # 0 THEN UNCHANGED outgoing
        ELSE \/ outgoing' = lo_send_varargs_internal(r.msg, path)
             \/ outgoing' = lo_send_timestamped_varargs_internal(r.msg, path, LO_TT_IMMEDIATE)
             \/ \E ts \in {LO_TT_IMMEDIATE, Zeros(8)} :
                   outgoing' = lo_send_from_varargs_internal(r.msg, path, ts)
    BY Zenon DEF lo_send
  <2> HIDE DEF r
  <2>3. outgoing' = lo_send_varargs_internal(r.msg, path) => outgoing' \in Sends(r.msg, path)
    BY DEF lo_send_varargs_internal, Sends
  <2>4. outgoing' = lo_send_timestamped_varargs_internal(r.msg, path, LO_TT_IMMEDIATE)
          => outgoing' \in Sends(r.msg, path)
    BY DEF Sends
  <2>5. ASSUME NEW ts \in {LO_TT_IMMEDIATE, Zeros(8)},
               outgoing' = lo_send_from_varargs_internal(r.msg, path, ts)
        PROVE  outgoing' \in Sends(r.msg, path)
    BY <2>5 DEF lo_send_from_varargs_internal, Sends
  <2>6. r.ret = 0 => outgoing' \in Sends(r.msg, path)
    BY <2>2, <2>3, <2>4, <2>5, Zenon
  <2> QED
    BY <2>1, <2>2, <2>6, Zenon
<1>3. r.ret # 0 => Astray(call, r.ret)
  BY Zenon DEF Astray
<1> HIDE DEF r
<1>4. garbled' = "no" => ~ Astray(call, r.ret)
  BY <1>2, GarbledIs, Zenon
<1>5. r.ret = 0 => outgoing' # <<>>
  BY <1>1, <1>2, SentIs, Zenon
<1>6. HeldInv'
  <2>1. Built(msg', <<>>) /\ <<>> \in Seq(Argument)
    BY <1>2, NewIsBuilt, Zenon
  <2>2. ~(garbled' = "no" /\ outgoing' = <<>>)
    BY <1>2, <1>3, <1>4, <1>5, Zenon
  <2> QED
    BY <2>1, <2>2, Zenon DEF HeldInv
<1>7. SentInv'
  <2> SUFFICES ASSUME outgoing' # <<>>
               PROVE  ret' = 0 /\ \E m, a, p :
                         /\ Built(m, a) /\ p \in Paths /\ outgoing' \in Sends(m, p)
                         /\ garbled' = "no" => a = asked'
    BY Zenon DEF SentInv
  <2>1. r.ret = 0 /\ ret' = 0 /\ outgoing' \in Sends(r.msg, path)
    BY <1>2, Zenon
  <2>2. garbled' = "no" => args = asked'
    BY <1>1, <1>2, <1>4, Zenon
  <2> QED
    BY <2>1, <2>2, <1>1, Zenon
<1>8. RoomInv'
  <2>1. msg' \in Message /\ Roomy(msg')
    BY <1>2, NewIsBuilt, Zenon DEF Built
  <2>2. msg'.past = 0
    BY <1>2 DEF lo_message_new
  <2> QED
    BY <2>1, <2>2, Zenon DEF RoomInv
<1> QED
  BY <1>6, <1>7, <1>8, Zenon DEF WireInv

LEMMA ArgsHold ==
    ASSUME WireInv, NEW type \in DOMAIN Args, NEW a \in Args[type],
           Add(type, a) \/ AddDataFails(type) \/ AddTypeFails(type, a)
    PROVE  WireInv'
<1>1. /\ outgoing = <<>> /\ garbled = "no" /\ outgoing' = <<>>
  BY Zenon DEF Add, AddDataFails, AddTypeFails, Building
<1>2. SentInv'
  BY <1>1, Zenon DEF SentInv
<1>3. "no" # "data"
  OBVIOUS
<1>4. Built(msg, asked) /\ asked \in Seq(Argument)
  BY <1>1, <1>3, Zenon DEF WireInv, HeldInv
<1>5. CASE Add(type, a)
  <2>1. /\ msg' = WithArg(msg, type, a) /\ asked' = Append(asked, Typed(type, a))
        /\ garbled' = IF msg'.past > 0 THEN "room" ELSE "no"
    BY <1>5, Zenon DEF Add
  <2>2. Passable(type, a)
    BY WireAssumption, Zenon
  <2>3. Built(msg', asked') /\ asked' \in Seq(Argument)
    BY <2>1, <2>2, <1>4, WithArgIsBuilt
  <2>4. msg' \in Message /\ Roomy(msg')
    BY <2>3, Zenon DEF Built
  <2>5. msg'.past \in Nat
    BY <2>4 DEF Message
  <2>6. garbled' = "no" => msg'.past = 0
    BY <2>1, <2>5
  <2>7. garbled' \in {"no", "room"}
    BY <2>1, Zenon
  <2>8. RoomInv'
    BY <2>4, <2>6, <2>7, Zenon DEF RoomInv
  <2> QED
    BY <2>3, <2>8, <1>2, Zenon DEF WireInv, HeldInv
<1>6. CASE UNCHANGED <<msg, asked, garbled>>
  BY <1>6, <1>1, <1>2, <1>4, Zenon DEF WireInv, HeldInv, RoomInv
<1>7. CASE AddDataFails(type)
  BY <1>6, <1>7, Zenon DEF AddDataFails
<1>8. CASE AddTypeFails(type, a)
  <2>1. CASE type \in Empty
    <3>1. msg' = msg /\ asked' = asked /\ garbled' = "no"
      BY <1>8, <2>1, Zenon DEF AddTypeFails
    <3> QED
      BY <3>1, <1>1, <1>6, Zenon
  <2>2. CASE type \notin Empty
    <3>1. garbled' = "data"
      BY <1>8, <2>2, Zenon DEF AddTypeFails
    <3>2. msg' = lo_message_add_data(msg, Zeros(Len(Stored(type, a))))
      BY <1>8, <2>2, Zenon DEF AddTypeFails
    <3>3. Zeros(Len(Stored(type, a))) \in Mem
      <4>1. Stored(type, a) \in Mem
        BY WireAssumption, PassableIs, Zenon
      <4>2. Len(Stored(type, a)) \in Nat
        BY <4>1 DEF Mem
      <4> QED
        BY <4>2, ZerosAre
    <3>4. msg \in Message /\ Roomy(msg)
      BY Zenon DEF WireInv, RoomInv
    <3>5. msg' \in Message /\ Roomy(msg')
      BY <3>2, <3>3, <3>4, DataAdded
    <3> QED
      BY <3>1, <3>5, <1>2, Zenon DEF WireInv, HeldInv, RoomInv
  <2> QED
    BY <2>1, <2>2
<1> QED
  BY <1>5, <1>7, <1>8

LEMMA WireInvariant == WireSpec => []WireInv
<1>1. WireInit => WireInv
  <2> SUFFICES ASSUME WireInit PROVE WireInv
    OBVIOUS
  <2>1. msg = lo_message_new /\ asked = <<>> /\ outgoing = <<>>
    BY Zenon DEF WireInit
  <2>2. msg \in Message /\ Roomy(msg)
    BY <2>1, NewIsBuilt, Zenon DEF Built
  <2>3. msg.past = 0
    BY <2>1 DEF lo_message_new
  <2> QED
    BY <2>1, <2>2, <2>3, NewIsBuilt, Zenon DEF WireInv, HeldInv, SentInv, RoomInv
<1>2. WireInv /\ [WireNext]_wireVars => WireInv'
  <2> SUFFICES ASSUME WireInv, [WireNext]_wireVars PROVE WireInv'
    OBVIOUS
  <2>1. CASE UNCHANGED <<msg, ret, asked, garbled, outgoing>>
    BY <2>1, Zenon DEF WireInv, HeldInv, SentInv, RoomInv
  <2>2. ASSUME NEW type \in DOMAIN Args, NEW a \in Args[type],
               Add(type, a) \/ AddDataFails(type) \/ AddTypeFails(type, a)
        PROVE  WireInv'
    BY <2>2, ArgsHold
  <2>3. ASSUME NEW call \in Calls, msg = lo_message_new, outgoing = <<>>,
               lo_message_add(call) \/ \E path \in Paths : lo_send(call, path)
        PROVE  WireInv'
    BY <2>3, CallsHold, SendsHold
  <2>4. CASE Receive
    BY <2>1, <2>4, Zenon DEF Receive
  <2>5. CASE UNCHANGED wireVars
    BY <2>1, <2>5 DEF wireVars
  <2> QED
    BY <2>2, <2>3, <2>4, <2>5, Zenon DEF WireNext
<1> QED
  BY <1>1, <1>2, PTL DEF WireSpec

\* The memory that dispatch_method allocates for coerced arguments has room for
\* what lo_coerce writes of each, whatever message was built and whatever types
\* the method wants.
THEOREM CoercedFit == WireSpec => []CoercionFits
<1>1. WireInv => CoercionFits
  <2> SUFFICES ASSUME WireInv, garbled \notin {"data", "room"} PROVE CoercionFits
    BY Zenon DEF CoercionFits
  <2>1. PICK args \in Seq(Argument) : Built(msg, args)
    BY Zenon DEF WireInv, HeldInv
  <2> DEFINE argv == lo_message_get_argv(msg)
             types == Tail(msg.types)
  <2>2. \A spec \in Coercible(types) : \A i \in DOMAIN argv :
           CoercedAt(spec, argv, i) + lo_coerce(spec[i], types[i], argv[i])
              <= CoercedSize(spec, argv)
    BY <2>1, CoercionHasRoom
  <2> QED
    BY <2>2, Zenon DEF CoercionFits
<1> QED
  BY <1>1, WireInvariant, PTL

\* Arguments that are the ones asked for.
LEMMA HoldsAskedWhen ==
    ASSUME NEW m, NEW args, Built(m, args), args = asked, NEW back,
           back.types = m.types, back.argv = Held(args)
    PROVE  HoldsAsked(back)
<1>1. asked \in Seq(Argument) /\ DOMAIN asked = 1 .. Len(asked)
  BY DEF Built
<1>2. back.types = <<Comma>> \o TypesOf(asked) /\ back.argv = Held(asked)
  BY Zenon DEF Built
<1> QED
  BY <1>1, <1>2, Zenon DEF HoldsAsked, TypesOf, Held

LEMMA MessageReturns ==
    ASSUME WireInv, garbled \notin {"data", "room"}, NEW path \in Paths
    PROVE  MessageRoundTrip(path)
<1> DEFINE bytes == lo_message_serialise(msg, path)
           back == lo_message_deserialise(bytes)
<1>1. PICK args \in Seq(Argument) :
         Built(msg, args) /\ (garbled = "no" /\ outgoing = <<>> => args = asked)
  BY Zenon DEF WireInv, HeldInv
<1>2. /\ Len(bytes) = lo_message_length(msg, path)
      /\ back.error = "none" /\ lo_get_path(bytes) = path
      /\ back.types = msg.types /\ back.data = msg.data /\ back.argv = Held(args)
  <2>1. path \in Str /\ Len(path) > 0
    BY PathIs
  <2> QED
    BY <1>1, <2>1, ReadBack
<1>3. Len(msg.types) < msg.typesize /\ Len(msg.data) <= msg.datasize
  BY <1>1, Zenon DEF Built, Roomy, WireInv, RoomInv
<1> HIDE DEF back
<1>4. garbled = "no" /\ outgoing = <<>> => HoldsAsked(back)
  BY <1>1, <1>2, HoldsAskedWhen
<1> QED
  BY <1>2, <1>3, <1>4, Zenon DEF MessageRoundTrip, back

LEMMA BundleReturns ==
    ASSUME WireInv, garbled \notin {"data", "room"}, NEW path \in Paths
    PROVE  BundleValid(path)
<1>1. PICK args \in Seq(Argument) : Built(msg, args)
  BY Zenon DEF WireInv, HeldInv
<1>2. PICK e \in Element : e = MessageElement(msg, path)
  BY <1>1, ElementIs
<1>3. PICK ts \in Mem : ts = Zeros(8) /\ Len(ts) = 8
  BY ZerosAre
<1> DEFINE inner == [ts |-> ts, elements |-> <<e>>]
<1>4. PICK bytes \in Mem : /\ bytes = lo_bundle_serialise(inner)
                           /\ Len(bytes) = lo_bundle_length(inner)
  <2>1. <<e>> \in Seq(Element)
    OBVIOUS
  <2> QED
    BY <1>3, <2>1, BundleIs
<1> HIDE DEF inner
<1>5. PICK n \in Nat : n = Len(bytes)
  BY DEF Mem
<1>6. PICK f \in Element : f = BundleElement(inner)
  <2>1. BundleElement(inner) = [length |-> n, bytes |-> bytes]
    BY <1>4, <1>5, Zenon DEF BundleElement
  <2>2. [length |-> n, bytes |-> bytes] \in Element
    BY <1>5 DEF Element
  <2> QED
    BY <2>1, <2>2, Zenon
<1> DEFINE outer == [ts |-> ts, elements |-> <<e, f, e>>]
           all == lo_bundle_serialise(outer)
<1>7. Len(all) = lo_bundle_length(outer) /\ lo_validate_bundle(all)
  <2>1. <<e, f, e>> \in Seq(Element)
    OBVIOUS
  <2> QED
    BY <1>3, <2>1, BundleIs
<1> HIDE DEF outer
<1>8. outer = [ts |-> Zeros(8),
               elements |-> <<MessageElement(msg, path),
                              BundleElement([ts |-> Zeros(8),
                                             elements |-> <<MessageElement(msg, path)>>]),
                              MessageElement(msg, path)>>]
  BY <1>2, <1>3, <1>6, Zenon DEF outer, inner
<1> QED
  BY <1>7, <1>8, Zenon DEF BundleValid

LEMMA SendingReturns ==
    ASSUME WireInv, outgoing # <<>>
    PROVE  SentAsAsked
<1>1. PICK m, args, path :
         /\ Built(m, args) /\ path \in Paths /\ outgoing \in Sends(m, path)
         /\ garbled = "no" => args = asked
  BY Zenon DEF WireInv, SentInv
<1>2. ret = 0
  BY Zenon DEF WireInv, SentInv
<1> DEFINE bytes == IF lo_validate_bundle(outgoing) THEN Drop(outgoing, 20) ELSE outgoing
           back == lo_message_deserialise(bytes)
<1>3. bytes = lo_message_serialise(m, path)
  BY <1>1, SentIs
<1>4. lo_get_path(bytes) = path /\ back.types = m.types /\ back.argv = Held(args)
  <2> DEFINE x == lo_message_serialise(m, path)
  <2>1. path \in Str /\ Len(path) > 0
    BY <1>1, PathIs
  <2>2. /\ lo_get_path(x) = path /\ lo_message_deserialise(x).types = m.types
        /\ lo_message_deserialise(x).argv = Held(args)
    BY <1>1, <2>1, ReadBack
  <2> HIDE DEF bytes
  <2> QED
    BY <1>3, <2>2, Zenon
<1> HIDE DEF bytes
<1>5. garbled = "no" => HoldsAsked(back)
  <2> HIDE DEF back
  <2> QED
    BY <1>1, <1>4, HoldsAskedWhen
<1> QED
  BY <1>1, <1>2, <1>4, <1>5, Zenon DEF SentAsAsked, bytes, back

\* What lo_pow2_over leaves out is little.
LEMMA MissIsNarrow ==
    ASSUME WireInv
    PROVE  msg.past = 0 \/ NarrowMiss
<1> SUFFICES ASSUME msg.past # 0 PROVE NarrowMiss
  OBVIOUS
<1>1. PICK n \in Nat : /\ msg.datasize = Doubled(LO_DEF_DATA_SIZE, n)
                       /\ Short(n, msg.datasize, msg.past)
  BY Zenon DEF WireInv, RoomInv, Roomy
<1>2. n \in 0 .. msg.datasize
  <2>1. Doubled(LO_DEF_DATA_SIZE, n) \in Nat /\ Doubled(LO_DEF_DATA_SIZE, n) >= n + 1
    BY WireAssumption, DoubledAbove
  <2> QED
    BY <1>1, <2>1
<1> QED
  BY <1>1, <1>2, Zenon DEF NarrowMiss, Short

\* A message built by lo_message_add_*, one by one or by lo_message_add, for
\* arguments of every length and every number of them, is within what is allocated
\* for it, or beyond it by n parts in LogPrecision of a size doubled n times at most;
\* and if it is within, it comes back from its bytes as it was asked for, alone or
\* sent by lo_send, and a bundle of it is valid (message.c:59-60).
THEOREM RoundTrip == WireSpec => []BuildRoundTrip
<1>1. WireInv => BuildRoundTrip
  <2> SUFFICES ASSUME WireInv PROVE BuildRoundTrip
    OBVIOUS
  <2>1. msg.past = 0 \/ NarrowMiss
    BY MissIsNarrow
  <2>2. garbled \in {"data", "room"}
        \/ \A path \in Paths : MessageRoundTrip(path) /\ BundleValid(path)
    BY MessageReturns, BundleReturns, Zenon
  <2>3. outgoing = <<>> \/ SentAsAsked
    BY SendingReturns, Zenon
  <2> QED
    BY <2>1, <2>2, <2>3, Zenon DEF BuildRoundTrip
<1> QED
  BY <1>1, WireInvariant, PTL
=============================================================================
