---------------------------- MODULE LoCodecProofs ----------------------------
(***************************************************************************)
(* What the runs check of LoSlip, LoPattern, LoUrl and LoEnumeration, for  *)
(* payloads, packets, patterns, names, ports and paths of every length and *)
(* any number of methods: of a stream cut anywhere the dispatcher gets     *)
(* the messages sent, up to the first with a byte to escape; an address    *)
(* pattern matches what its tokens say; a URL says what it was made of; a  *)
(* client that asks for the names below each path finds every method.      *)
(***************************************************************************)
EXTENDS LoSlip, LoPattern, LoUrl, LoEnumeration, LoSequenceLemmas, FiniteSetTheorems

(* SLIP framing *)

Byte == 0 .. 255
Context == [is_slip : {-1, 0, 1}, state : {0, 1}, head : Seq(Byte), out : Seq(Seq(Byte)),
            part : Seq(Byte)]

\* What is counted of a context is finite.
LEMMA ContextLengths ==
    ASSUME NEW c \in Context
    PROVE  Len(c.out) \in Nat /\ Len(c.part) \in Nat
<1>1. c.out \in Seq(Seq(Byte)) /\ c.part \in Seq(Byte)
  BY DEF Context
<1> QED
  BY <1>1

ToEscape(b) == b \in {SLIP_END, SLIP_ESC}

Coded == [j \in 1 .. Len(sent) |-> slip_encode(sent[j])]

\* What slip_encode makes of each byte.
Escaped(data) == [i \in DOMAIN data |->
        CASE data[i] = SLIP_ESC -> <<SLIP_ESC, SLIP_ESC_ESC>>
          [] data[i] = SLIP_END -> <<SLIP_ESC, SLIP_ESC_END>>
          [] OTHER -> <<data[i]>>]

LEMMA EscapedIs ==
    ASSUME NEW p \in Seq(Byte)
    PROVE  /\ Escaped(p) \in Seq(Seq(Byte)) /\ Len(Escaped(p)) = Len(p)
           /\ \A i \in 1 .. Len(p) : LET e == Escaped(p)[i] IN
                 /\ e \in Seq(Byte)
                 /\ ToEscape(p[i]) => Len(e) = 2 /\ e[1] = SLIP_ESC /\ e[2] # SLIP_END
                 /\ ~ToEscape(p[i]) => Len(e) = 1 /\ e[1] = p[i]
<1> DEFINE e == Escaped(p)
           b == [i \in 1 .. Len(p) |-> e[i]]
<1>1. DOMAIN p = 1 .. Len(p) /\ Len(p) \in Nat /\ \A i \in 1 .. Len(p) : p[i] \in Byte
  OBVIOUS
<1>6. /\ {SLIP_END, SLIP_ESC, SLIP_ESC_END, SLIP_ESC_ESC} \subseteq Byte
      /\ SLIP_ESC_END # SLIP_END /\ SLIP_ESC_ESC # SLIP_END
  BY DEF Byte, SLIP_END, SLIP_ESC, SLIP_ESC_END, SLIP_ESC_ESC
<1>7. ASSUME NEW x \in Byte, NEW y \in Byte, NEW z, z = <<x, y>>
      PROVE  z \in Seq(Byte) /\ Len(z) = 2 /\ z[1] = x /\ z[2] = y
  BY <1>7
<1>2. ASSUME NEW i \in 1 .. Len(p)
      PROVE  /\ e[i] \in Seq(Byte)
             /\ ToEscape(p[i]) => Len(e[i]) = 2 /\ e[i][1] = SLIP_ESC /\ e[i][2] # SLIP_END
             /\ ~ToEscape(p[i]) => Len(e[i]) = 1 /\ e[i][1] = p[i]
  <2>1. CASE p[i] = SLIP_ESC
    <3>1. e[i] = <<SLIP_ESC, SLIP_ESC_ESC>>
      BY <1>1, <2>1 DEF Escaped, SLIP_ESC, SLIP_END
    <3> HIDE DEF e
    <3>2. /\ e[i] \in Seq(Byte) /\ Len(e[i]) = 2 /\ e[i][1] = SLIP_ESC /\ e[i][2] = SLIP_ESC_ESC
      BY <1>6, <1>7, <3>1
    <3>3. ToEscape(p[i])
      BY <2>1 DEF ToEscape
    <3>4. e[i][2] # SLIP_END
      BY <1>6, <3>2
    <3> QED
      BY <3>2, <3>3, <3>4, Zenon
  <2>2. CASE p[i] = SLIP_END
    <3>1. e[i] = <<SLIP_ESC, SLIP_ESC_END>>
      BY <1>1, <2>2 DEF Escaped, SLIP_ESC, SLIP_END
    <3> HIDE DEF e
    <3>2. /\ e[i] \in Seq(Byte) /\ Len(e[i]) = 2 /\ e[i][1] = SLIP_ESC /\ e[i][2] = SLIP_ESC_END
      BY <1>6, <1>7, <3>1
    <3>3. ToEscape(p[i])
      BY <2>2 DEF ToEscape
    <3>4. e[i][2] # SLIP_END
      BY <1>6, <3>2
    <3> QED
      BY <3>2, <3>3, <3>4, Zenon
  <2>3. CASE ~ToEscape(p[i])
    <3>1. e[i] = <<p[i]>>
      BY <1>1, <2>3 DEF Escaped, ToEscape
    <3> HIDE DEF e
    <3> QED
      BY <1>1, <2>3, <3>1 DEF Byte
  <2>4. p[i] = SLIP_ESC \/ p[i] = SLIP_END \/ ~ToEscape(p[i])
    BY DEF ToEscape
  <2> QED
    BY <2>1, <2>2, <2>3, <2>4, Zenon
<1>3. e = b
  BY <1>1 DEF Escaped
<1>4. b \in Seq(Seq(Byte)) /\ Len(b) = Len(p)
  <2> HIDE DEF e
  <2> QED
    BY <1>1, <1>2
<1> HIDE DEF e, b
<1> QED
  BY <1>2, <1>3, <1>4 DEF e

\* A message ends at its END, which comes nowhere else; one without an ESC is as it was.
LEMMA EncodeIs ==
    ASSUME NEW p \in Seq(Byte)
    PROVE  LET c == slip_encode(p) IN
           /\ c \in Seq(Byte) /\ Len(c) \in Nat \ {0}
           /\ \A i \in 1 .. Len(c) : c[i] = SLIP_END <=> i = Len(c)
           /\ \A m \in 0 .. Len(p) :
                 (\A i \in 1 .. m : ~ToEscape(p[i])) => m < Len(c) /\ \A i \in 1 .. m : c[i] = p[i]
           /\ (\A i \in 1 .. Len(c) : c[i] # SLIP_ESC) =>
                 Len(c) = Len(p) + 1 /\ \A i \in 1 .. Len(p) : c[i] = p[i]
<1> DEFINE e == Escaped(p)
           s == FlattenSeq(e)
           c == s \o <<SLIP_END>>
<1>1. /\ e \in Seq(Seq(Byte)) /\ Len(e) = Len(p) /\ Len(p) \in Nat
      /\ \A i \in 1 .. Len(p) : /\ e[i] \in Seq(Byte)
                                /\ ToEscape(p[i]) => Len(e[i]) = 2 /\ e[i][1] = SLIP_ESC /\ e[i][2] # SLIP_END
                                /\ ~ToEscape(p[i]) => Len(e[i]) = 1 /\ e[i][1] = p[i]
  <2>1. Len(p) \in Nat
    OBVIOUS
  <2> HIDE DEF e
  <2> QED
    BY <2>1, EscapedIs DEF e
<1>2. slip_encode(p) = c
  BY DEF slip_encode, Escaped
<1> HIDE DEF e
<1>3. PICK o : s \in Seq(Byte) /\ Places(s, e, o)
  BY <1>1, FlattenSeqPlaces
<1>4. /\ c \in Seq(Byte) /\ Len(c) = Len(s) + 1 /\ Len(s) \in Nat
      /\ c[Len(s) + 1] = SLIP_END /\ \A i \in 1 .. Len(s) : c[i] = s[i]
  <2>1. SLIP_END \in Byte
    BY DEF SLIP_END, Byte
  <2>2. c = Append(s, SLIP_END)
    BY <1>3, <2>1, AppendIsConcat
  <2> HIDE DEF c, s
  <2> QED
    BY <1>3, <2>1, <2>2, AppendProperties
<1> HIDE DEF c, s
<1>5. ASSUME NEW i \in 1 .. Len(s) PROVE s[i] # SLIP_END
  <2>1. PICK h \in 1 .. Len(e) : i - o[h - 1] \in 1 .. Len(e[h])
    BY <1>1, <1>3, PlacesCover
  <2>2. o[h - 1] \in Nat
    BY <1>1, <1>3, <2>1 DEF Places
  <2>3. s[o[h - 1] + (i - o[h - 1])] = e[h][i - o[h - 1]]
    BY <1>3, <2>1 DEF Places
  <2>4. s[i] = e[h][i - o[h - 1]]
    BY <2>2, <2>3
  <2>5. e[h][1] # SLIP_END /\ (Len(e[h]) = 1 \/ (Len(e[h]) = 2 /\ e[h][2] # SLIP_END))
    BY <1>1, <2>1 DEF ToEscape, SLIP_END, SLIP_ESC
  <2>6. i - o[h - 1] = 1 \/ (Len(e[h]) = 2 /\ i - o[h - 1] = 2)
    <3>1. i - o[h - 1] \in 1 .. 1 \/ (Len(e[h]) = 2 /\ i - o[h - 1] \in 1 .. 2)
      BY <2>1, <2>5, Zenon
    <3>2. i - o[h - 1] \in Int
      BY <1>4, <2>2
    <3> QED
      BY <3>1, <3>2
  <2> QED
    BY <2>4, <2>5, <2>6
<1>6. ASSUME NEW m \in 0 .. Len(p), \A i \in 1 .. m : ~ToEscape(p[i])
      PROVE  \A i \in 0 .. m : o[i] = i
  <2> DEFINE Bad == {i \in 0 .. m : o[i] # i}
  <2> SUFFICES ASSUME Bad # {} PROVE FALSE
    OBVIOUS
  <2>1. Bad \in SUBSET (0 .. m) /\ 0 \notin Bad /\ m \in Nat
    BY <1>1, <1>3 DEF Places
  <2>2. PICK i \in Bad : i \in 1 .. m /\ i - 1 \in 0 .. m /\ i - 1 \notin Bad
    BY <2>1, LeastBadAfter0
  <2>3. i \in 1 .. Len(p) /\ o[i] = o[i - 1] + Len(e[i])
    BY <1>1, <1>3, <2>1, <2>2 DEF Places
  <2>4. Len(e[i]) = 1
    BY <1>1, <1>6, <2>2, <2>3
  <2> QED
    BY <2>2, <2>3, <2>4
<1>7. ASSUME NEW m \in 0 .. Len(p), \A i \in 1 .. m : ~ToEscape(p[i])
      PROVE  m < Len(c) /\ \A i \in 1 .. m : c[i] = p[i]
  <2>1. /\ o[m] = m /\ o[m] <= o[Len(p)] /\ o[Len(p)] = Len(s)
        /\ \A i \in 1 .. m : o[i - 1] = i - 1 /\ Len(e[i]) = 1 /\ e[i][1] = p[i]
                            /\ s[o[i - 1] + 1] = e[i][1]
    <3>1. \A i \in 0 .. m : o[i] = i
      BY <1>6, <1>7
    <3>2. m \in 0 .. m /\ \A i \in 1 .. m : i - 1 \in 0 .. m /\ i \in 1 .. Len(p)
      BY <1>1
    <3>3. o[m] <= o[Len(p)] /\ o[Len(p)] = Len(s)
      <4>1. Len(p) \in 0 .. Len(e)
        BY <1>1
      <4>2. \A i \in 0 .. Len(p) : o[i] <= o[Len(p)]
        BY <1>1, <1>3, <4>1, PlacesCover
      <4> QED
        BY <1>1, <1>3, <4>2 DEF Places
    <3>4. ASSUME NEW i \in 1 .. m PROVE Len(e[i]) = 1 /\ e[i][1] = p[i] /\ s[o[i - 1] + 1] = e[i][1]
      <4>1. Len(e[i]) = 1 /\ e[i][1] = p[i]
        BY <1>1, <1>7, <3>2
      <4>2. 1 \in 1 .. Len(e[i]) /\ i \in 1 .. Len(e)
        BY <1>1, <3>2, <4>1
      <4> QED
        BY <1>3, <4>1, <4>2 DEF Places
    <3> QED
      BY <3>1, <3>2, <3>3, <3>4
  <2>2. m <= Len(s) /\ \A i \in 1 .. m : s[i] = p[i]
    <3>1. m <= Len(s)
      BY <2>1
    <3>2. ASSUME NEW i \in 1 .. m PROVE s[i] = p[i]
      <4>1. o[i - 1] + 1 = i
        BY <1>1, <2>1
      <4> QED
        BY <2>1, <4>1
    <3> QED
      BY <3>1, <3>2
  <2> QED
    BY <1>4, <2>2
<1>8. ASSUME \A i \in 1 .. Len(c) : c[i] # SLIP_ESC
      PROVE  Len(c) = Len(p) + 1 /\ \A i \in 1 .. Len(p) : c[i] = p[i]
  <2>1. ASSUME NEW i \in 1 .. Len(p) PROVE ~ToEscape(p[i])
    <3> SUFFICES ASSUME ToEscape(p[i]) PROVE FALSE
      OBVIOUS
    <3>1. Len(e[i]) = 2 /\ e[i][1] = SLIP_ESC /\ i \in 1 .. Len(e) /\ 1 \in 1 .. Len(e[i])
      <4>1. Len(e[i]) = 2 /\ e[i][1] = SLIP_ESC
        BY <1>1
      <4>2. i \in 1 .. Len(e)
        BY <1>1
      <4>3. 1 \in 1 .. Len(e[i])
        BY <4>1
      <4> QED
        BY <4>1, <4>2, <4>3, Zenon
    <3>2. /\ s[o[i - 1] + 1] = SLIP_ESC /\ o[i] = o[i - 1] + 2 /\ o[i - 1] \in Nat
          /\ o[i] <= Len(s)
      <4>1. Len(e) \in 0 .. Len(e) /\ i \in 0 .. Len(e) /\ i - 1 \in 0 .. Len(e)
        BY <1>1
      <4>2. o[i] <= o[Len(e)]
        BY <1>1, <1>3, <4>1, PlacesCover
      <4>3. s[o[i - 1] + 1] = e[i][1] /\ o[i] = o[i - 1] + Len(e[i]) /\ o[i - 1] \in Nat /\ o[Len(e)] = Len(s)
        BY <1>3, <3>1, <4>1 DEF Places
      <4> QED
        BY <3>1, <4>2, <4>3
    <3>3. o[i - 1] + 1 \in 1 .. Len(s) /\ o[i - 1] + 1 \in 1 .. Len(c)
      BY <1>4, <3>2
    <3> QED
      BY <1>4, <1>8, <3>2, <3>3
  <2>2. Len(p) \in 0 .. Len(p)
    BY <1>1
  <2>3. Len(p) < Len(c) /\ \A i \in 1 .. Len(p) : c[i] = p[i]
    BY <1>7, <2>1, <2>2
  <2>4. o[Len(p)] = Len(p)
    BY <1>6, <2>1, <2>2
  <2>5. o[Len(p)] = Len(s)
    BY <1>1, <1>3 DEF Places
  <2> QED
    BY <1>4, <2>3, <2>4, <2>5
<1>9. \A i \in 1 .. Len(c) : c[i] = SLIP_END <=> i = Len(c)
  <2> TAKE i \in 1 .. Len(c)
  <2>1. i = Len(s) + 1 \/ i \in 1 .. Len(s)
    BY <1>4
  <2> QED
    BY <1>4, <1>5, <2>1
<1> QED
  BY <1>2, <1>4, <1>7, <1>8, <1>9

--------------------------------------------------------------------------------
(***************************************************************************)
(* The line: the encoded messages one after the other, unless it begins    *)
(* with an END.  The j-th of them ends at f[j].                            *)
(***************************************************************************)
SentOK == sent \in Seq(Payloads) /\ line \in Seq(Byte)
Ends(f) == Places(line, Coded, f)

LEMMA CodedIs ==
    ASSUME SentOK
    PROVE  /\ Coded \in Seq(Seq(Byte)) /\ Len(Coded) = Len(sent) /\ Len(sent) \in Nat
           /\ \A j \in 1 .. Len(sent) : sent[j] \in Seq(Byte) /\ Coded[j] = slip_encode(sent[j])
<1>1. Len(sent) \in Nat /\ \A j \in 1 .. Len(sent) : sent[j] \in Payloads
  BY DEF SentOK
<1>2. \A j \in 1 .. Len(sent) : sent[j] \in Seq(Byte)
  BY <1>1, PayloadAssumption DEF Byte
<1>3. \A j \in 1 .. Len(sent) : slip_encode(sent[j]) \in Seq(Byte)
  BY <1>2, EncodeIs
<1> QED
  BY <1>1, <1>2, <1>3 DEF Coded

LEMMA LineIs ==
    ASSUME SentOK, NEW f, Ends(f)
    PROVE  /\ \A j \in 0 .. Len(sent) : f[j] \in Nat /\ \A i \in 0 .. j : f[i] <= f[j]
           /\ f[0] = 0 /\ f[Len(sent)] = Len(line)
           /\ \A j \in 1 .. Len(sent) :
                 /\ f[j - 1] < f[j] /\ f[j - 1] \in Nat
                 /\ \A p \in f[j - 1] + 1 .. f[j] : line[p] = SLIP_END <=> p = f[j]
                 /\ (\A p \in f[j - 1] + 1 .. f[j] : line[p] # SLIP_ESC) =>
                       /\ f[j] = f[j - 1] + Len(sent[j]) + 1
                       /\ SubSeq(line, f[j - 1] + 1, f[j] - 1) = sent[j]
<1> DEFINE n == Len(sent)
<1>1. /\ Coded \in Seq(Seq(Byte)) /\ Len(Coded) = n /\ n \in Nat
      /\ \A j \in 1 .. n : sent[j] \in Seq(Byte) /\ Coded[j] = slip_encode(sent[j])
  BY CodedIs
<1>2. /\ \A j \in 0 .. n : \A i \in 0 .. j : f[i] <= f[j]
  BY <1>1, PlacesCover DEF SentOK, Ends
<1>3. /\ f \in [0 .. n -> Nat] /\ f[0] = 0 /\ f[n] = Len(line)
      /\ \A j \in 1 .. n : /\ f[j] = f[j - 1] + Len(Coded[j])
                            /\ \A k \in 1 .. Len(Coded[j]) : line[f[j - 1] + k] = Coded[j][k]
  BY <1>1 DEF Places, Ends
<1>4. Len(line) \in Nat /\ \A p \in 1 .. Len(line) : line[p] \in Byte
  BY DEF SentOK
<1> HIDE DEF n
<1>5. ASSUME NEW j \in 1 .. n
      PROVE  /\ f[j - 1] < f[j] /\ f[j - 1] \in Nat
             /\ \A p \in f[j - 1] + 1 .. f[j] : line[p] = SLIP_END <=> p = f[j]
             /\ (\A p \in f[j - 1] + 1 .. f[j] : line[p] # SLIP_ESC) =>
                       /\ f[j] = f[j - 1] + Len(sent[j]) + 1
                       /\ SubSeq(line, f[j - 1] + 1, f[j] - 1) = sent[j]
  <2> DEFINE c == slip_encode(sent[j])
             a == f[j - 1]
  <2>1. sent[j] \in Seq(Byte) /\ c = Coded[j]
    BY <1>1
  <2>2. /\ Len(c) \in Nat \ {0}
        /\ \A i \in 1 .. Len(c) : c[i] = SLIP_END <=> i = Len(c)
        /\ (\A i \in 1 .. Len(c) : c[i] # SLIP_ESC) =>
              Len(c) = Len(sent[j]) + 1 /\ \A i \in 1 .. Len(sent[j]) : c[i] = sent[j][i]
    BY <2>1, EncodeIs
  <2>3. a \in Nat /\ f[j] = a + Len(c) /\ f[j] <= Len(line)
        /\ \A k \in 1 .. Len(c) : line[a + k] = c[k]
    <3>1. j - 1 \in 0 .. n /\ j \in 0 .. n /\ n \in 0 .. n
      BY <1>1
    <3> QED
      BY <1>2, <1>3, <2>1, <3>1
  <2> HIDE DEF c, a
  <2>4. \A p \in a + 1 .. f[j] : p - a \in 1 .. Len(c) /\ line[p] = c[p - a]
    <3> TAKE p \in a + 1 .. f[j]
    <3>1. p - a \in 1 .. Len(c) /\ a + (p - a) = p
      BY <2>2, <2>3
    <3> QED
      BY <2>3, <3>1
  <2>5. \A k \in 1 .. Len(c) : a + k \in a + 1 .. f[j]
    BY <2>2, <2>3
  <2>6. \A p \in a + 1 .. f[j] : line[p] = SLIP_END <=> p = f[j]
    <3> TAKE p \in a + 1 .. f[j]
    <3>1. p - a = Len(c) <=> p = f[j]
      BY <2>2, <2>3
    <3> QED
      BY <2>2, <2>4, <3>1
  <2>7. ASSUME \A p \in a + 1 .. f[j] : line[p] # SLIP_ESC
        PROVE  f[j] = a + Len(sent[j]) + 1 /\ SubSeq(line, a + 1, f[j] - 1) = sent[j]
    <3>1. \A i \in 1 .. Len(c) : c[i] # SLIP_ESC
      BY <2>3, <2>5, <2>7
    <3>2. Len(c) = Len(sent[j]) + 1 /\ \A i \in 1 .. Len(sent[j]) : c[i] = sent[j][i]
      BY <2>2, <3>1
    <3>3. Len(sent[j]) \in Nat
      BY <2>1
    <3> DEFINE s == SubSeq(line, a + 1, f[j] - 1)
               b == f[j] - 1
    <3>8. b \in Int /\ a + 1 \in Int /\ b = a + Len(sent[j])
      BY <2>3, <3>2, <3>3
    <3>4. \A i \in a + 1 .. b : line[i] \in Byte
      BY <1>4, <2>3, <3>8
    <3>9. /\ s \in Seq(Byte) /\ Len(s) = IF a + 1 <= b THEN b - (a + 1) + 1 ELSE 0
          /\ \A i \in 1 .. b - (a + 1) + 1 : s[i] = line[(a + 1) + i - 1]
      <4> HIDE DEF b
      <4> QED
        BY <3>4, <3>8, SubSeqProperties DEF b
    <3> HIDE DEF s, b
    <3>5. Len(s) = Len(sent[j]) /\ \A i \in 1 .. Len(sent[j]) : s[i] = line[a + i]
      <4>1. Len(s) = Len(sent[j]) /\ b - (a + 1) + 1 = Len(sent[j])
        BY <2>3, <3>3, <3>8, <3>9
      <4>2. \A i \in 1 .. Len(sent[j]) : (a + 1) + i - 1 = a + i
        BY <2>3, <3>3
      <4> QED
        BY <3>9, <4>1, <4>2
    <3>6. \A i \in 1 .. Len(sent[j]) : s[i] = sent[j][i]
      <4>1. \A i \in 1 .. Len(sent[j]) : i \in 1 .. Len(c)
        BY <3>2, <3>3
      <4> QED
        BY <2>3, <3>2, <3>5, <4>1
    <3>7. s = sent[j]
      BY <2>1, <3>5, <3>6, <3>9, SeqEqual
    <3> QED
      BY <2>3, <3>2, <3>7 DEF s
  <2>8. a < f[j]
    BY <2>2, <2>3
  <2> QED
    BY <2>3, <2>6, <2>7, <2>8 DEF a
<1>6. \A j \in 0 .. n : f[j] \in Nat /\ \A i \in 0 .. j : f[i] <= f[j]
  BY <1>2, <1>3
<1> QED
  BY <1>3, <1>5, <1>6 DEF n

--------------------------------------------------------------------------------
(***************************************************************************)
(* The receiver: after t bytes of the line the messages given out are all. *)
(***************************************************************************)
\* No ESC so far: the first m messages came, and what came of the next is in part.
Whole(f, all, c, t, m) ==
    /\ m \in 0 .. Len(sent) /\ f[m] <= t /\ (m < Len(sent) => t < f[m + 1])
    /\ \A p \in 1 .. t : line[p] # SLIP_ESC
    /\ Len(all) = m /\ \A j \in 1 .. m : all[j] = sent[j]
    /\ c.part = SubSeq(line, f[m] + 1, t) /\ c.state = 0

\* The first ESC was the x-th byte: the first m messages came before it.
Broken(f, all, t, m) == \E x \in 1 .. t :
    /\ line[x] = SLIP_ESC /\ \A p \in 1 .. x - 1 : line[p] # SLIP_ESC
    /\ m \in 0 .. Len(sent) - 1 /\ f[m] < x /\ x < f[m + 1]
    /\ m <= Len(all) /\ \A j \in 1 .. m : all[j] = sent[j]

\* The n-th byte of a recv was counted.
Decoding(d, n) == d.context \in Context /\ d.from \in 1 .. n + 1

Decoded(f, d, t, n) ==
    \/ d.from = n + 1 /\ \E m \in 0 .. Len(sent) : Whole(f, got \o d.context.out, d.context, t + n, m)
    \/ \E m \in 0 .. Len(sent) : Broken(f, got \o d.context.out, t + n, m)

GotOK == got \in Seq(Seq(Byte))

Associates(u, v, w) == (u \o v) \o w = u \o (v \o w)

LEMMA AnyAssociates ==
    ASSUME NEW S, NEW u \in Seq(S), NEW v \in Seq(S), NEW w \in Seq(S)
    PROVE  Associates(u, v, w)
BY ConcatAssociative DEF Associates

\* One more message is given out.
Grown(more, all, x) ==
    /\ Len(all) \in Nat /\ Len(more) = Len(all) + 1 /\ more[Len(all) + 1] = x
    /\ \A j \in 1 .. Len(all) : more[j] = all[j]

LEMMA OutGrows ==
    ASSUME GotOK, NEW out \in Seq(Seq(Byte)), NEW x \in Seq(Byte)
    PROVE  Grown(got \o Append(out, x), got \o out, x)
<1> DEFINE all == got \o out
           new == Append(out, x)
           more == got \o new
<1>1. /\ new \in Seq(Seq(Byte)) /\ Len(new) = Len(out) + 1 /\ new[Len(out) + 1] = x
      /\ \A j \in 1 .. Len(out) : new[j] = out[j]
  BY AppendProperties
<1> HIDE DEF new
<1>2. /\ Len(all) = Len(got) + Len(out) /\ Len(got) \in Nat /\ Len(out) \in Nat
      /\ \A j \in 1 .. Len(got) + Len(out) : all[j] = IF j <= Len(got) THEN got[j] ELSE out[j - Len(got)]
  BY ConcatProperties DEF GotOK
<1>3. /\ Len(more) = Len(got) + Len(new)
      /\ \A j \in 1 .. Len(got) + Len(new) : more[j] = IF j <= Len(got) THEN got[j] ELSE new[j - Len(got)]
  BY <1>1, ConcatProperties DEF GotOK
<1> HIDE DEF all, more
<1>4. more[Len(all) + 1] = x
  <2>1. /\ Len(all) + 1 \in 1 .. Len(got) + Len(new) /\ ~(Len(all) + 1 <= Len(got))
        /\ (Len(all) + 1) - Len(got) = Len(out) + 1
    BY <1>1, <1>2
  <2> QED
    BY <1>1, <1>3, <2>1
<1>5. ASSUME NEW j \in 1 .. Len(all) PROVE more[j] = all[j]
  <2>1. j \in 1 .. Len(got) + Len(out) /\ j \in 1 .. Len(got) + Len(new)
    BY <1>1, <1>2
  <2>2. CASE j <= Len(got)
    BY <1>2, <1>3, <2>1, <2>2
  <2>3. CASE ~(j <= Len(got))
    <3>1. j - Len(got) \in 1 .. Len(out)
      BY <1>2, <2>1, <2>3
    <3> QED
      BY <1>1, <1>2, <1>3, <2>1, <2>3, <3>1
  <2> QED
    BY <2>2, <2>3
<1>6. Len(all) \in Nat /\ Len(more) = Len(all) + 1
  BY <1>1, <1>2, <1>3
<1>7. Grown(more, all, x)
  BY <1>4, <1>5, <1>6, Zenon DEF Grown
<1> QED
  BY <1>7 DEF all, more, new

\* What a turn does to the context.
Turned(d, e, b, n) ==
    LET c == d.context
    IN  /\ Decoding(e, n) /\ b \in Byte
        /\ e.context.is_slip = c.is_slip /\ e.context.head = c.head
        /\ c.state = 0 /\ b = SLIP_END =>
              e = [context |-> [c EXCEPT !.out = Append(@, c.part), !.part = <<>>], from |-> n + 1]
        /\ ~(c.state = 0 /\ b = SLIP_END) => e.context.out = c.out
        /\ c.state = 0 /\ ~ToEscape(b) =>
              e = [context |-> [c EXCEPT !.part = Append(@, b)], from |-> d.from + 1]

LEMMA DecodeByteIs ==
    ASSUME NEW bytes \in Seq(Byte), NEW n \in 1 .. Len(bytes), NEW d, Decoding(d, n - 1)
    PROVE  Turned(d, DecodeByte(d, bytes, n), bytes[d.from], n)
<1> DEFINE e == DecodeByte(d, bytes, n)
           b == bytes[d.from]
           c == d.context
<1> SUFFICES /\ Decoding(e, n) /\ b \in Byte
             /\ e.context.is_slip = c.is_slip /\ e.context.head = c.head
             /\ c.state = 0 /\ b = SLIP_END =>
                     e = [context |-> [c EXCEPT !.out = Append(@, c.part), !.part = <<>>], from |-> n + 1]
             /\ ~(c.state = 0 /\ b = SLIP_END) => e.context.out = c.out
             /\ c.state = 0 /\ ~ToEscape(b) =>
                     e = [context |-> [c EXCEPT !.part = Append(@, b)], from |-> d.from + 1]
  BY Zenon DEF Turned
<1>1. c \in Context /\ d.from \in 1 .. n /\ n \in Nat \ {0} /\ n <= Len(bytes) /\ Len(bytes) \in Nat
  BY DEF Decoding
<1>2. b \in Byte /\ d.from \in Nat \ {0} /\ d.from \in 1 .. n + 1
  BY <1>1
<1>3. SLIP_END # SLIP_ESC
  BY DEF SLIP_END, SLIP_ESC
<1> HIDE DEF b
<1> DEFINE ended == [c EXCEPT !.out = Append(@, c.part), !.part = <<>>]
           longer == [c EXCEPT !.part = Append(@, b)]
<1>4. CASE c.state = 0 /\ b = SLIP_END
  <2>1. e = [context |-> ended, from |-> n + 1]
    BY <1>3, <1>4 DEF DecodeByte, EndMessage, b
  <2>2. Append(c.out, c.part) \in Seq(Seq(Byte)) /\ <<>> \in Seq(Byte)
    BY <1>1 DEF Context
  <2> HIDE DEF c, e
  <2>3. ended \in Context /\ ended.is_slip = c.is_slip /\ ended.head = c.head
    BY <1>1, <2>2 DEF Context
  <2> HIDE DEF ended
  <2>4. e.context = ended /\ e.from \in 1 .. n + 1
    BY <1>1, <2>1
  <2>5. Decoding(e, n)
    BY <2>3, <2>4 DEF Decoding
  <2>6. ~(c.state = 0 /\ ~ToEscape(b))
    BY <1>4 DEF ToEscape
  <2> QED
    BY <1>2, <1>4, <2>1, <2>3, <2>4, <2>5, <2>6 DEF ended
<1>5. CASE c.state = 0 /\ b = SLIP_ESC
  <2>1. e = [d EXCEPT !.context.state = 1]
    BY <1>3, <1>5 DEF DecodeByte, b
  <2>2. PICK x \in Context : x = c
    BY <1>1
  <2>3. e.context = [x EXCEPT !.state = 1] /\ e.from = d.from
    BY <2>1, <2>2 DEF Decoding
  <2> HIDE DEF e, c
  <2>4. [x EXCEPT !.state = 1] \in Context /\ [x EXCEPT !.state = 1].is_slip = x.is_slip
        /\ [x EXCEPT !.state = 1].head = x.head /\ [x EXCEPT !.state = 1].out = x.out
    BY DEF Context
  <2>5. Decoding(e, n)
    BY <1>2, <2>3, <2>4 DEF Decoding
  <2>6. ToEscape(b) /\ b # SLIP_END
    BY <1>3, <1>5 DEF ToEscape
  <2> QED
    BY <1>2, <2>2, <2>3, <2>4, <2>5, <2>6, Zenon
<1>6. CASE c.state = 0 /\ ~ToEscape(b)
  <2>1. e = [context |-> longer, from |-> d.from + 1]
    BY <1>6 DEF DecodeByte, b, ToEscape
  <2>2. Append(c.part, b) \in Seq(Byte)
    BY <1>1, <1>2 DEF Context
  <2> HIDE DEF e, c
  <2>3. longer \in Context /\ longer.is_slip = c.is_slip /\ longer.head = c.head /\ longer.out = c.out
    BY <1>1, <2>2 DEF Context
  <2> HIDE DEF longer
  <2>4. e.context = longer /\ e.from \in 1 .. n + 1
    BY <1>1, <2>1
  <2>5. Decoding(e, n)
    BY <2>3, <2>4 DEF Decoding
  <2>6. b # SLIP_END
    BY <1>6 DEF ToEscape
  <2> QED
    BY <1>2, <2>1, <2>3, <2>4, <2>5, <2>6 DEF longer
<1>7. CASE c.state = 1
  <2>1. e = [d EXCEPT !.context = [c EXCEPT !.state = 0, !.part = @ \o Unescaped(b)]]
    BY <1>7 DEF DecodeByte, b
  <2>2. Unescaped(b) \in Seq(Byte)
    <3>1. Unescaped(b) \in {<<SLIP_END>>, <<SLIP_ESC>>, <<>>}
      BY DEF Unescaped, SLIP_ESC_END, SLIP_ESC_ESC
    <3>2. SLIP_END \in Byte /\ SLIP_ESC \in Byte
      BY DEF SLIP_END, SLIP_ESC, Byte
    <3>3. <<SLIP_END>> \in Seq(Byte) /\ <<SLIP_ESC>> \in Seq(Byte) /\ <<>> \in Seq(Byte)
      BY <3>2
    <3> QED
      BY <3>1, <3>3, Zenon
  <2>3. c.part \in Seq(Byte)
    BY <1>1 DEF Context
  <2> DEFINE u == c.part \o Unescaped(b)
  <2>4. u \in Seq(Byte)
    BY <2>2, <2>3, ConcatProperties
  <2>5. PICK x \in Context : x = c
    BY <1>1
  <2> HIDE DEF u
  <2>6. e.context = [x EXCEPT !.state = 0, !.part = u] /\ e.from = d.from
    BY <2>1, <2>5 DEF u, Decoding
  <2> HIDE DEF e, c
  <2> DEFINE y == [x EXCEPT !.state = 0, !.part = u]
  <2>7. y \in Context /\ y.is_slip = x.is_slip /\ y.head = x.head /\ y.out = x.out
    BY <2>4 DEF Context
  <2> HIDE DEF y
  <2>8. Decoding(e, n)
    BY <1>2, <2>6, <2>7 DEF Decoding, y
  <2>9. e.context = y /\ c.state # 0
    BY <1>7, <2>6 DEF y
  <2> QED
    BY <1>2, <2>5, <2>7, <2>8, <2>9
<1>8. c.state \in {0, 1}
  BY <1>1 DEF Context
<1> QED
  BY <1>2, <1>4, <1>5, <1>6, <1>7, <1>8 DEF ToEscape, b

\* A turn ends a message, or puts out a byte at most.
LEMMA DecodeByteWrites ==
    ASSUME NEW bytes \in Seq(Byte), NEW n \in 1 .. Len(bytes), NEW d, Decoding(d, n - 1)
    PROVE  LET c == d.context
               e == DecodeByte(d, bytes, n).context
           IN  \/ Len(e.out) = Len(c.out) + 1
               \/ e.out = c.out /\ Len(e.part) \in Nat /\ Len(e.part) <= Len(c.part) + 1
<1> DEFINE c == d.context
           e == DecodeByte(d, bytes, n)
           b == bytes[d.from]
<1> SUFFICES \/ Len(e.context.out) = Len(c.out) + 1
             \/ /\ e.context.out = c.out
                /\ Len(e.context.part) \in Nat /\ Len(e.context.part) <= Len(c.part) + 1
  OBVIOUS
<1>1. c \in Context /\ c.part \in Seq(Byte) /\ c.out \in Seq(Seq(Byte)) /\ c.state \in {0, 1}
  BY DEF Decoding, Context
<1>2. Turned(d, e, b, n)
  BY DecodeByteIs
<1>3. CASE c.state = 0 /\ b = SLIP_END
  <2>1. e = [context |-> [c EXCEPT !.out = Append(@, c.part), !.part = <<>>], from |-> n + 1]
    BY <1>2, <1>3 DEF Turned
  <2> HIDE DEF c, e
  <2>2. e.context = [c EXCEPT !.out = Append(@, c.part), !.part = <<>>]
    BY <2>1
  <2>3. e.context.out = Append(c.out, c.part)
    BY <1>1, <2>2 DEF Context
  <2> QED
    BY <1>1, <2>3
<1>4. CASE c.state = 0 /\ ~ToEscape(b)
  <2>1. e.context = [c EXCEPT !.part = Append(@, b)]
    BY <1>2, <1>4 DEF Turned
  <2> HIDE DEF c, e
  <2>2. e.context.part = Append(c.part, b) /\ e.context.out = c.out
    BY <1>1, <2>1 DEF Context
  <2> QED
    BY <1>1, <2>2
<1>5. CASE c.state = 0 /\ b = SLIP_ESC
  <2>1. e = [d EXCEPT !.context.state = 1]
    BY <1>5 DEF DecodeByte, SLIP_END, SLIP_ESC
  <2>2. PICK x \in Context : x = c
    BY <1>1
  <2>3. e.context = [x EXCEPT !.state = 1]
    BY <2>1, <2>2 DEF Decoding
  <2> HIDE DEF c, e
  <2>4. e.context.part = c.part /\ e.context.out = c.out
    BY <2>2, <2>3 DEF Context
  <2> QED
    BY <1>1, <2>4
<1>6. CASE c.state = 1
  <2>1. e = [d EXCEPT !.context = [c EXCEPT !.state = 0, !.part = @ \o Unescaped(b)]]
    BY <1>6 DEF DecodeByte
  <2>2. Unescaped(b) \in Seq(Byte) /\ Len(Unescaped(b)) <= 1
    <3>1. Unescaped(b) \in {<<SLIP_END>>, <<SLIP_ESC>>, <<>>}
      BY DEF Unescaped, SLIP_ESC_END, SLIP_ESC_ESC
    <3>2. SLIP_END \in Byte /\ SLIP_ESC \in Byte
      BY DEF SLIP_END, SLIP_ESC, Byte
    <3>3. \A x \in Byte : <<x>> \in Seq(Byte) /\ Len(<<x>>) <= 1
      OBVIOUS
    <3>4. <<>> \in Seq(Byte) /\ Len(<<>>) <= 1
      OBVIOUS
    <3> QED
      BY <3>1, <3>2, <3>3, <3>4, Zenon
  <2> DEFINE w == Unescaped(b)
             u == c.part \o w
  <2>8. w \in Seq(Byte) /\ Len(w) <= 1
    BY <2>2
  <2>3. u \in Seq(Byte) /\ Len(u) = Len(c.part) + Len(w) /\ Len(w) \in Nat
    BY <1>1, <2>2, ConcatProperties
  <2>4. PICK x \in Context : x = c
    BY <1>1
  <2> HIDE DEF u
  <2>5. e.context = [x EXCEPT !.state = 0, !.part = u]
    BY <2>1, <2>4 DEF u, Decoding
  <2> HIDE DEF c, e
  <2>6. e.context.part = u /\ e.context.out = c.out
    BY <2>4, <2>5 DEF Context
  <2> HIDE DEF w
  <2>7. Len(c.part) \in Nat
    BY <1>1
  <2> QED
    BY <2>3, <2>6, <2>7, <2>8
<1> QED
  BY <1>1, <1>3, <1>4, <1>5, <1>6 DEF ToEscape

\* A turn keeps the messages given out right.
LEMMA DecodeByteGood ==
    ASSUME SentOK, GotOK, NEW f, Ends(f), NEW t0 \in Nat,
           NEW bytes \in Seq(Byte), t0 + Len(bytes) <= Len(line),
           \A i \in 1 .. Len(bytes) : bytes[i] = line[t0 + i],
           NEW n \in 1 .. Len(bytes), NEW d, Decoding(d, n - 1), Decoded(f, d, t0, n - 1)
    PROVE  Decoded(f, DecodeByte(d, bytes, n), t0, n)
<1> DEFINE e == DecodeByte(d, bytes, n)
           b == bytes[d.from]
           c == d.context
           all == got \o c.out
           more == got \o e.context.out
           t == t0 + (n - 1)
<1>1. /\ n \in Nat \ {0} /\ t \in Nat /\ t + 1 <= Len(line) /\ Len(line) \in Nat
      /\ t0 + n = t + 1 /\ t0 + n \in Nat
  BY DEF SentOK
<1>2. /\ c \in Context /\ c.out \in Seq(Seq(Byte)) /\ c.part \in Seq(Byte) /\ c.state \in {0, 1}
  BY DEF Decoding, Context
<1>3. /\ b \in Byte /\ Decoding(e, n)
      /\ (c.state = 0 /\ b = SLIP_END) =>
                     e = [context |-> [c EXCEPT !.out = Append(@, c.part), !.part = <<>>], from |-> n + 1]
      /\ ~(c.state = 0 /\ b = SLIP_END) => e.context.out = c.out
      /\ (c.state = 0 /\ ~ToEscape(b)) =>
                     e = [context |-> [c EXCEPT !.part = Append(@, b)], from |-> d.from + 1]
  <2>1. Turned(d, e, b, n)
    BY DecodeByteIs
  <2> HIDE DEF e, b
  <2> QED
    BY <2>1, Zenon DEF Turned
<1>4. /\ Len(all) \in Nat
      /\ LET new == got \o Append(c.out, c.part)
         IN  Len(new) = Len(all) + 1 /\ new[Len(all) + 1] = c.part /\ \A j \in 1 .. Len(all) : new[j] = all[j]
  <2>1. Grown(got \o Append(c.out, c.part), got \o c.out, c.part)
    BY <1>2, OutGrows
  <2> QED
    BY <2>1, Zenon DEF Grown
<1>5. /\ \A j \in 0 .. Len(sent) : f[j] \in Nat /\ \A i \in 0 .. j : f[i] <= f[j]
      /\ f[0] = 0 /\ f[Len(sent)] = Len(line) /\ Len(sent) \in Nat
      /\ \A j \in 1 .. Len(sent) :
                 /\ f[j - 1] < f[j] /\ f[j - 1] \in Nat
                 /\ \A p \in f[j - 1] + 1 .. f[j] : line[p] = SLIP_END <=> p = f[j]
                 /\ (\A p \in f[j - 1] + 1 .. f[j] : line[p] # SLIP_ESC) =>
                       /\ f[j] = f[j - 1] + Len(sent[j]) + 1
                       /\ SubSeq(line, f[j - 1] + 1, f[j] - 1) = sent[j]
  BY LineIs, CodedIs
<1> HIDE DEF e, b, t
\* Whatever the turn does, messages are only added.
<1>6. more = all \/ (/\ Len(more) = Len(all) + 1 /\ \A j \in 1 .. Len(all) : more[j] = all[j]
                     /\ more[Len(all) + 1] = c.part)
  <2>1. CASE c.state = 0 /\ b = SLIP_END
    <3>1. e.context = [c EXCEPT !.out = Append(@, c.part), !.part = <<>>]
      BY <1>3, <2>1
    <3>2. e.context.out = Append(c.out, c.part)
      BY <1>2, <3>1 DEF Context
    <3> QED
      BY <1>4, <3>2
  <2>2. CASE ~(c.state = 0 /\ b = SLIP_END)
    BY <1>3, <2>2
  <2> QED
    BY <2>1, <2>2
<1>12. Len(all) \in Nat /\ Len(all) <= Len(more) /\ Len(more) \in Nat /\ \A j \in 1 .. Len(all) : more[j] = all[j]
  <2> HIDE DEF all, more
  <2>1. \A j \in 1 .. Len(all) : more[j] = all[j]
    BY <1>6, Zenon
  <2>2. Len(all) \in Nat /\ (Len(more) = Len(all) \/ Len(more) = Len(all) + 1)
    BY <1>4, <1>6, Zenon
  <2>3. Len(all) <= Len(more) /\ Len(more) \in Nat
    BY <2>2
  <2> QED
    BY <2>1, <2>2, <2>3
<1>7. ASSUME NEW m \in 0 .. Len(sent), Broken(f, all, t, m)
      PROVE  Broken(f, more, t + 1, m)
  <2>1. PICK x \in 1 .. t : /\ line[x] = SLIP_ESC /\ \A p \in 1 .. x - 1 : line[p] # SLIP_ESC
                           /\ m \in 0 .. Len(sent) - 1 /\ f[m] < x /\ x < f[m + 1]
                           /\ m <= Len(all) /\ \A j \in 1 .. m : all[j] = sent[j]
    BY <1>7 DEF Broken
  <2> HIDE DEF all, more
  <2>2. m <= Len(more) /\ \A j \in 1 .. m : j \in 1 .. Len(all)
    <3>1. m \in Nat /\ m <= Len(all)
      BY <2>1
    <3>2. Len(all) \in Nat /\ Len(all) <= Len(more) /\ Len(more) \in Nat
      BY <1>12, Zenon
    <3> QED
      BY <3>1, <3>2
  <2>3. m <= Len(more) /\ \A j \in 1 .. m : more[j] = sent[j]
    BY <1>12, <2>1, <2>2, Zenon
  <2>4. x \in 1 .. t + 1
    BY <1>1, <2>1
  <2> QED
    BY <2>1, <2>3, <2>4 DEF Broken
<1>8. ASSUME NEW m \in 0 .. Len(sent), Whole(f, all, c, t, m), d.from = n
      PROVE  \/ e.from = n + 1 /\ \E k \in 0 .. Len(sent) : Whole(f, more, e.context, t + 1, k)
             \/ Broken(f, more, t + 1, m)
  <2>1. /\ f[m] <= t /\ (m < Len(sent) => t < f[m + 1])
        /\ \A p \in 1 .. t : line[p] # SLIP_ESC
        /\ Len(all) = m /\ \A j \in 1 .. m : all[j] = sent[j]
        /\ c.part = SubSeq(line, f[m] + 1, t) /\ c.state = 0
    BY <1>8 DEF Whole
  <2> HIDE DEF all, more
  <2>2. b = line[t + 1]
    BY <1>1, <1>8 DEF b
  <2>3. m + 1 \in 1 .. Len(sent) /\ m \in Nat /\ m < Len(sent)
    <3>1. Len(sent) \in Nat /\ m \in Nat /\ m <= Len(sent)
      BY <1>5
    <3>2. m # Len(sent)
      <4>1. Len(line) \in Nat /\ t \in Nat /\ ~(Len(line) <= t)
        BY <1>1
      <4>2. f[Len(sent)] = Len(line) /\ f[m] <= t
        BY <1>5, <2>1, Zenon
      <4> QED
        BY <4>1, <4>2, Zenon
    <3> QED
      BY <3>1, <3>2
  <2> DEFINE y == f[m + 1]
  <2>4. /\ f[m] \in Nat /\ y \in Nat /\ t < y /\ t + 1 \in f[m] + 1 .. y
        /\ \A p \in f[m] + 1 .. y : line[p] = SLIP_END <=> p = y
        /\ (\A p \in f[m] + 1 .. y : line[p] # SLIP_ESC) => SubSeq(line, f[m] + 1, y - 1) = sent[m + 1]
    <3>1. (m + 1) - 1 = m /\ m + 1 \in 0 .. Len(sent)
      BY <2>3
    <3>2. f[m] \in Nat /\ y \in Nat /\ t < y
      <4>1. f[m + 1] \in Nat /\ f[m] \in Nat
        BY <1>5, <3>1
      <4> QED
        BY <2>1, <2>3, <4>1
    <3>3. t + 1 \in f[m] + 1 .. y
      <4>1. f[m] <= t /\ t \in Nat
        BY <1>1, <2>1, Zenon
      <4>2. PICK g, z \in Nat : g = f[m] /\ z = y
        BY <3>2
      <4>3. g <= t /\ t < z
        BY <3>2, <4>1, <4>2, Zenon
      <4>4. t + 1 \in g + 1 .. z
        BY <4>1, <4>3
      <4> QED
        BY <4>2, <4>4, Zenon
    <3>4. \A p \in f[(m + 1) - 1] + 1 .. f[m + 1] : line[p] = SLIP_END <=> p = f[m + 1]
      BY <1>5, <2>3, Zenon
    <3>5. (\A p \in f[(m + 1) - 1] + 1 .. f[m + 1] : line[p] # SLIP_ESC) =>
                       SubSeq(line, f[(m + 1) - 1] + 1, f[m + 1] - 1) = sent[m + 1]
      BY <1>5, <2>3, Zenon
    <3> QED
      BY <3>1, <3>2, <3>3, <3>4, <3>5, Zenon
  <2>8. y = f[m + 1]
    OBVIOUS
  <2> HIDE DEF y
  <2>9. (line[t + 1] = SLIP_END) <=> (t + 1 = y)
    BY <2>4, Zenon
  <2>10. b # SLIP_END => t + 1 < y
    <3> SUFFICES ASSUME b # SLIP_END PROVE t + 1 < y
      OBVIOUS
    <3>1. t + 1 # y
      BY <2>2, <2>9
    <3>2. t < y /\ y \in Nat
      BY <2>4
    <3> QED
      BY <1>1, <3>1, <3>2
  <2>11. \A p \in 1 .. t + 1 : p \in 1 .. t \/ p = t + 1
    BY <1>1
  <2>12. b # SLIP_ESC => \A p \in 1 .. t + 1 : line[p] # SLIP_ESC
    BY <2>1, <2>2, <2>11, Zenon
  <2>13. SLIP_END # SLIP_ESC
    BY DEF SLIP_END, SLIP_ESC
  <2>5. CASE b = SLIP_END
    <3>1. t + 1 = y /\ t = y - 1
      <4>1. t + 1 = y
        BY <2>2, <2>5, <2>9, Zenon
      <4> QED
        BY <1>1, <4>1
    <3>2. \A p \in f[m] + 1 .. y : line[p] # SLIP_ESC
      <4>1. \A p \in f[m] + 1 .. y : p \in 1 .. t + 1
        BY <1>1, <2>4, <3>1
      <4> QED
        BY <2>5, <2>12, <2>13, <4>1, Zenon
    <3>3. c.part = sent[m + 1]
      BY <2>1, <2>4, <3>1, <3>2
    <3>4. e.from = n + 1 /\ e.context = [c EXCEPT !.out = Append(@, c.part), !.part = <<>>]
      BY <1>3, <2>1, <2>5
    <3>5. e.context.part = <<>> /\ e.context.state = 0 /\ e.context.out = Append(c.out, c.part)
      BY <1>2, <2>1, <3>4 DEF Context
    <3>6. Len(more) = m + 1 /\ \A j \in 1 .. m + 1 : more[j] = sent[j]
      <4>1. Len(more) = m + 1 /\ more[m + 1] = c.part /\ \A j \in 1 .. m : more[j] = all[j]
        BY <1>4, <2>1, <3>5 DEF all, more
      <4>2. \A j \in 1 .. m + 1 : j = m + 1 \/ j \in 1 .. m
        BY <2>3
      <4> QED
        BY <2>1, <3>3, <4>1, <4>2
    <3>7. SubSeq(line, y + 1, t + 1) = <<>>
      BY <1>1, <2>4, <3>1, SubSeqEmpty
    <3>8. m + 1 < Len(sent) => t + 1 < f[(m + 1) + 1]
      <4> SUFFICES ASSUME m + 1 < Len(sent) PROVE t + 1 < f[(m + 1) + 1]
        OBVIOUS
      <4>1. (m + 1) + 1 \in 1 .. Len(sent) /\ ((m + 1) + 1) - 1 = m + 1
        BY <2>3
      <4> QED
        BY <1>5, <2>8, <3>1, <4>1
    <3>9. \A p \in 1 .. t + 1 : line[p] # SLIP_ESC
      BY <2>5, <2>12, <2>13, Zenon
    <3>10. m + 1 \in 0 .. Len(sent) /\ f[m + 1] <= t + 1
      BY <2>3, <2>4, <2>8, <3>1
    <3>11. e.context.part = SubSeq(line, f[m + 1] + 1, t + 1)
      BY <2>8, <3>5, <3>7, Zenon
    <3>12. Whole(f, more, e.context, t + 1, m + 1)
      BY <3>5, <3>6, <3>8, <3>9, <3>10, <3>11, Zenon DEF Whole
    <3> QED
      BY <3>4, <3>10, <3>12, Zenon
  <2>6. CASE b = SLIP_ESC
    <3>1. t + 1 < y
      BY <2>6, <2>10, <2>13
    <3>2. t + 1 \in 1 .. t + 1 /\ (t + 1) - 1 = t /\ f[m] < t + 1
      BY <1>1, <2>1, <2>4
    <3>3. m <= Len(more) /\ \A j \in 1 .. m : more[j] = sent[j]
      <4>1. m <= Len(more) /\ \A j \in 1 .. m : j \in 1 .. Len(all)
        BY <1>12, <2>1
      <4> QED
        BY <1>12, <2>1, <4>1, Zenon
    <3>4. m \in 0 .. Len(sent) - 1
      BY <2>3
    <3> QED
      BY <2>1, <2>2, <2>6, <2>8, <3>1, <3>2, <3>3, <3>4 DEF Broken
  <2>7. CASE ~ToEscape(b)
    <3>1. t + 1 < y
      BY <2>7, <2>10 DEF ToEscape
    <3>8. e = [context |-> [c EXCEPT !.part = Append(@, b)], from |-> d.from + 1]
      BY <1>3, <2>1, <2>7, Zenon
    <3>2. e.context = [c EXCEPT !.part = Append(@, b)] /\ e.from = d.from + 1
      BY <3>8
    <3>3. e.context.part = Append(c.part, b) /\ e.context.state = 0 /\ e.context.out = c.out
      BY <1>2, <2>1, <3>2 DEF Context
    <3>4. Append(c.part, b) = SubSeq(line, f[m] + 1, t + 1)
      <4>5. PICK g \in Nat, l \in Nat : g = f[m] /\ l = Len(line)
        BY <1>1, <2>4
      <4>6. g <= t /\ t < l /\ t \in Nat
        BY <1>1, <2>1, <4>5
      <4>7. g + 1 \in 1 .. l /\ t + 1 \in g + 1 .. l /\ (t + 1) - 1 = t
        BY <4>6
      <4>1. f[m] + 1 \in 1 .. Len(line) /\ t + 1 \in f[m] + 1 .. Len(line) /\ (t + 1) - 1 = t
        BY <4>5, <4>7, Zenon
      <4>2. SubSeq(line, f[m] + 1, t + 1) = SubSeq(line, f[m] + 1, (t + 1) - 1) \o <<line[t + 1]>>
        BY <4>1, SubSeqRecursiveSecond DEF SentOK
      <4>3. Append(c.part, b) = c.part \o <<b>>
        BY <1>2, <1>3, AppendIsConcat
      <4> QED
        BY <2>1, <2>2, <4>1, <4>2, <4>3
    <3>5. \A p \in 1 .. t + 1 : line[p] # SLIP_ESC
      BY <2>7, <2>12 DEF ToEscape
    <3>6. more = all
      BY <3>3 DEF more, all
    <3>7. f[m] <= t + 1
      BY <1>1, <2>1, <2>4
    <3> QED
      BY <1>8, <2>1, <2>8, <3>1, <3>2, <3>3, <3>4, <3>5, <3>6, <3>7 DEF Whole
  <2> QED
    BY <2>5, <2>6, <2>7 DEF ToEscape
<1>9. n - 1 + 1 = n
  BY <1>1
<1>10. \/ d.from = n /\ \E m \in 0 .. Len(sent) : Whole(f, all, c, t, m)
       \/ \E m \in 0 .. Len(sent) : Broken(f, all, t, m)
  BY <1>9 DEF Decoded, t
<1>11. \/ e.from = n + 1 /\ \E m \in 0 .. Len(sent) : Whole(f, more, e.context, t0 + n, m)
       \/ \E m \in 0 .. Len(sent) : Broken(f, more, t0 + n, m)
  BY <1>1, <1>7, <1>8, <1>10
<1> QED
  BY <1>11 DEF Decoded, e


\* The turns of a recv, which slip_decode is the last of.
Decodes(d, c, bytes) ==
    d = [n \in 0 .. Len(bytes) |->
            IF n = 0 THEN [context |-> c, from |-> 1] ELSE DecodeByte(d[n - 1], bytes, n)]

LEMMA DecodesExists ==
    ASSUME NEW c, NEW bytes, Len(bytes) \in Nat
    PROVE  \E d : Decodes(d, c, bytes)
<1> DEFINE l == Len(bytes)
           UpTo(d, m) == d = [n \in 0 .. m |->
                IF n = 0 THEN [context |-> c, from |-> 1] ELSE DecodeByte(d[n - 1], bytes, n)]
           Bad == {m \in 0 .. l : ~ \E d : UpTo(d, m)}
<1> SUFFICES \E d : UpTo(d, l)
  BY DEF Decodes
<1> SUFFICES ASSUME Bad # {} PROVE FALSE
  OBVIOUS
<1>1. UpTo([n \in 0 .. 0 |-> [context |-> c, from |-> 1]], 0)
  OBVIOUS
<1>2. Bad \in SUBSET (0 .. l) /\ 0 \notin Bad
  BY <1>1
<1>3. PICK m \in Bad : m \in 1 .. l /\ m - 1 \in 0 .. l /\ m - 1 \notin Bad
  BY <1>2, LeastBadAfter0
<1>4. PICK d : UpTo(d, m - 1)
  BY <1>3
<1> DEFINE e == [n \in 0 .. m |-> IF n = m THEN DecodeByte(d[m - 1], bytes, m) ELSE d[n]]
<1>5. /\ m \in Nat \ {0} /\ m \in 0 .. m /\ m - 1 \in 0 .. m /\ m - 1 # m
      /\ \A n \in 0 .. m : n # m => n \in 0 .. m - 1 /\ (n # 0 => n - 1 \in 0 .. m - 1 /\ n - 1 \in 0 .. m /\ n - 1 # m)
  BY <1>3
<1>6. e[m] = DecodeByte(d[m - 1], bytes, m) /\ \A n \in 0 .. m : n # m => e[n] = d[n]
  BY <1>5
<1>7. \A n \in 0 .. m - 1 : d[n] = IF n = 0 THEN [context |-> c, from |-> 1] ELSE DecodeByte(d[n - 1], bytes, n)
  <2>1. d = [n \in 0 .. m - 1 |->
                IF n = 0 THEN [context |-> c, from |-> 1] ELSE DecodeByte(d[n - 1], bytes, n)]
    BY <1>4
  <2> HIDE DEF UpTo
  <2> TAKE n \in 0 .. m - 1
  <2> QED
    BY <2>1
<1> DEFINE Right(n) == IF n = 0 THEN [context |-> c, from |-> 1] ELSE DecodeByte(e[n - 1], bytes, n)
<1>9. e = [n \in 0 .. m |-> e[n]]
  OBVIOUS
<1>8. ASSUME NEW n \in 0 .. m
      PROVE  e[n] = Right(n)
  <2> HIDE DEF e
  <2>1. CASE n = m
    BY <1>5, <1>6, <2>1
  <2>2. CASE n # m
    <3>1. e[n] = d[n] /\ n \in 0 .. m - 1 /\ (n # 0 => e[n - 1] = d[n - 1])
      BY <1>5, <1>6, <2>2
    <3> QED
      BY <1>7, <3>1
  <2> QED
    BY <2>1, <2>2
<1>10. e = [n \in 0 .. m |-> Right(n)]
  <2> HIDE DEF e, Right
  <2> QED
    BY <1>8, <1>9
<1>11. UpTo(e, m)
  <2> HIDE DEF e
  <2> QED
    BY <1>10
<1> QED
  BY <1>3, <1>11

LEMMA SlipDecodeIs ==
    ASSUME NEW c \in Context, NEW bytes \in Seq(Byte)
    PROVE  \E d : /\ slip_decode(c, bytes) = d[Len(bytes)].context /\ Len(bytes) \in Nat
                  /\ d = Turns(c, bytes)
                  /\ d[0] = [context |-> c, from |-> 1]
                  /\ \A n \in 1 .. Len(bytes) : d[n] = DecodeByte(d[n - 1], bytes, n)
                  /\ \A n \in 0 .. Len(bytes) :
                        /\ Decoding(d[n], n)
                        /\ d[n].context.is_slip = c.is_slip /\ d[n].context.head = c.head
<1> DEFINE d == CHOOSE d : Decodes(d, c, bytes)
           l == Len(bytes)
<1>1. l \in Nat
  OBVIOUS
<1>2. Decodes(d, c, bytes)
  BY <1>1, DecodesExists
<1>3. slip_decode(c, bytes) = d[l].context /\ d = Turns(c, bytes)
  BY DEF slip_decode, Turns, Decodes
<1> HIDE DEF d
<1>4. /\ d[0] = [context |-> c, from |-> 1]
      /\ \A n \in 1 .. l : d[n] = DecodeByte(d[n - 1], bytes, n)
  <2>1. 0 \in 0 .. l /\ \A n \in 1 .. l : n \in 0 .. l /\ n # 0
    BY <1>1
  <2>2. \A n \in 0 .. l : d[n] = IF n = 0 THEN [context |-> c, from |-> 1] ELSE DecodeByte(d[n - 1], bytes, n)
    <3>1. d = [n \in 0 .. l |-> IF n = 0 THEN [context |-> c, from |-> 1] ELSE DecodeByte(d[n - 1], bytes, n)]
      BY <1>2 DEF Decodes
    <3> TAKE n \in 0 .. l
    <3> QED
      BY <3>1
  <2> QED
    BY <2>1, <2>2
<1> DEFINE Good(n) == /\ Decoding(d[n], n)
                      /\ d[n].context.is_slip = c.is_slip /\ d[n].context.head = c.head
           Bad == {n \in 0 .. l : ~Good(n)}
<1>5. Bad = {}
  <2> SUFFICES ASSUME Bad # {} PROVE FALSE
    OBVIOUS
  <2>1. Good(0)
    <3>1. d[0].context = c /\ d[0].from = 1
      BY <1>4
    <3> QED
      BY <3>1 DEF Decoding
  <2>2. Bad \in SUBSET (0 .. l) /\ 0 \notin Bad
    BY <2>1
  <2> HIDE DEF Good
  <2>3. PICK n \in Bad : n \in 1 .. l /\ n - 1 \in 0 .. l /\ n - 1 \notin Bad
    BY <1>1, <2>2, LeastBadAfter0
  <2>4. Good(n - 1) /\ ~Good(n)
    BY <2>3
  <2>5. d[n] = DecodeByte(d[n - 1], bytes, n) /\ Decoding(d[n - 1], n - 1)
    BY <1>4, <2>3, <2>4 DEF Good
  <2>6. Decoding(d[n], n) /\ d[n].context.is_slip = d[n - 1].context.is_slip
        /\ d[n].context.head = d[n - 1].context.head
    <3>1. PICK x : x = d[n - 1]
      OBVIOUS
    <3>2. /\ Decoding(DecodeByte(x, bytes, n), n)
          /\ DecodeByte(x, bytes, n).context.is_slip = x.context.is_slip
          /\ DecodeByte(x, bytes, n).context.head = x.context.head
      <4>1. n \in 1 .. Len(bytes) /\ Decoding(x, n - 1)
        BY <2>3, <2>5, <3>1
      <4>2. Turned(x, DecodeByte(x, bytes, n), bytes[x.from], n)
        BY <4>1, DecodeByteIs
      <4> QED
        BY <4>2, Zenon DEF Turned
    <3> QED
      BY <2>5, <3>1, <3>2
  <2> QED
    BY <2>4, <2>6 DEF Good
<1> QED
  BY <1>1, <1>3, <1>4, <1>5

LEMMA SlipDecodeType ==
    ASSUME NEW c \in Context, NEW bytes \in Seq(Byte)
    PROVE  LET r == slip_decode(c, bytes)
           IN  r \in Context /\ r.is_slip = c.is_slip /\ r.head = c.head
<1>1. PICK d : /\ slip_decode(c, bytes) = d[Len(bytes)].context /\ Len(bytes) \in Nat
               /\ d[0] = [context |-> c, from |-> 1]
               /\ \A n \in 1 .. Len(bytes) : d[n] = DecodeByte(d[n - 1], bytes, n)
               /\ \A n \in 0 .. Len(bytes) :
                     /\ Decoding(d[n], n)
                     /\ d[n].context.is_slip = c.is_slip /\ d[n].context.head = c.head
  BY SlipDecodeIs
<1>2. Len(bytes) \in 0 .. Len(bytes)
  BY <1>1
<1> QED
  BY <1>1, <1>2 DEF Decoding

\* What came of the line before and with a recv is right after it.
LEMMA SlipDecodeGood ==
    ASSUME SentOK, GotOK, NEW f, Ends(f), NEW t \in Nat,
           NEW bytes \in Seq(Byte), t + Len(bytes) <= Len(line),
           \A i \in 1 .. Len(bytes) : bytes[i] = line[t + i],
           NEW c \in Context, NEW m \in 0 .. Len(sent),
           Whole(f, got \o c.out, c, t, m) \/ Broken(f, got \o c.out, t, m)
    PROVE  LET r == slip_decode(c, bytes)
               u == t + Len(bytes)
           IN  \E k \in 0 .. Len(sent) : Whole(f, got \o r.out, r, u, k) \/ Broken(f, got \o r.out, u, k)
<1> DEFINE l == Len(bytes)
<1>1. PICK d : /\ slip_decode(c, bytes) = d[l].context /\ l \in Nat
               /\ d[0] = [context |-> c, from |-> 1]
               /\ \A n \in 1 .. l : d[n] = DecodeByte(d[n - 1], bytes, n)
               /\ \A n \in 0 .. l : Decoding(d[n], n)
  BY SlipDecodeIs
<1> DEFINE Bad == {n \in 0 .. l : ~Decoded(f, d[n], t, n)}
<1>2. Decoded(f, d[0], t, 0)
  <2>1. d[0].context = c /\ d[0].from = 0 + 1 /\ t + 0 = t
    BY <1>1
  <2> QED
    BY <2>1 DEF Decoded
<1>3. Bad = {}
  <2> SUFFICES ASSUME Bad # {} PROVE FALSE
    OBVIOUS
  <2>1. Bad \in SUBSET (0 .. l) /\ 0 \notin Bad
    BY <1>2
  <2>2. PICK n \in Bad : n \in 1 .. l /\ n - 1 \in 0 .. l /\ n - 1 \notin Bad
    BY <1>1, <2>1, LeastBadAfter0
  <2>3. /\ ~Decoded(f, d[n], t, n) /\ Decoded(f, d[n - 1], t, n - 1)
        /\ Decoding(d[n - 1], n - 1) /\ d[n] = DecodeByte(d[n - 1], bytes, n)
    BY <1>1, <2>2
  <2> QED
    BY <2>2, <2>3, DecodeByteGood
<1>4. Decoded(f, d[l], t, l)
  <2>1. l \in 0 .. l
    BY <1>1
  <2> QED
    BY <1>3, <2>1
<1> QED
  BY <1>1, <1>4 DEF Decoded


--------------------------------------------------------------------------------
(***************************************************************************)
(* The invariant.  A first recv of less than four bytes, or a stream that  *)
(* begins with an END, has the first message changed: nothing is said of   *)
(* those.                                                                  *)
(***************************************************************************)
Right(f) ==
    /\ Ends(f)
    /\ \E m \in 0 .. Len(sent) :
          Whole(f, got \o slip.out, slip, taken, m) \/ Broken(f, got \o slip.out, taken, m)

SlipInv ==
    /\ SentOK /\ GotOK /\ taken \in 0 .. Len(line) /\ slip \in Context
    /\ \/ slip.head # <<>>
       \/ line # <<>> /\ line[1] = SLIP_END
       \/ taken = 0 /\ slip = init_context /\ got = <<>> /\ \E f : Ends(f)
       \/ taken > 0 /\ slip.is_slip = 1 /\ \E f : Right(f)

LEMMA PayloadIs ==
    ASSUME NEW p \in Payloads
    PROVE  /\ p \in Seq(Byte) /\ Len(p) >= 4 /\ Len(p) \in Nat /\ detect_slip(p)
           /\ p[1] # SLIP_END /\ \A i \in 1 .. 4 : ~ToEscape(p[i])
<1>1. p \in Seq(Byte) /\ Len(p) >= 4 /\ Len(p) \in Nat /\ detect_slip(p) /\ p[1] # SLIP_END
  BY PayloadAssumption DEF Byte
<1>2. \A i \in 1 .. 4 : i = 1 \/ i \in 2 .. 4
  OBVIOUS
<1>3. \A i \in 1 .. 4 : i = 1 \/ i = 2 \/ i = 3 \/ i = 4
  OBVIOUS
<1>4. CASE p[1] = Slash /\ \A i \in 2..4 : Text(p[i])
  <2>1. \A b : Text(b) => ~ToEscape(b)
    BY DEF Text, ToEscape, SLIP_END, SLIP_ESC
  <2>2. ~ToEscape(Slash)
    BY DEF Slash, ToEscape, SLIP_END, SLIP_ESC
  <2> QED
    BY <1>1, <1>2, <1>4, <2>1, <2>2
<1>5. CASE SubSeq(p, 1, 4) = Bun
  <2>1. \A i \in 1 .. 4 : i \in 1 .. 4 - 1 + 1 /\ 1 + i - 1 = i
    OBVIOUS
  <2>2. \A i \in 1 .. 4 : p[i] \in Byte
    BY <1>1
  <2>3. \A i \in 1 .. 4 : SubSeq(p, 1, 4)[i] = p[i]
    BY <2>1, <2>2, SubSeqProperties
  <2>4. Bun[1] = 35 /\ Bun[2] = 98 /\ Bun[3] = 117 /\ Bun[4] = 110
    BY DEF Bun
  <2>5. \A i \in 1 .. 4 : p[i] \in {35, 98, 117, 110}
    BY <1>3, <1>5, <2>3, <2>4
  <2> QED
    BY <1>1, <2>5 DEF ToEscape, SLIP_END, SLIP_ESC
<1> QED
  BY <1>1, <1>4, <1>5 DEF detect_slip

\* The first bytes of a stream tell what it is.
LEMMA FirstBytes ==
    ASSUME SentOK, NEW f, Ends(f), NEW bytes \in Seq(Byte), Len(bytes) >= 4, Len(bytes) <= Len(line),
           \A i \in 1 .. Len(bytes) : bytes[i] = line[i]
    PROVE  detect_slip(bytes)
<1>1. /\ Coded \in Seq(Seq(Byte)) /\ Len(Coded) = Len(sent) /\ Len(sent) \in Nat
      /\ \A j \in 1 .. Len(sent) : sent[j] \in Seq(Byte) /\ Coded[j] = slip_encode(sent[j])
  BY CodedIs
<1>2. f[0] = 0 /\ f[Len(sent)] = Len(line)
  BY LineIs
<1>3. Len(bytes) \in Nat /\ Len(line) \in Nat /\ Len(sent) # 0
  BY <1>2 DEF SentOK
<1>4. 1 \in 1 .. Len(sent) /\ 1 - 1 = 0
  BY <1>1, <1>3
<1> DEFINE p == sent[1]
<1>5. p \in Payloads
  BY <1>4 DEF SentOK
<1>6. /\ p \in Seq(Byte) /\ Len(p) >= 4 /\ Len(p) \in Nat /\ detect_slip(p)
      /\ p[1] # SLIP_END /\ \A i \in 1 .. 4 : ~ToEscape(p[i])
  BY <1>5, PayloadIs
<1>7. 4 < Len(slip_encode(p)) /\ \A i \in 1 .. 4 : slip_encode(p)[i] = p[i]
  <2>1. 4 \in 0 .. Len(p)
    BY <1>6
  <2> QED
    BY <1>6, <2>1, EncodeIs
<1>8. \A i \in 1 .. 4 : bytes[i] = p[i]
  <2>1. Coded[1] = slip_encode(p) /\ Len(slip_encode(p)) \in Nat
    BY <1>1, <1>4, <1>6, EncodeIs
  <2>2. \A k \in 1 .. Len(slip_encode(p)) : line[0 + k] = slip_encode(p)[k]
    <3>1. \A j \in 1 .. Len(Coded) : \A k \in 1 .. Len(Coded[j]) : line[f[j - 1] + k] = Coded[j][k]
      BY DEF Ends, Places
    <3>2. 1 \in 1 .. Len(Coded) /\ f[1 - 1] = 0
      BY <1>1, <1>2, <1>4
    <3>3. \A k \in 1 .. Len(Coded[1]) : line[0 + k] = Coded[1][k]
      BY <3>1, <3>2
    <3> QED
      BY <2>1, <3>3
  <2>3. \A i \in 1 .. 4 : i \in 1 .. Len(bytes) /\ i \in 1 .. Len(slip_encode(p)) /\ 0 + i = i
    BY <1>3, <1>7, <2>1
  <2> QED
    BY <1>7, <2>2, <2>3
<1>9. SubSeq(bytes, 1, 4) = SubSeq(p, 1, 4)
  <2> DEFINE s == SubSeq(bytes, 1, 4)
             u == SubSeq(p, 1, 4)
  <2>1. \A i \in 1 .. 4 : p[i] \in Byte /\ bytes[i] \in Byte
    BY <1>6, <1>8
  <2>2. /\ s \in Seq(Byte) /\ Len(s) = 4 - 1 + 1 /\ \A i \in 1 .. 4 - 1 + 1 : s[i] = bytes[1 + i - 1]
    BY <2>1, SubSeqProperties
  <2>3. /\ u \in Seq(Byte) /\ Len(u) = 4 - 1 + 1 /\ \A i \in 1 .. 4 - 1 + 1 : u[i] = p[1 + i - 1]
    BY <2>1, SubSeqProperties
  <2> HIDE DEF s, u
  <2>4. Len(s) = 4 /\ Len(u) = 4 /\ \A i \in 1 .. 4 : s[i] = u[i]
    BY <1>8, <2>2, <2>3
  <2> QED
    BY <2>2, <2>3, <2>4, SeqEqual DEF s, u
<1>10. \A i \in 2 .. 4 : i \in 1 .. 4
  OBVIOUS
<1>11. bytes[1] = p[1] /\ \A i \in 2 .. 4 : bytes[i] = p[i]
  BY <1>8, <1>10
<1> QED
  BY <1>6, <1>9, <1>11 DEF detect_slip

LEMMA SlipInitOk == SlipInit => SlipInv
<1> SUFFICES ASSUME SlipInit PROVE SlipInv
  OBVIOUS
<1>1. sent = <<>> /\ line = <<>> /\ taken = 0 /\ slip = init_context /\ got = <<>>
  BY DEF SlipInit
<1>2. SentOK /\ GotOK /\ taken \in 0 .. Len(line)
  BY <1>1 DEF SentOK, GotOK
<1>3. init_context \in Context
  BY DEF init_context, Context
<1>4. Coded = <<>>
  BY <1>1 DEF Coded
<1>5. Ends([i \in 0 .. 0 |-> 0])
  BY <1>1, <1>4 DEF Ends, Places
<1> QED
  BY <1>1, <1>2, <1>3, <1>5 DEF SlipInv

\* A message is sent: the line goes on after what is on it.
LEMMA LineGrows ==
    ASSUME SentOK, NEW f, Ends(f), NEW p \in Payloads, send_data(p)
    PROVE  \E g : /\ Ends(g)' /\ g[Len(sent) + 1] = Len(line) + Len(slip_encode(p))
                  /\ \A j \in 0 .. Len(sent) : g[j] = f[j]
<1> DEFINE x == slip_encode(p)
           n == Len(Coded)
           g == OneMore(f, n, Len(line) + Len(x))
<1>1. Coded \in Seq(Seq(Byte)) /\ n = Len(sent) /\ Len(sent) \in Nat
      /\ \A j \in 1 .. Len(sent) : sent[j] \in Seq(Byte) /\ Coded[j] = slip_encode(sent[j])
  BY CodedIs
<1>2. p \in Seq(Byte) /\ x \in Seq(Byte)
  BY PayloadIs, EncodeIs
<1>3. Places(line \o x, Append(Coded, x), g)
  <2>1. line \in Seq(Byte) /\ Places(line, Coded, f)
    BY Zenon DEF SentOK, Ends
  <2> QED
    BY <1>1, <1>2, <2>1, PlacesAppend
<1>4. line' = line \o x /\ sent' = Append(sent, p)
  BY DEF send_data
<1>5. Coded' = Append(Coded, x)
  <2>1. Len(sent') = Len(sent) + 1 /\ sent'[Len(sent) + 1] = p /\ \A j \in 1 .. Len(sent) : sent'[j] = sent[j]
    BY <1>4, AppendProperties DEF SentOK
  <2>2. Coded' = [j \in 1 .. Len(sent) + 1 |-> slip_encode(sent'[j])]
    BY <2>1 DEF Coded
  <2>3. Append(Coded, x) = [j \in 1 .. Len(sent) + 1 |-> IF j = Len(sent) + 1 THEN x ELSE Coded[j]]
    <3> DEFINE a == Append(Coded, x)
    <3>1. /\ a \in Seq(Seq(Byte)) /\ Len(a) = n + 1 /\ a[n + 1] = x /\ \A j \in 1 .. n : a[j] = Coded[j]
      BY <1>1, <1>2, AppendProperties
    <3> HIDE DEF a
    <3>2. a = [j \in 1 .. n + 1 |-> a[j]]
      BY <3>1
    <3>3. \A j \in 1 .. n + 1 : j \in 1 .. n \/ j = n + 1
      BY <1>1
    <3>4. \A j \in 1 .. n + 1 : a[j] = IF j = n + 1 THEN x ELSE Coded[j]
      BY <3>1, <3>3
    <3>5. a = [j \in 1 .. n + 1 |-> IF j = n + 1 THEN x ELSE Coded[j]]
      BY <3>2, <3>4
    <3> QED
      BY <1>1, <3>5 DEF a
  <2>4. \A j \in 1 .. Len(sent) + 1 : j \in 1 .. Len(sent) \/ j = Len(sent) + 1
    BY <1>1
  <2>5. \A j \in 1 .. Len(sent) + 1 :
           slip_encode(sent'[j]) = IF j = Len(sent) + 1 THEN x ELSE Coded[j]
    BY <1>1, <2>1, <2>4
  <2> QED
    BY <2>2, <2>3, <2>5
<1>8. PICK h : h = g
  OBVIOUS
<1>6. Ends(h)'
  BY <1>3, <1>4, <1>5, <1>8 DEF Ends
<1>7. h[Len(sent) + 1] = Len(line) + Len(x) /\ \A j \in 0 .. Len(sent) : h[j] = f[j]
  <2>1. line \in Seq(Byte) /\ Places(line, Coded, f)
    BY Zenon DEF SentOK, Ends
  <2>2. f \in [0 .. n -> Nat]
    BY <2>1, Zenon DEF Places
  <2>3. Len(line) + Len(x) \in Nat
    BY <1>2, <2>1
  <2>4. IsOneMore(g, f, n, Len(line) + Len(x))
    BY <1>1, <2>2, <2>3, OneMoreIs
  <2> QED
    BY <1>1, <1>8, <2>4, Zenon DEF IsOneMore
<1> QED
  BY <1>6, <1>7


LEMMA SendOk == SlipInv /\ (\E p \in Payloads : send_data(p)) => SlipInv'
<1> SUFFICES ASSUME SlipInv, NEW p \in Payloads, send_data(p) PROVE SlipInv'
  OBVIOUS
<1> DEFINE x == slip_encode(p)
<1>1. /\ sent' = Append(sent, p) /\ line' = line \o x
      /\ taken' = taken /\ slip' = slip /\ got' = got
  BY DEF send_data
<1>2. SentOK /\ GotOK /\ taken \in 0 .. Len(line) /\ slip \in Context
  BY DEF SlipInv
<1>3. p \in Seq(Byte) /\ x \in Seq(Byte) /\ Len(x) \in Nat \ {0}
  BY PayloadIs, EncodeIs
<1> HIDE DEF x
<1>4. /\ sent' \in Seq(Payloads) /\ Len(sent') = Len(sent) + 1 /\ Len(sent) \in Nat
      /\ \A j \in 1 .. Len(sent) : sent'[j] = sent[j]
  BY <1>1, <1>2, AppendProperties DEF SentOK
<1>5. /\ line' \in Seq(Byte) /\ Len(line') = Len(line) + Len(x) /\ Len(line) \in Nat
      /\ \A j \in 1 .. Len(line) : line'[j] = line[j]
  <2>1. line \in Seq(Byte)
    BY <1>2 DEF SentOK
  <2>2. /\ line' \in Seq(Byte) /\ Len(line') = Len(line) + Len(x)
        /\ \A j \in 1 .. Len(line) + Len(x) : line'[j] = IF j <= Len(line) THEN line[j] ELSE x[j - Len(line)]
    BY <1>1, <1>3, <2>1, ConcatProperties
  <2>3. \A j \in 1 .. Len(line) : j \in 1 .. Len(line) + Len(x) /\ j <= Len(line)
    BY <1>3, <2>1
  <2>4. Len(line) \in Nat
    BY <2>1
  <2> QED
    BY <2>2, <2>3, <2>4
<1>6. SentOK' /\ GotOK' /\ taken' \in 0 .. Len(line') /\ slip' \in Context
  <2>1. taken \in 0 .. Len(line) + Len(x)
    BY <1>2, <1>3, <1>5
  <2> QED
    BY <1>1, <1>2, <1>4, <1>5, <2>1 DEF SentOK, GotOK
<1>7. ASSUME line # <<>>, line[1] = SLIP_END
      PROVE  line' # <<>> /\ line'[1] = SLIP_END
  <2>1. Len(line) # 0
    BY <1>2, <1>7 DEF SentOK
  <2>2. 1 \in 1 .. Len(line) /\ Len(line') # 0
    BY <1>3, <1>5, <2>1
  <2> QED
    BY <1>5, <1>7, <2>2
<1>8. ASSUME NEW f, Ends(f)
      PROVE  /\ \E g : Ends(g)'
             /\ Right(f) => \E g : Right(g)'
  <2>1. PICK g : /\ Ends(g)' /\ g[Len(sent) + 1] = Len(line) + Len(x)
                 /\ \A j \in 0 .. Len(sent) : g[j] = f[j]
    BY <1>2, <1>8, LineGrows DEF x
  <2>2. /\ \A j \in 0 .. Len(sent) : f[j] \in Nat
        /\ f[Len(sent)] = Len(line)
    BY <1>2, <1>8, LineIs
  <2>3. ASSUME Right(f) PROVE Right(g)'
    <3> DEFINE all == got \o slip.out
    <3>1. PICK m \in 0 .. Len(sent) : Whole(f, all, slip, taken, m) \/ Broken(f, all, taken, m)
      BY <2>3 DEF Right
    <3>2. m \in Nat /\ m \in 0 .. Len(sent) /\ m \in 0 .. Len(sent') /\ taken \in Nat /\ taken <= Len(line)
          /\ f[m] \in Nat /\ g[m] = f[m] /\ \A j \in 1 .. m : sent'[j] = sent[j]
      <4>1. \A j \in 1 .. m : j \in 1 .. Len(sent)
        BY <1>4
      <4> QED
        BY <1>2, <1>4, <1>5, <2>1, <2>2, <4>1
    <3>3. \A p_1 \in 1 .. taken : p_1 \in 1 .. Len(line)
      BY <1>5, <3>2
    <3>4. \A p_1 \in 1 .. taken : line'[p_1] = line[p_1]
      BY <1>5, <3>3
    <3> HIDE DEF all
    <3>5. all' = all
      BY <1>1 DEF all
    <3>6. ASSUME Whole(f, all, slip, taken, m) PROVE Whole(g, all, slip, taken, m)'
      <4>1. /\ f[m] <= taken /\ (m < Len(sent) => taken < f[m + 1])
            /\ \A p_1 \in 1 .. taken : line[p_1] # SLIP_ESC
            /\ Len(all) = m /\ \A j \in 1 .. m : all[j] = sent[j]
            /\ slip.part = SubSeq(line, f[m] + 1, taken) /\ slip.state = 0
        BY <3>6 DEF Whole
      <4>2. m < Len(sent') => taken < g[m + 1]
        <5>1. CASE m < Len(sent)
          <6>1. m + 1 \in 0 .. Len(sent)
            BY <1>4, <3>2, <5>1
          <6> QED
            BY <2>1, <4>1, <5>1, <6>1
        <5>2. CASE m = Len(sent)
          BY <1>3, <1>5, <2>1, <3>2, <5>2
        <5> QED
          BY <1>4, <3>2, <5>1, <5>2
      <4>3. SubSeq(line', f[m] + 1, taken) = SubSeq(line, f[m] + 1, taken)
        <5>1. CASE f[m] + 1 <= taken
          <6>1. f[m] + 1 \in 1 .. Len(line) /\ taken \in 1 .. Len(line)
            BY <1>5, <3>2, <5>1
          <6>2. line \in Seq(Byte)
            BY <1>2 DEF SentOK
          <6>3. SubSeq(line \o x, f[m] + 1, taken) = SubSeq(line, f[m] + 1, taken)
            BY <1>3, <6>1, <6>2, SubSeqOfConcat1
          <6> QED
            BY <1>1, <6>3, Zenon
        <5>2. CASE taken < f[m] + 1
          <6>1. f[m] + 1 \in Int /\ taken \in Int
            BY <3>2
          <6> QED
            BY <5>2, <6>1, SubSeqEmpty
        <5>3. f[m] \in Nat /\ taken \in Nat
          BY <3>2
        <5>4. f[m] + 1 <= taken \/ taken < f[m] + 1
          BY <5>3
        <5> QED
          BY <5>1, <5>2, <5>4, Zenon
      <4>4. \A p_1 \in 1 .. taken : line'[p_1] # SLIP_ESC
        BY <3>4, <4>1
      <4> QED
        BY <1>1, <3>2, <3>5, <4>1, <4>2, <4>3, <4>4 DEF Whole
    <3>7. ASSUME Broken(f, all, taken, m) PROVE Broken(g, all, taken, m)'
      <4>1. PICK x_1 \in 1 .. taken :
               /\ line[x_1] = SLIP_ESC /\ \A p_1 \in 1 .. x_1 - 1 : line[p_1] # SLIP_ESC
               /\ m \in 0 .. Len(sent) - 1 /\ f[m] < x_1 /\ x_1 < f[m + 1]
               /\ m <= Len(all) /\ \A j \in 1 .. m : all[j] = sent[j]
        BY <3>7 DEF Broken
      <4>2. m + 1 \in 0 .. Len(sent) /\ m \in 0 .. Len(sent') - 1
        BY <1>4, <4>1
      <4>3. g[m + 1] = f[m + 1]
        BY <2>1, <4>2
      <4>4. \A p_1 \in 1 .. x_1 - 1 : p_1 \in 1 .. taken
        BY <3>2, <4>1
      <4>5. \A p_1 \in 1 .. x_1 - 1 : line'[p_1] # SLIP_ESC
        BY <3>4, <4>1, <4>4
      <4> QED
        BY <1>1, <3>2, <3>4, <3>5, <4>1, <4>2, <4>3, <4>5 DEF Broken
    <3> QED
      BY <2>1, <3>1, <3>2, <3>6, <3>7 DEF Right, all
  <2> QED
    BY <2>1, <2>3
<1>9. line' # <<>>
  <2>1. Len(line') # 0
    BY <1>3, <1>5
  <2> QED
    BY <2>1
<1> QED
  BY <1>1, <1>2, <1>6, <1>7, <1>8 DEF SlipInv, Right


LEMMA BeginOk == SlipInv /\ BeginWithEnd => SlipInv'
<1> SUFFICES ASSUME SlipInv, BeginWithEnd PROVE SlipInv'
  OBVIOUS
<1>1. line = <<>> /\ line' = <<SLIP_END>> /\ sent' = sent /\ taken' = taken /\ slip' = slip /\ got' = got
  BY DEF BeginWithEnd
<1>2. SentOK /\ GotOK /\ taken \in 0 .. Len(line) /\ slip \in Context
  BY DEF SlipInv
<1>3. SLIP_END \in Byte
  BY DEF SLIP_END, Byte
<1>4. line' \in Seq(Byte) /\ Len(line') = 1 /\ line' # <<>> /\ line'[1] = SLIP_END
  BY <1>1, <1>3
<1>5. taken \in 0 .. 1
  BY <1>1, <1>2
<1>6. SentOK' /\ GotOK' /\ taken' \in 0 .. Len(line') /\ slip' \in Context
  BY <1>1, <1>2, <1>4, <1>5 DEF SentOK, GotOK
<1> QED
  BY <1>4, <1>6 DEF SlipInv

\* What one recv brings.
LEMMA BytesAre ==
    ASSUME SentOK, taken \in 0 .. Len(line), NEW k \in 1 .. MaxRecv, k <= Len(line) - taken
    PROVE  LET bytes == SubSeq(line, taken + 1, taken + k)
           IN  /\ bytes \in Seq(Byte) /\ Len(bytes) = k /\ k \in Nat \ {0}
               /\ \A i \in 1 .. k : bytes[i] = line[taken + i]
<1>1. /\ k \in Nat \ {0} /\ taken \in Nat /\ Len(line) \in Nat /\ taken + k <= Len(line)
      /\ \A i \in 1 .. Len(line) : line[i] \in Byte
  BY BoundsAssumption DEF SentOK
<1>2. \A i \in taken + 1 .. taken + k : i \in 1 .. Len(line)
  BY <1>1
<1>3. /\ taken + 1 \in Int /\ taken + k \in Int /\ taken + 1 <= taken + k
      /\ (taken + k) - (taken + 1) + 1 = k
      /\ \A i \in 1 .. k : (taken + 1) + i - 1 = taken + i
  BY <1>1
<1>4. \A i \in taken + 1 .. taken + k : line[i] \in Byte
  BY <1>1, <1>2
<1> DEFINE bytes == SubSeq(line, taken + 1, taken + k)
<1>5. /\ bytes \in Seq(Byte) /\ Len(bytes) = k
      /\ \A i \in 1 .. k : bytes[i] = line[(taken + 1) + i - 1]
  BY <1>3, <1>4, SubSeqProperties
<1> HIDE DEF bytes
<1> QED
  BY <1>1, <1>3, <1>5 DEF bytes

\* What a recv does, by what is known of the stream before and after it.
LEMMA AfterRecvIs ==
    ASSUME SlipInv, NEW k \in 1 .. MaxRecv, CanRecv(k)
    PROVE  LET bytes == SubSeq(line, taken + 1, taken + k)
               head == slip.head \o bytes
           IN  /\ bytes \in Seq(Byte) /\ Len(bytes) = k
               /\ \/ slip.is_slip = 1 /\ AfterRecv(k) = Decode(slip, room.offset, bytes)
                  \/ /\ slip.is_slip = -1 /\ Len(head) < 4
                     /\ AfterRecv(k) = Kept([slip EXCEPT !.head = head], k)
                  \/ /\ slip.is_slip = -1 /\ Len(head) >= 4 /\ detect_slip(head)
                     /\ AfterRecv(k) = Decode(Found(head), room.offset + SizeOfLength, bytes)
                  \/ /\ slip.is_slip = -1 /\ Len(head) >= 4 /\ ~detect_slip(head)
                     /\ AfterRecv(k) = Kept(Found(head), k)
<1> DEFINE bytes == SubSeq(line, taken + 1, taken + k)
           head == slip.head \o bytes
<1>1. SentOK /\ taken \in 0 .. Len(line) /\ k <= Len(line) - taken
  BY DEF SlipInv, CanRecv
<1>2. bytes \in Seq(Byte) /\ Len(bytes) = k
  BY <1>1, BytesAre
<1>3. slip.head \in Seq(Byte) /\ slip.is_slip \in {-1, 1}
  BY DEF SlipInv, Context, CanRecv
<1>4. AfterRecv(k) =
         CASE slip.is_slip = 1 -> Decode(slip, room.offset, bytes)
           [] slip.is_slip = -1 /\ Len(head) < 4 -> Kept([slip EXCEPT !.head = head], k)
           [] slip.is_slip = -1 /\ Len(head) >= 4 ->
                IF detect_slip(head) THEN Decode(Found(head), room.offset + SizeOfLength, bytes)
                ELSE Kept(Found(head), k)
  BY DEF AfterRecv
<1> HIDE DEF bytes
<1>5. Len(head) \in Nat
  BY <1>2, <1>3
<1> HIDE DEF head
<1>6. Len(head) < 4 \/ Len(head) >= 4
  BY <1>5
<1>7. 1 # -1 /\ ~(Len(head) < 4 /\ Len(head) >= 4)
  BY <1>5
<1>8. CASE slip.is_slip = 1
  BY <1>2, <1>4, <1>7, <1>8 DEF bytes, head
<1>9. CASE slip.is_slip = -1 /\ Len(head) < 4
  <2>1. AfterRecv(k) = Kept([slip EXCEPT !.head = head], k)
    BY <1>4, <1>7, <1>9
  <2> QED
    BY <1>2, <1>9, <2>1 DEF bytes, head
<1>10. CASE slip.is_slip = -1 /\ Len(head) >= 4
  <2>1. AfterRecv(k) = IF detect_slip(head) THEN Decode(Found(head), room.offset + SizeOfLength, bytes)
                       ELSE Kept(Found(head), k)
    BY <1>4, <1>7, <1>10
  <2> QED
    BY <1>2, <1>10, <2>1 DEF bytes, head
<1> QED
  BY <1>3, <1>6, <1>8, <1>9, <1>10

LEMMA FoundIs ==
    ASSUME slip \in Context, NEW head
    PROVE  LET found == Found(head)
           IN  /\ found \in Context /\ found.head = slip.head
               /\ found.out = slip.out /\ found.state = slip.state
               /\ found.is_slip = (IF detect_slip(head) THEN 1 ELSE 0)
               /\ found.part = [i \in 1..Len(slip.head) |-> 0]
<1> DEFINE z == [i \in 1..Len(slip.head) |-> 0]
           y == IF detect_slip(head) THEN 1 ELSE 0
           found == Found(head)
<1>1. z \in Seq(Byte) /\ y \in {-1, 0, 1}
  BY DEF Byte, Context
<1>2. PICK w \in Context : w = slip
  OBVIOUS
<1>3. found = [w EXCEPT !.is_slip = y, !.part = z]
  BY <1>2 DEF Found
<1> HIDE DEF z, y, found
<1>4. /\ found \in Context /\ found.head = w.head /\ found.out = w.out /\ found.state = w.state
      /\ found.is_slip = y /\ found.part = z
  BY <1>1, <1>3 DEF Context
<1> QED
  BY <1>2, <1>4 DEF z, y, found

LEMMA RecvOk == SlipInv /\ (\E k \in 1 .. MaxRecv : Recv(k)) => SlipInv'
<1> SUFFICES ASSUME SlipInv, NEW k \in 1 .. MaxRecv, Recv(k) PROVE SlipInv'
  OBVIOUS
<1> DEFINE bytes == SubSeq(line, taken + 1, taken + k)
           head == slip.head \o bytes
           found == Found(head)
<1>1. /\ SentOK /\ GotOK /\ taken \in 0 .. Len(line) /\ slip \in Context
      /\ \/ slip.head # <<>>
         \/ line # <<>> /\ line[1] = SLIP_END
         \/ taken = 0 /\ slip = init_context /\ got = <<>> /\ \E f : Ends(f)
         \/ taken > 0 /\ slip.is_slip = 1 /\ \E f : Right(f)
  BY DEF SlipInv
<1>2. /\ slip.is_slip # 0 /\ k <= Len(line) - taken /\ slip' = AfterRecv(k).context
      /\ taken' = taken + k /\ sent' = sent /\ line' = line /\ got' = got
  BY DEF Recv, CanRecv
<1>12. \/ slip.is_slip = 1 /\ slip' = slip_decode(slip, bytes)
       \/ slip.is_slip = -1 /\ Len(head) < 4 /\ slip' = [slip EXCEPT !.head = head]
       \/ /\ slip.is_slip = -1 /\ Len(head) >= 4 /\ detect_slip(head)
          /\ slip' = slip_decode(found, bytes)
       \/ slip.is_slip = -1 /\ Len(head) >= 4 /\ ~detect_slip(head) /\ slip' = found
  <2>1. \/ slip.is_slip = 1 /\ AfterRecv(k) = Decode(slip, room.offset, bytes)
        \/ /\ slip.is_slip = -1 /\ Len(head) < 4
           /\ AfterRecv(k) = Kept([slip EXCEPT !.head = head], k)
        \/ /\ slip.is_slip = -1 /\ Len(head) >= 4 /\ detect_slip(head)
           /\ AfterRecv(k) = Decode(found, room.offset + SizeOfLength, bytes)
        \/ /\ slip.is_slip = -1 /\ Len(head) >= 4 /\ ~detect_slip(head)
           /\ AfterRecv(k) = Kept(found, k)
    <3>1. CanRecv(k)
      BY DEF Recv
    <3> QED
      BY <3>1, AfterRecvIs
  <2>2. \A c, o : Decode(c, o, bytes).context = slip_decode(c, bytes) /\ Kept(c, k).context = c
    BY DEF Decode, Kept
  <2> HIDE DEF bytes, head, found
  <2> QED
    BY <1>2, <2>1, <2>2
<1>3. /\ bytes \in Seq(Byte) /\ Len(bytes) = k /\ k \in Nat \ {0}
      /\ \A i \in 1 .. k : bytes[i] = line[taken + i]
  BY <1>1, <1>2, BytesAre
<1>4. taken \in Nat /\ Len(line) \in Nat /\ taken' \in 0 .. Len(line) /\ taken' > 0
  <2>1. line \in Seq(Byte) /\ taken \in 0 .. Len(line)
    BY <1>1 DEF SentOK
  <2>2. k <= Len(line) - taken /\ taken' = taken + k /\ k \in Nat \ {0}
    BY <1>2, <1>3
  <2>3. Len(line) \in Nat
    BY <2>1
  <2> QED
    BY <2>1, <2>2, <2>3
<1> HIDE DEF bytes
<1>5. /\ slip.head \in Seq(Byte) /\ slip.out \in Seq(Seq(Byte)) /\ slip.part \in Seq(Byte)
      /\ slip.is_slip \in {-1, 0, 1}
  BY <1>1 DEF Context
<1>6. head \in Seq(Byte) /\ Len(head) = Len(slip.head) + k /\ Len(slip.head) \in Nat
      /\ (slip.head = <<>> => head = bytes) /\ head # <<>>
  <2>5. PICK h \in Seq(Byte) : h = slip.head
    BY <1>5
  <2>6. h \o bytes \in Seq(Byte) /\ Len(h \o bytes) = Len(h) + Len(bytes)
    BY <1>3, ConcatProperties
  <2>1. head \in Seq(Byte) /\ Len(head) = Len(slip.head) + Len(bytes)
    BY <2>5, <2>6, Zenon
  <2>2. slip.head = <<>> => head = bytes
    BY <1>3, ConcatEmptySeq
  <2>3. Len(slip.head) \in Nat
    BY <1>5
  <2>4. Len(head) # 0
    BY <1>3, <2>1, <2>3
  <2> HIDE DEF head
  <2> QED
    BY <1>3, <2>1, <2>2, <2>3, <2>4
<1> HIDE DEF head
<1>7. /\ found \in Context /\ found.head = slip.head /\ found.out = slip.out /\ found.state = slip.state
      /\ found.is_slip = (IF detect_slip(head) THEN 1 ELSE 0)
      /\ found.part = [i \in 1..Len(slip.head) |-> 0]
  BY <1>1, FoundIs
<1> HIDE DEF found
<1>8. slip.is_slip = 1 \/ slip.is_slip = -1
  BY <1>2, <1>5
<1>9. CASE slip.is_slip = 1
  <2>1. slip' = slip_decode(slip, bytes)
    BY <1>9, <1>12
  <2>2. slip' \in Context /\ slip'.is_slip = 1 /\ slip'.head = slip.head
    BY <1>1, <1>3, <1>9, <2>1, SlipDecodeType
  <2>3. slip # init_context
    BY <1>9 DEF init_context
  <2>4. (\E f : Right(f)) => (\E f : Right(f)')
    <3> SUFFICES ASSUME NEW f, Right(f) PROVE Right(f)'
      OBVIOUS
    <3>1. PICK m \in 0 .. Len(sent) :
             Whole(f, got \o slip.out, slip, taken, m) \/ Broken(f, got \o slip.out, taken, m)
      BY DEF Right
    <3>2. Ends(f)
      BY DEF Right
    <3>3. taken + Len(bytes) <= Len(line) /\ \A i \in 1 .. Len(bytes) : bytes[i] = line[taken + i]
      BY <1>2, <1>3, <1>4
    <3>4. \E j \in 0 .. Len(sent) : \/ Whole(f, got \o slip'.out, slip', taken', j)
                                   \/ Broken(f, got \o slip'.out, taken', j)
      BY <1>1, <1>2, <1>3, <1>4, <2>1, <3>1, <3>2, <3>3, SlipDecodeGood
    <3>5. Ends(f)'
      BY <1>2, <3>2 DEF Ends, Coded
    <3> QED
      <4>1. PICK j \in 0 .. Len(sent) : \/ Whole(f, got \o slip'.out, slip', taken', j)
                                         \/ Broken(f, got \o slip'.out, taken', j)
        BY <3>4
      <4>2. line' = line /\ sent' = sent /\ got' = got
        BY <1>2
      <4>3. Whole(f, got \o slip'.out, slip', taken', j) => Whole(f, got \o slip.out, slip, taken, j)'
        BY <4>2 DEF Whole
      <4>4. Broken(f, got \o slip'.out, taken', j) => Broken(f, got \o slip.out, taken, j)'
        BY <4>2 DEF Broken
      <4>5. j \in 0 .. Len(sent')
        BY <4>2
      <4> QED
        BY <3>5, <4>1, <4>3, <4>4, <4>5, Zenon DEF Right
  <2>5. SentOK' /\ GotOK' /\ taken' \in 0 .. Len(line')
    BY <1>1, <1>2, <1>4 DEF SentOK, GotOK
  <2> QED
    BY <1>1, <1>2, <1>4, <2>2, <2>3, <2>4, <2>5 DEF SlipInv
<1>10. CASE slip.is_slip = -1 /\ Len(head) < 4
  <2>1. slip' = [slip EXCEPT !.head = head]
    BY <1>6, <1>10, <1>12
  <2>2. slip' \in Context /\ slip'.head # <<>>
    BY <1>1, <1>6, <2>1 DEF Context
  <2> QED
    BY <1>1, <1>2, <1>4, <2>2 DEF SlipInv, SentOK, GotOK
<1>11. CASE slip.is_slip = -1 /\ Len(head) >= 4
  <2>1. slip' = IF found.is_slip = 1 THEN slip_decode(found, bytes) ELSE found
    <3>1. slip' = IF detect_slip(head) THEN slip_decode(found, bytes) ELSE found
      BY <1>6, <1>11, <1>12
    <3>2. (found.is_slip = 1) <=> detect_slip(head)
      BY <1>7
    <3> QED
      BY <3>1, <3>2, Zenon
  <2>2. slip' \in Context /\ slip'.head = slip.head /\ slip'.is_slip = found.is_slip
    <3>1. found.is_slip = 1 => /\ slip_decode(found, bytes) \in Context
                               /\ slip_decode(found, bytes).head = found.head
                               /\ slip_decode(found, bytes).is_slip = found.is_slip
      BY <1>3, <1>7, SlipDecodeType
    <3> QED
      BY <1>7, <2>1, <3>1
  <2>3. SentOK' /\ GotOK' /\ taken' \in 0 .. Len(line')
    BY <1>1, <1>2, <1>4 DEF SentOK, GotOK
  <2>4. CASE slip.head # <<>> \/ (line # <<>> /\ line[1] = SLIP_END)
    BY <1>2, <2>2, <2>3, <2>4 DEF SlipInv
  <2>5. CASE taken = 0 /\ slip = init_context /\ got = <<>> /\ \E f : Ends(f)
    <3>1. PICK f : Ends(f)
      BY <2>5
    <3>2. slip.head = <<>> /\ slip.out = <<>> /\ slip.state = 0
      BY <2>5 DEF init_context
    <3>3. head = bytes /\ Len(slip.head) = 0
      BY <1>6, <3>2
    <3>4. Len(bytes) >= 4 /\ Len(bytes) <= Len(line) /\ \A i \in 1 .. Len(bytes) : bytes[i] = line[i]
      BY <1>2, <1>3, <1>4, <1>11, <2>5, <3>3
    <3>5. detect_slip(head)
      BY <1>1, <1>3, <3>1, <3>3, <3>4, FirstBytes
    <3>6. found.is_slip = 1 /\ found.part = <<>> /\ found.out = <<>> /\ found.state = 0
      BY <1>7, <3>2, <3>3, <3>5
    <3>7. slip' = slip_decode(found, bytes)
      BY <2>1, <3>6
    <3>8. /\ f[0] = 0 /\ Len(sent) \in Nat /\ \A j \in 1 .. Len(sent) : f[j - 1] < f[j]
      BY <1>1, <3>1, LineIs, CodedIs
    <3>9. Whole(f, got \o found.out, found, 0, 0)
      <4>1. got \o found.out = <<>>
        BY <2>5, <3>6
      <4>2. SubSeq(line, f[0] + 1, 0) = <<>>
        BY <3>8, SubSeqEmpty
      <4>3. 0 < Len(sent) => 0 < f[0 + 1]
        <5> SUFFICES ASSUME 0 < Len(sent) PROVE 0 < f[0 + 1]
          OBVIOUS
        <5>1. 1 \in 1 .. Len(sent) /\ 1 - 1 = 0 /\ 0 + 1 = 1
          BY <3>8
        <5> QED
          BY <3>8, <5>1
      <4>4. Len(<<>>) = 0 /\ \A j \in 1 .. 0 : FALSE
        OBVIOUS
      <4> QED
        BY <3>6, <3>8, <4>1, <4>2, <4>3, <4>4 DEF Whole
    <3>10. \E j \in 0 .. Len(sent) : \/ Whole(f, got \o slip'.out, slip', taken', j)
                                    \/ Broken(f, got \o slip'.out, taken', j)
      <4>1. 0 \in 0 .. Len(sent) /\ 0 + Len(bytes) <= Len(line) /\ taken' = 0 + Len(bytes)
        BY <1>2, <1>3, <2>5, <3>4, <3>8
      <4>2. \A i \in 1 .. Len(bytes) : bytes[i] = line[0 + i]
        BY <3>4
      <4> QED
        BY <1>1, <1>3, <1>7, <3>1, <3>7, <3>9, <4>1, <4>2, SlipDecodeGood
    <3>11. Ends(f)'
      BY <1>2, <3>1 DEF Ends, Coded
    <3>12. Right(f)'
      BY <1>2, <3>10, <3>11 DEF Right, Whole, Broken
    <3>13. slip'.is_slip = 1
      BY <2>2, <3>6
    <3> QED
      BY <1>4, <2>2, <2>3, <3>12, <3>13 DEF SlipInv
  <2> QED
    BY <1>1, <1>11, <2>4, <2>5
<1> QED
  BY <1>6, <1>8, <1>9, <1>10, <1>11

LEMMA DispatchOk == SlipInv /\ Dispatch => SlipInv'
<1> SUFFICES ASSUME SlipInv, Dispatch PROVE SlipInv'
  OBVIOUS
<1>1. /\ SentOK /\ GotOK /\ taken \in 0 .. Len(line) /\ slip \in Context
      /\ \/ slip.head # <<>>
         \/ line # <<>> /\ line[1] = SLIP_END
         \/ taken = 0 /\ slip = init_context /\ got = <<>> /\ \E f : Ends(f)
         \/ taken > 0 /\ slip.is_slip = 1 /\ \E f : Right(f)
  BY DEF SlipInv
<1>2. /\ slip.out # <<>>
      /\ got' = Append(got, Head(slip.out)) /\ slip' = [slip EXCEPT !.out = Tail(@)]
      /\ sent' = sent /\ line' = line /\ taken' = taken
  BY DEF Dispatch, Waiting
<1>3. slip.out \in Seq(Seq(Byte))
  BY <1>1 DEF Context
<1>4. Head(slip.out) \in Seq(Byte) /\ Tail(slip.out) \in Seq(Seq(Byte)) /\ slip.out = <<Head(slip.out)>> \o Tail(slip.out)
  BY <1>2, <1>3, HeadTailProperties
<1>5. /\ slip' \in Context /\ slip'.head = slip.head /\ slip'.is_slip = slip.is_slip
      /\ slip'.part = slip.part /\ slip'.state = slip.state /\ slip'.out = Tail(slip.out)
  BY <1>1, <1>2, <1>4 DEF Context
<1>6. SentOK' /\ GotOK' /\ taken' \in 0 .. Len(line')
  BY <1>1, <1>2, <1>4, AppendProperties DEF SentOK, GotOK
<1>7. got' \o slip'.out = got \o slip.out
  <2>1. got' = got \o <<Head(slip.out)>> /\ <<Head(slip.out)>> \in Seq(Seq(Byte))
    BY <1>1, <1>2, <1>4, AppendIsConcat DEF GotOK
  <2>2. (got \o <<Head(slip.out)>>) \o Tail(slip.out) = got \o (<<Head(slip.out)>> \o Tail(slip.out))
    <3>1. got \in Seq(Seq(Byte))
      BY <1>1 DEF GotOK
    <3>2. PICK h : h = <<Head(slip.out)>>
      OBVIOUS
    <3>3. PICK t : t = Tail(slip.out)
      OBVIOUS
    <3>4. h \in Seq(Seq(Byte)) /\ t \in Seq(Seq(Byte))
      BY <1>4, <2>1, <3>2, <3>3
    <3>5. Associates(got, h, t)
      BY <3>1, <3>4, AnyAssociates
    <3> QED
      BY <3>2, <3>3, <3>5 DEF Associates
  <2> QED
    BY <1>4, <1>5, <2>1, <2>2
<1>8. slip # init_context
  BY <1>2 DEF init_context
<1>9. (\E f : Right(f)) => (\E f : Right(f)')
  <2> SUFFICES ASSUME NEW f, Right(f) PROVE Right(f)'
    OBVIOUS
  <2>1. Ends(f)'
    BY <1>2 DEF Ends, Coded, Right
  <2> QED
    BY <1>2, <1>5, <1>7, <2>1 DEF Right, Whole, Broken
<1> QED
  BY <1>1, <1>2, <1>5, <1>6, <1>8, <1>9 DEF SlipInv

LEMMA SlipStutter == SlipInv /\ UNCHANGED <<sent, line, taken, slip, got>> => SlipInv'
<1> SUFFICES ASSUME SlipInv, UNCHANGED <<sent, line, taken, slip, got>> PROVE SlipInv'
  OBVIOUS
<1>1. sent' = sent /\ line' = line /\ taken' = taken /\ slip' = slip /\ got' = got
  OBVIOUS
<1>2. (SentOK <=> SentOK') /\ (GotOK <=> GotOK')
  BY <1>1 DEF SentOK, GotOK
<1>3. ASSUME NEW f PROVE Ends(f) <=> Ends(f)'
  BY <1>1 DEF Ends, Coded
<1>4. ASSUME NEW f PROVE Right(f) <=> Right(f)'
  BY <1>1, <1>3 DEF Right, Whole, Broken
<1> QED
  BY <1>1, <1>2, <1>3, <1>4 DEF SlipInv

\* The context of a socket says, after every recv, which bytes of which message
\* slip_decode has taken and what it has put out (server.c:837-1107).
THEOREM SlipInvariant == SlipSpec => []SlipInv
<1>1. SlipInv /\ (\E k \in 1 .. MaxRecv : RecvBeyond(k)) => SlipInv'
  BY SlipStutter DEF RecvBeyond
<1>2. SlipInv /\ UNCHANGED slipVars => SlipInv'
  BY SlipStutter DEF slipVars
<1>3. SlipInv /\ [SlipNext]_slipVars => SlipInv'
  BY <1>1, <1>2, SendOk, BeginOk, RecvOk, DispatchOk DEF SlipNext
<1> QED
  BY SlipInitOk, <1>3, PTL DEF SlipSpec


--------------------------------------------------------------------------------
(***************************************************************************)
(* What the property says of a stream that is right: the ENDs of the line  *)
(* are those of its messages.                                              *)
(***************************************************************************)
LEMMA EndsCount ==
    ASSUME SentOK, NEW f, Ends(f), NEW x \in 0 .. Len(line), NEW m \in 0 .. Len(sent),
           f[m] <= x, m < Len(sent) => x < f[m + 1]
    PROVE  Cardinality({i \in 1 .. x : line[i] = SLIP_END}) = m
<1> DEFINE E == {i \in 1 .. x : line[i] = SLIP_END}
           g == [j \in 1 .. m |-> f[j]]
<1>1. /\ \A j \in 0 .. Len(sent) : f[j] \in Nat /\ \A i \in 0 .. j : f[i] <= f[j]
      /\ f[0] = 0 /\ f[Len(sent)] = Len(line)
      /\ \A j \in 1 .. Len(sent) :
            /\ f[j - 1] < f[j] /\ f[j - 1] \in Nat
            /\ \A p \in f[j - 1] + 1 .. f[j] : line[p] = SLIP_END <=> p = f[j]
  BY LineIs
<1>2. Coded \in Seq(Seq(Byte)) /\ Len(Coded) = Len(sent) /\ Len(sent) \in Nat
  BY CodedIs
<1>3. Len(line) \in Nat /\ x \in Nat /\ m \in Nat /\ line \in Seq(Byte)
  BY <1>2 DEF SentOK
<1>4. ASSUME NEW j \in 1 .. m PROVE f[j] \in E /\ f[j] \in Nat /\ \A i \in 1 .. j - 1 : f[i] < f[j]
  <2>1. j \in 1 .. Len(sent) /\ j \in 0 .. Len(sent) /\ m \in 0 .. Len(sent) /\ j \in 0 .. m /\ j - 1 \in 0 .. Len(sent)
    BY <1>2
  <2>2. f[j] \in Nat /\ f[j - 1] \in Nat /\ f[j - 1] < f[j] /\ f[j] <= f[m]
    BY <1>1, <2>1
  <2>3. f[j] \in f[j - 1] + 1 .. f[j] /\ f[j] \in 1 .. x
    <3>1. f[m] \in Nat
      BY <1>1
    <3> QED
      BY <1>3, <2>2, <3>1
  <2>4. (line[f[j]] = SLIP_END) <=> (f[j] = f[j])
    BY <1>1, <2>1, <2>3
  <2>5. \A i \in 1 .. j - 1 : f[i] < f[j]
    <3> TAKE i \in 1 .. j - 1
    <3>1. i \in 0 .. j - 1 /\ i \in 0 .. Len(sent)
      BY <2>1
    <3>2. f[i] <= f[j - 1] /\ f[i] \in Nat
      BY <1>1, <2>1, <3>1
    <3> QED
      BY <2>2, <3>2
  <2> QED
    BY <2>2, <2>3, <2>4, <2>5
<1>5. ASSUME NEW p \in E PROVE \E j \in 1 .. m : f[j] = p
  <2>1. p \in 1 .. x /\ line[p] = SLIP_END
    OBVIOUS
  <2>2. p \in 1 .. Len(line)
    BY <1>3, <2>1
  <2>3. PICK j \in 1 .. Len(Coded) : f[j - 1] < p /\ p <= f[j]
    BY <1>2, <1>3, <2>2, PlacesCover DEF Ends
  <2>4. j \in 1 .. Len(sent) /\ f[j - 1] \in Nat /\ j \in 0 .. Len(sent)
    BY <1>1, <1>2, <2>3
  <2>5. f[j] \in Nat
    BY <1>1, <2>4
  <2>6. p \in f[j - 1] + 1 .. f[j]
    BY <2>1, <2>3, <2>4, <2>5
  <2>7. p = f[j]
    <3>1. (line[p] = SLIP_END) <=> (p = f[j])
      BY <1>1, <2>4, <2>6
    <3> QED
      BY <2>1, <3>1
  <2>8. j <= m
    <3> SUFFICES ASSUME m < j PROVE FALSE
      BY <1>3, <2>4
    <3>1. m < Len(sent) /\ m + 1 \in 0 .. j
      BY <1>2, <1>3, <2>4
    <3>2. f[m + 1] <= f[j] /\ x < f[m + 1]
      BY <1>1, <2>4, <3>1
    <3>3. f[m + 1] \in Nat
      <4>1. m + 1 \in 0 .. Len(sent)
        BY <1>2, <1>3, <3>1
      <4> QED
        BY <1>1, <4>1
    <3> QED
      BY <1>3, <2>1, <2>5, <2>7, <3>2, <3>3
  <2> QED
    BY <2>4, <2>7, <2>8
<1>6. g \in Bijection(1 .. m, E)
  <2>1. g \in [1 .. m -> E]
    BY <1>4
  <2>2. ASSUME NEW i \in 1 .. m, NEW j \in 1 .. m, g[i] = g[j] PROVE i = j
    <3>1. g[i] = f[i] /\ g[j] = f[j] /\ f[i] \in Nat /\ f[j] \in Nat
      BY <1>4
    <3>2. CASE i < j
      <4>1. i \in 1 .. j - 1
        BY <1>3, <3>2
      <4> QED
        BY <1>4, <2>2, <3>1, <4>1
    <3>3. CASE j < i
      <4>1. j \in 1 .. i - 1
        BY <1>3, <3>3
      <4> QED
        BY <1>4, <2>2, <3>1, <4>1
    <3> QED
      BY <1>3, <3>2, <3>3
  <2>3. \A p \in E : \E j \in 1 .. m : g[j] = p
    BY <1>5
  <2> HIDE DEF g, E
  <2> QED
    BY <2>1, <2>2, <2>3 DEF Bijection, Injection, Surjection, IsInjective
<1>7. IsFiniteSet(1 .. m) /\ Cardinality(1 .. m) = m
  BY <1>3, FS_Interval
<1>8. ExistsBijection(1 .. m, E)
  BY <1>6 DEF ExistsBijection
<1> QED
  BY <1>7, <1>8, FS_Bijection

\* With no byte escaped, the messages and their ENDs are as long as the line.
LEMMA PlainLength ==
    ASSUME SentOK, NEW f, Ends(f), NEW m \in 0 .. Len(sent),
           \A p \in 1 .. f[m] : line[p] # SLIP_ESC,
           NEW all \in Seq(Seq(Byte)), Len(all) = m, \A j \in 1 .. m : all[j] = sent[j]
    PROVE  Len(FlattenSeq(all)) + m = f[m]
<1>1. /\ \A j \in 0 .. Len(sent) : f[j] \in Nat /\ \A i \in 0 .. j : f[i] <= f[j]
      /\ f[0] = 0
      /\ \A j \in 1 .. Len(sent) :
            /\ f[j - 1] < f[j] /\ f[j - 1] \in Nat
            /\ (\A p \in f[j - 1] + 1 .. f[j] : line[p] # SLIP_ESC) => f[j] = f[j - 1] + Len(sent[j]) + 1
  BY LineIs
<1>2. Len(sent) \in Nat /\ m \in Nat
  BY CodedIs
<1>3. PICK o : Places(FlattenSeq(all), all, o)
  BY FlattenSeqPlaces
<1>4. FlattenSeq(all) \in Seq(Byte)
  BY FlattenSeqPlaces
<1>5. /\ o[0] = 0 /\ o[m] = Len(FlattenSeq(all)) /\ o \in [0 .. m -> Nat]
      /\ \A j \in 1 .. m : o[j] = o[j - 1] + Len(sent[j])
  BY <1>3 DEF Places
<1> DEFINE Bad == {j \in 0 .. m : f[j] # o[j] + j}
<1>6. Bad = {}
  <2> SUFFICES ASSUME Bad # {} PROVE FALSE
    OBVIOUS
  <2>1. Bad \in SUBSET (0 .. m) /\ 0 \notin Bad
    BY <1>1, <1>5
  <2>2. PICK j \in Bad : j \in 1 .. m /\ j - 1 \in 0 .. m /\ j - 1 \notin Bad
    BY <1>2, <2>1, LeastBadAfter0
  <2>3. f[j] # o[j] + j /\ f[j - 1] = o[j - 1] + (j - 1)
    BY <2>2
  <2>4. j \in 1 .. Len(sent) /\ j \in 0 .. m /\ j \in 0 .. Len(sent) /\ j \in Nat
    BY <1>2, <2>2
  <2>5. f[j - 1] \in Nat /\ f[j] <= f[m] /\ f[j] \in Nat /\ f[m] \in Nat
    BY <1>1, <2>4
  <2>6. \A p \in f[j - 1] + 1 .. f[j] : p \in 1 .. f[m]
    BY <2>5
  <2>7. f[j] = f[j - 1] + Len(sent[j]) + 1
    BY <1>1, <2>4, <2>6
  <2>8. o[j] = o[j - 1] + Len(sent[j]) /\ o[j - 1] \in Nat /\ o[j] \in Nat
    BY <1>5, <2>2, <2>4
  <2>9. Len(sent[j]) \in Nat
    BY <2>4, CodedIs
  <2>10. PICK a, b, l, k \in Nat : a = f[j - 1] /\ b = o[j - 1] /\ l = Len(sent[j]) /\ k = j
    BY <2>4, <2>5, <2>8, <2>9, Zenon
  <2>11. f[j - 1] + Len(sent[j]) + 1 = o[j - 1] + Len(sent[j]) + j
    <3>1. a = b + (k - 1)
      BY <2>3, <2>10, Zenon
    <3>2. a + l + 1 = b + l + k
      BY <3>1
    <3> QED
      BY <3>2, <2>10, Zenon
  <2> QED
    BY <2>3, <2>7, <2>8, <2>11, Zenon
<1>7. f[m] = o[m] + m
  <2>1. m \in 0 .. m
    BY <1>2
  <2> QED
    BY <1>6, <2>1
<1> QED
  BY <1>5, <1>7

LEMMA SamePrefix ==
    ASSUME NEW s, NEW u, NEW n \in Nat, \A i \in 1 .. n : s[i] = u[i], NEW a \in Nat \ {0},
           \A i \in 1 .. n : u[i] \in Byte
    PROVE  SubSeq(s, a, n) = SubSeq(u, a, n)
<1> DEFINE v == SubSeq(s, a, n)
           w == SubSeq(u, a, n)
<1>1. \A i \in a .. n : i \in 1 .. n
  OBVIOUS
<1>2. /\ v \in Seq(Byte) /\ Len(v) = (IF a <= n THEN n - a + 1 ELSE 0)
      /\ \A i \in 1 .. n - a + 1 : v[i] = s[a + i - 1]
  BY <1>1, SubSeqProperties
<1>3. /\ w \in Seq(Byte) /\ Len(w) = (IF a <= n THEN n - a + 1 ELSE 0)
      /\ \A i \in 1 .. n - a + 1 : w[i] = u[a + i - 1]
  BY <1>1, SubSeqProperties
<1> HIDE DEF v, w
<1>4. \A i \in 1 .. Len(v) : i \in 1 .. n - a + 1 /\ a + i - 1 \in 1 .. n
  BY <1>2
<1>5. \A i \in 1 .. Len(v) : v[i] = w[i]
  BY <1>2, <1>3, <1>4
<1> QED
  BY <1>2, <1>3, <1>5, SeqEqual DEF v, w


LEMMA FramesWhenRight ==
    ASSUME SentOK, GotOK, taken \in 0 .. Len(line), taken > 0, slip \in Context, slip.is_slip = 1,
           NEW f, Right(f)
    PROVE  Framed
<1> DEFINE all == got \o slip.out
           esc == SelectInSeq(Received, LAMBDA b : b = SLIP_ESC)
           Escs == {i \in 1 .. Len(Received) : Received[i] = SLIP_ESC}
<1>1. PICK m \in 0 .. Len(sent) : Whole(f, all, slip, taken, m) \/ Broken(f, all, taken, m)
  BY DEF Right
<1>2. /\ Len(sent) \in Nat /\ m \in Nat /\ m <= Len(sent) /\ Len(line) \in Nat /\ taken \in Nat /\ Ends(f)
      /\ \A i \in 1 .. Len(line) : line[i] \in Byte
  BY CodedIs DEF SentOK, Right
<1>3. /\ Received \in Seq(Byte) /\ Len(Received) = taken /\ \A i \in 1 .. taken : Received[i] = line[i]
  <2>1. 1 <= taken /\ taken - 1 + 1 = taken /\ \A i \in 1 .. taken : 1 + i - 1 = i /\ line[i] \in Byte
    BY <1>2
  <2> QED
    BY <1>2, <2>1, SubSeqProperties DEF Received
<1>4. all \in Seq(Seq(Byte)) /\ Len(all) \in Nat
  <2>1. slip.out \in Seq(Seq(Byte))
    BY DEF Context
  <2>2. all \in Seq(Seq(Byte))
    BY <2>1, ConcatProperties DEF GotOK
  <2> HIDE DEF all
  <2> QED
    BY <2>2
<1>5. esc = IF Escs # {} THEN Min(Escs) ELSE 0
  BY DEF SelectInSeq
<1> HIDE DEF esc
<1>6. Plain = Cardinality({i \in DOMAIN (IF esc = 0 THEN Received ELSE SubSeq(Received, 1, esc - 1)) :
                  (IF esc = 0 THEN Received ELSE SubSeq(Received, 1, esc - 1))[i] = SLIP_END})
  BY DEF Plain, esc
<1> HIDE DEF all
\* The first m messages are those that were sent.
<1>7. ASSUME m <= Len(all), \A j \in 1 .. m : all[j] = sent[j]
      PROVE  SubSeq(all, 1, m) = SubSeq(sent, 1, m)
  <2> DEFINE u == SubSeq(all, 1, m)
             v == SubSeq(sent, 1, m)
  <2>1. m - 1 + 1 = m /\ 1 \in Int /\ m \in Int /\ \A i \in 1 .. m : 1 + i - 1 = i /\ i \in 1 .. Len(all)
    BY <1>2, <1>4, <1>7
  <2>2. \A i \in 1 .. m : all[i] \in Seq(Byte) /\ sent[i] \in Seq(Byte)
    BY <1>4, <1>7, <2>1
  <2>3. /\ u \in Seq(Seq(Byte)) /\ Len(u) = (IF 1 <= m THEN m ELSE 0) /\ \A i \in 1 .. m : u[i] = all[i]
    BY <2>1, <2>2, SubSeqProperties
  <2>4. /\ v \in Seq(Seq(Byte)) /\ Len(v) = (IF 1 <= m THEN m ELSE 0) /\ \A i \in 1 .. m : v[i] = sent[i]
    BY <2>1, <2>2, SubSeqProperties
  <2> HIDE DEF u, v
  <2>5. Len(u) = Len(v) /\ \A i \in 1 .. Len(u) : u[i] = v[i]
    BY <1>2, <1>7, <2>3, <2>4
  <2> QED
    BY <2>3, <2>4, <2>5, SeqEqual DEF u, v
<1>8. CASE Whole(f, all, slip, taken, m)
  <2>1. /\ f[m] <= taken /\ (m < Len(sent) => taken < f[m + 1])
        /\ \A p \in 1 .. taken : line[p] # SLIP_ESC
        /\ Len(all) = m /\ \A j \in 1 .. m : all[j] = sent[j]
        /\ slip.part = SubSeq(line, f[m] + 1, taken)
    BY <1>8 DEF Whole
  <2>2. esc = 0
    BY <1>3, <1>5, <2>1
  <2>3. Plain = Cardinality({i \in 1 .. taken : line[i] = SLIP_END})
    <3>1. DOMAIN Received = 1 .. taken
      BY <1>3
    <3>2. {i \in DOMAIN Received : Received[i] = SLIP_END} = {i \in 1 .. taken : line[i] = SLIP_END}
      BY <1>3, <3>1
    <3> QED
      BY <1>6, <2>2, <3>2
  <2>4. Plain = m
    BY <1>2, <2>1, <2>3, EndsCount
  <2>5. SubSeq(all, 1, m) = SubSeq(sent, 1, m)
    BY <1>4, <1>7, <2>1
  <2>6. Len(FlattenSeq(all)) + m = f[m] /\ f[m] \in Nat
    <3>1. f[m] \in Nat
      BY <1>2, LineIs
    <3>2. \A p \in 1 .. f[m] : line[p] # SLIP_ESC
      BY <1>2, <2>1, <3>1
    <3> QED
      BY <1>2, <1>4, <2>1, <3>1, <3>2, PlainLength
  <2>7. SubSeq(Received, f[m] + 1, taken) = SubSeq(line, f[m] + 1, taken)
    <3>1. f[m] + 1 \in Nat \ {0} /\ \A i \in 1 .. taken : line[i] \in Byte
      BY <1>2, <2>6
    <3> QED
      BY <1>2, <1>3, <3>1, SamePrefix
  <2>8. slip.part = SubSeq(Received, Len(FlattenSeq(all)) + Plain + 1, taken)
    BY <2>1, <2>4, <2>6, <2>7
  <2> QED
    BY <2>1, <2>4, <2>5, <2>8 DEF Framed, KnownAtOnce, all
<1>9. CASE Broken(f, all, taken, m)
  <2>1. PICK x \in 1 .. taken :
            /\ line[x] = SLIP_ESC /\ \A p \in 1 .. x - 1 : line[p] # SLIP_ESC
            /\ m \in 0 .. Len(sent) - 1 /\ f[m] < x /\ x < f[m + 1]
            /\ m <= Len(all) /\ \A j \in 1 .. m : all[j] = sent[j]
    BY <1>9 DEF Broken
  <2>2. x \in Nat \ {0} /\ x - 1 \in 0 .. Len(line) /\ \A p \in 1 .. x - 1 : p \in 1 .. taken
    BY <1>2
  <2>3. x \in Escs /\ Escs \in SUBSET Nat /\ \A y \in Escs : x <= y
    <3>1. x \in Escs /\ Escs \in SUBSET Nat
      BY <1>2, <1>3, <2>1, <2>2
    <3>2. ASSUME NEW y \in Escs, ~(x <= y) PROVE FALSE
      <4>1. y \in 1 .. taken /\ line[y] = SLIP_ESC
        BY <1>3
      <4>2. y \in 1 .. x - 1
        BY <2>2, <3>2, <4>1
      <4> QED
        BY <2>1, <4>1, <4>2
    <3> QED
      BY <3>1, <3>2
  <2> HIDE DEF Escs
  <2>4. esc = x
    <3>1. esc = Min(Escs)
      BY <1>5, <2>3
    <3>2. Min(Escs) \in Escs /\ Min(Escs) <= x
      BY <2>3 DEF Min
    <3>3. x <= Min(Escs) /\ Min(Escs) \in Nat
      BY <2>3, <3>2
    <3> QED
      BY <2>2, <3>1, <3>2, <3>3
  <2> DEFINE before == SubSeq(Received, 1, x - 1)
  <2>5. Len(before) = x - 1 /\ DOMAIN before = 1 .. x - 1 /\ \A i \in 1 .. x - 1 : before[i] = line[i]
    <3>1. /\ 1 \in Int /\ x - 1 \in Int /\ (x - 1) - 1 + 1 = x - 1
          /\ \A i \in 1 .. x - 1 : 1 + i - 1 = i /\ Received[i] \in Byte
      BY <1>3, <2>2
    <3>2. /\ before \in Seq(Byte) /\ Len(before) = (IF 1 <= x - 1 THEN x - 1 ELSE 0)
          /\ \A i \in 1 .. x - 1 : before[i] = Received[1 + i - 1]
      BY <3>1, SubSeqProperties
    <3> HIDE DEF before
    <3>3. Len(before) = x - 1
      BY <2>2, <3>2
    <3> QED
      BY <1>3, <2>2, <3>1, <3>2, <3>3
  <2>6. Plain = Cardinality({i \in 1 .. x - 1 : line[i] = SLIP_END})
    <3>1. Plain = Cardinality({i \in DOMAIN before : before[i] = SLIP_END})
      BY <1>6, <2>2, <2>4
    <3> HIDE DEF before
    <3>2. {i \in DOMAIN before : before[i] = SLIP_END} = {i \in 1 .. x - 1 : line[i] = SLIP_END}
      BY <2>5
    <3> QED
      BY <3>1, <3>2
  <2>7. Plain = m
    <3>1. f[m] \in Nat /\ m + 1 \in 0 .. Len(sent)
      BY <1>2, <2>1, LineIs
    <3>2. f[m + 1] \in Nat
      BY <1>2, <3>1, LineIs
    <3>3. f[m] <= x - 1 /\ x - 1 < f[m + 1]
      BY <2>1, <2>2, <3>1, <3>2
    <3> QED
      BY <1>2, <2>2, <2>6, <3>3, EndsCount
  <2>8. SubSeq(all, 1, m) = SubSeq(sent, 1, m)
    BY <1>7, <2>1
  <2>9. SLIP_ESC \in ToSet(Received)
    <3>1. DOMAIN Received = 1 .. taken /\ Received[x] = SLIP_ESC
      BY <1>3, <2>1
    <3> QED
      BY <3>1 DEF ToSet
  <2> QED
    BY <2>7, <2>8, <2>9 DEF Framed, KnownAtOnce, all
<1> QED
  BY <1>1, <1>8, <1>9

LEMMA FramesWhenInv == SlipInv => Framed
<1> SUFFICES ASSUME SlipInv PROVE Framed
  OBVIOUS
<1>1. /\ SentOK /\ GotOK /\ taken \in 0 .. Len(line) /\ slip \in Context
      /\ \/ slip.head # <<>>
         \/ line # <<>> /\ line[1] = SLIP_END
         \/ taken = 0 /\ slip = init_context /\ got = <<>> /\ \E f : Ends(f)
         \/ taken > 0 /\ slip.is_slip = 1 /\ \E f : Right(f)
  BY DEF SlipInv
<1>2. taken \in Nat /\ Len(line) \in Nat
  BY <1>1 DEF SentOK
<1>3. taken = 0 => Received = <<>>
  BY SubSeqEmpty DEF Received
<1>4. taken # 0 => Received[1] = line[1]
  <2> SUFFICES ASSUME taken # 0 PROVE Received[1] = line[1]
    OBVIOUS
  <2>1. \A i \in 1 .. taken : i \in 1 .. Len(line) /\ line[i] \in Byte
    BY <1>1, <1>2 DEF SentOK
  <2>2. 1 \in 1 .. taken - 1 + 1 /\ 1 + 1 - 1 = 1
    BY <1>2
  <2>3. Received[1] = line[1 + 1 - 1]
    BY <1>2, <2>1, <2>2, SubSeqProperties DEF Received
  <2> QED
    BY <2>2, <2>3
<1>5. CASE slip.head # <<>>
  BY <1>5 DEF Framed, KnownAtOnce
<1>6. CASE line # <<>> /\ line[1] = SLIP_END
  BY <1>3, <1>4, <1>6 DEF Framed, KnownAtOnce
<1>7. CASE taken = 0
  BY <1>3, <1>7 DEF Framed, KnownAtOnce
<1>8. CASE taken > 0 /\ slip.is_slip = 1 /\ \E f : Right(f)
  BY <1>1, <1>8, FramesWhenRight
<1> QED
  BY <1>1, <1>5, <1>6, <1>7, <1>8

--------------------------------------------------------------------------------
(***************************************************************************)
(* The room in the buffers.                                                *)
(***************************************************************************)
GrownTo(g, z, used) ==
    IF HalfFree(z, used) THEN z
    ELSE IF z = LargestSize THEN 0
    ELSE g[IF 2 * z > LargestSize THEN LargestSize ELSE 2 * z]

LEMMA GrownToExists ==
    ASSUME NEW used
    PROVE  \E g : g = [z \in 1 .. LargestSize |-> GrownTo(g, z, used)]
<1> DEFINE M == LargestSize
           Next2(z) == IF 2 * z > M THEN M ELSE 2 * z
           From(g, m) == /\ g \in [1 .. M -> Nat]
                         /\ \A z \in 1 .. M : z > M - m => g[z] = GrownTo(g, z, used)
           Bad == {m \in 1 .. M : ~ \E g : From(g, m)}
<1>1. M \in Nat \ {0}
  BY BoundsAssumption
<1>6. ASSUME NEW z \in 1 .. M, z # M PROVE Next2(z) \in z + 1 .. M /\ Next2(z) \in 1 .. M
  BY <1>1, <1>6
<1>2. Bad = {}
  <2> SUFFICES ASSUME Bad # {} PROVE FALSE
    OBVIOUS
  <2>1. Bad \in SUBSET (1 .. M)
    OBVIOUS
  <2>2. PICK m \in Bad : m - 1 \notin Bad /\ (m # 1 => m - 1 \in 1 .. M)
    BY <1>1, <2>1, LeastBad
  <2>3. m \in 1 .. M /\ ~ \E g : From(g, m)
    OBVIOUS
  <2>4. m # 1 => \E g : From(g, m - 1)
    BY <2>2
  <2> HIDE DEF Bad, M
  <2>5. PICK g \in [1 .. M -> Nat] : \A z \in 1 .. M : z > M - (m - 1) => g[z] = GrownTo(g, z, used)
    <3>1. CASE m = 1
      <4>1. [z \in 1 .. M |-> 0] \in [1 .. M -> Nat]
        BY <1>1
      <4>2. \A z \in 1 .. M : ~(z > M - (m - 1))
        BY <1>1, <3>1
      <4> QED
        BY <4>1, <4>2
    <3> QED
      BY <2>4, <3>1
  <2> DEFINE x == M - m + 1
             h == [g EXCEPT ![x] = GrownTo(g, x, used)]
  <2>6. x \in 1 .. M
    BY <1>1, <2>3
  <2>7. GrownTo(g, x, used) \in Nat
    BY <1>1, <1>6, <2>6 DEF GrownTo, M
  <2>8. h \in [1 .. M -> Nat] /\ h[x] = GrownTo(g, x, used) /\ \A z \in 1 .. M : z # x => h[z] = g[z]
    BY <2>6, <2>7
  <2> HIDE DEF h
  <2>9. ASSUME NEW z \in 1 .. M, z > M - m PROVE h[z] = GrownTo(h, z, used)
    <3>1. z = M \/ (Next2(z) \in 1 .. M /\ Next2(z) # x)
      <4> SUFFICES ASSUME z # M PROVE Next2(z) \in 1 .. M /\ Next2(z) # x
        OBVIOUS
      <4>1. Next2(z) \in z + 1 .. M /\ Next2(z) \in 1 .. M
        BY <1>6
      <4> HIDE DEF Next2
      <4> QED
        BY <1>1, <2>3, <2>9, <4>1
    <3>2. GrownTo(h, z, used) = GrownTo(g, z, used)
      BY <2>8, <3>1 DEF GrownTo, M
    <3>3. CASE z = x
      BY <2>8, <3>2, <3>3
    <3>4. CASE z # x
      <4>1. z > M - (m - 1)
        BY <1>1, <2>3, <2>9, <3>4
      <4> QED
        BY <2>5, <2>8, <3>2, <3>4, <4>1
    <3> QED
      BY <3>3, <3>4
  <2> QED
    BY <2>3, <2>8, <2>9
<1>3. PICK g : From(g, M)
  <2>1. M \in 1 .. M
    BY <1>1
  <2> QED
    BY <1>2, <2>1
<1>4. \A z \in 1 .. M : g[z] = GrownTo(g, z, used)
  BY <1>1, <1>3
<1>5. g = [z \in 1 .. M |-> GrownTo(g, z, used)]
  BY <1>3, <1>4
<1> QED
  BY <1>5

LEMMA GrownToType ==
    ASSUME NEW used, NEW g, g = [z \in 1 .. LargestSize |-> GrownTo(g, z, used)]
    PROVE  \A z \in 1 .. LargestSize : g[z] \in Nat
<1> DEFINE M == LargestSize
           Bad == {m \in 1 .. M : g[M - m + 1] \notin Nat}
<1>1. M \in Nat \ {0}
  BY BoundsAssumption
<1>2. Bad = {}
  <2> SUFFICES ASSUME Bad # {} PROVE FALSE
    OBVIOUS
  <2>1. Bad \in SUBSET Nat
    OBVIOUS
  <2>2. PICK m \in Bad : \A k \in Bad : m <= k
    BY <2>1, LeastNat
  <2>3. PICK z \in 1 .. M : z = M - m + 1
    BY <1>1
  <2>4. \A y \in z + 1 .. M : g[y] \in Nat
    <3> SUFFICES ASSUME NEW y \in z + 1 .. M, g[y] \notin Nat PROVE FALSE
      OBVIOUS
    <3>1. PICK k \in 1 .. M : k = M - y + 1 /\ k < m /\ M - k + 1 = y
      BY <1>1, <2>1, <2>3
    <3>2. k \in Bad
      BY <3>1
    <3>3. m \in Nat
      BY <2>1
    <3> QED
      BY <2>2, <3>1, <3>2, <3>3
  <2>5. g[z] \notin Nat
    BY <2>3
  <2> DEFINE y == IF 2 * z > M THEN M ELSE 2 * z
  <2>6. g[z] = IF HalfFree(z, used) THEN z ELSE IF z = M THEN 0 ELSE g[y]
    <3>1. g[z] = GrownTo(g, z, used)
      BY <2>3
    <3> QED
      BY <3>1 DEF GrownTo
  <2>7. z # M => y \in z + 1 .. M
    BY <1>1, <2>3
  <2> HIDE DEF y, Bad
  <2> QED
    BY <1>1, <2>4, <2>5, <2>6, <2>7
<1> SUFFICES ASSUME NEW z \in 1 .. M PROVE g[z] \in Nat
  OBVIOUS
<1>3. M - z + 1 \in 1 .. M /\ M - (M - z + 1) + 1 = z
  BY <1>1
<1> QED
  BY <1>2, <1>3

LEMMA BufferForIs ==
    ASSUME NEW size \in Nat, NEW used
    PROVE  BufferFor(size, used) \in Nat
<1> DEFINE Is(f) == f = [z \in 1 .. LargestSize |-> GrownTo(f, z, used)]
           g == CHOOSE f : Is(f)
           first == IF size = 0 THEN 2 * FirstSize ELSE size
<1>1. Is(g)
  BY GrownToExists
<1>4. \A z \in 1 .. LargestSize : g[z] \in Nat
  BY <1>1, GrownToType
<1>2. first \in Nat \ {0} /\ LargestSize \in Nat
  BY BoundsAssumption
<1>3. BufferFor(size, used) = IF HalfFree(first, used) THEN first
                              ELSE IF first >= LargestSize THEN 0 ELSE g[first]
  BY DEF BufferFor, GrownTo
<1> HIDE DEF g, first
<1> QED
  BY <1>2, <1>3, <1>4

\* The buffer after the turns of a recv: each is counted, an END for four bytes. Of
\* the bytes that were free, an overrun or a realloc leaves less than four.
Fills(r, d, size, offset, n) ==
    r = [i \in 0 .. n |->
            IF i = 0 THEN [size |-> size, offset |-> offset, fault |-> "no"]
            ELSE Fill(r[i - 1], d[i - 1].context, d[i].context, n - i)]

LEMMA FillsExists ==
    ASSUME NEW d, NEW size, NEW offset, NEW l \in Nat
    PROVE  \E r : Fills(r, d, size, offset, l)
<1> DEFINE F(r, i) == IF i = 0 THEN [size |-> size, offset |-> offset, fault |-> "no"]
                      ELSE Fill(r[i - 1], d[i - 1].context, d[i].context, l - i)
           UpTo(r, m) == r = [i \in 0 .. m |-> F(r, i)]
           Bad == {m \in 0 .. l : ~ \E r : UpTo(r, m)}
<1>0. \A r, s, i : (i # 0 => r[i - 1] = s[i - 1]) => F(r, i) = F(s, i)
  OBVIOUS
<1>12. \A r : UpTo(r, l) => Fills(r, d, size, offset, l)
  BY DEF Fills
<1>1. UpTo([i \in 0 .. 0 |-> [size |-> size, offset |-> offset, fault |-> "no"]], 0)
  OBVIOUS
<1> HIDE DEF F
<1> SUFFICES \E r : UpTo(r, l)
  BY <1>12
<1> SUFFICES ASSUME Bad # {} PROVE FALSE
  OBVIOUS
<1>2. Bad \in SUBSET (0 .. l) /\ 0 \notin Bad
  BY <1>1
<1>3. PICK m \in Bad : m \in 1 .. l /\ m - 1 \in 0 .. l /\ m - 1 \notin Bad
  BY <1>2, LeastBadAfter0
<1>4. PICK r : UpTo(r, m - 1)
  BY <1>3
<1> DEFINE e == [i \in 0 .. m |-> IF i = m THEN F(r, m) ELSE r[i]]
<1>5. /\ m \in Nat \ {0} /\ m \in 0 .. m /\ m - 1 \in 0 .. m /\ m - 1 # m
      /\ \A i \in 0 .. m : /\ i # m => i \in 0 .. m - 1
                           /\ i # 0 => i - 1 \in 0 .. m /\ i - 1 # m
  BY <1>3
<1>6. e[m] = F(r, m) /\ \A i \in 0 .. m : i # m => e[i] = r[i]
  BY <1>5
<1>7. \A i \in 0 .. m - 1 : r[i] = F(r, i)
  <2>1. r = [i \in 0 .. m - 1 |-> F(r, i)]
    BY <1>4
  <2> HIDE DEF UpTo
  <2> TAKE i \in 0 .. m - 1
  <2> QED
    BY <2>1
<1>9. e = [i \in 0 .. m |-> e[i]]
  OBVIOUS
<1> HIDE DEF e
<1>8. ASSUME NEW i \in 0 .. m
      PROVE  e[i] = F(e, i)
  <2>1. i # 0 => e[i - 1] = r[i - 1]
    BY <1>5, <1>6
  <2>2. F(e, i) = F(r, i)
    BY <1>0, <2>1
  <2>3. e[i] = F(r, i)
    BY <1>5, <1>6, <1>7
  <2> QED
    BY <2>2, <2>3
<1>10. e = [i \in 0 .. m |-> F(e, i)]
  BY <1>8, <1>9
<1> QED
  BY <1>3, <1>10

\* One turn: r before it and s after it, with x bytes taken by then and y left; the
\* buffer had free bytes free, and z messages ended.
Fit(r, free, size, x, z) ==
    /\ r.size \in Nat /\ r.offset \in Int /\ z \in Nat
    /\ size - r.offset >= free - x - 3 * z
    /\ r.fault = "no" => r.size = size

Tight(r, free, n, z) == r.fault # "no" => free - n - 3 * z < 4

LEMMA FillFits ==
    ASSUME NEW r, NEW c \in Context, NEW d \in Context, NEW free \in Int, NEW size \in Int,
           NEW x \in Nat, NEW y \in Nat, NEW z,
           Fit(r, free, size, x, z), Tight(r, free, x + 1 + y, z),
           \/ Len(d.out) = Len(c.out) + 1
           \/ d.out = c.out /\ Len(d.part) \in Nat /\ Len(d.part) <= Len(c.part) + 1
    PROVE  LET s == Fill(r, c, d, y)
               w == z + (Len(d.out) - Len(c.out))
           IN  Fit(s, free, size, x + 1, w) /\ Tight(s, free, x + 1 + y, w)
<1> DEFINE s == Fill(r, c, d, y)
           w == z + (Len(d.out) - Len(c.out))
           ended == d.out # c.out
           o == r.offset + IF ended THEN SizeOfLength ELSE Len(d.part) - Len(c.part)
           tight == ended /\ o <= r.size /\ y + SizeOfLength > r.size - o
<1>1. /\ Len(c.out) \in Nat /\ Len(d.out) \in Nat /\ Len(c.part) \in Nat /\ Len(d.part) \in Nat
  BY ContextLengths
<1>2. /\ r.size \in Nat /\ r.offset \in Int /\ z \in Nat
      /\ size - r.offset >= free - x - 3 * z
      /\ r.fault = "no" => r.size = size
  BY DEF Fit
<1>3. \/ ended /\ Len(d.out) = Len(c.out) + 1 /\ w = z + 1
      \/ ~ended /\ Len(d.part) <= Len(c.part) + 1 /\ w = z
  <2>1. CASE Len(d.out) = Len(c.out) + 1
    BY <1>1, <1>2, <2>1
  <2>2. CASE d.out = c.out /\ Len(d.part) <= Len(c.part) + 1
    BY <1>1, <1>2, <2>2
  <2> QED
    BY <2>1, <2>2
<1>4. s = [size |-> IF tight THEN 2 * r.size ELSE r.size, offset |-> o,
           fault |-> IF r.fault # "no" THEN r.fault
                     ELSE IF o > r.size THEN "heap" ELSE IF tight THEN "moved" ELSE "no"]
  BY DEF Fill
<1>5. s.size = (IF tight THEN 2 * r.size ELSE r.size) /\ s.offset = o
      /\ s.fault = (IF r.fault # "no" THEN r.fault
                    ELSE IF o > r.size THEN "heap" ELSE IF tight THEN "moved" ELSE "no")
  BY <1>4
<1>6. w \in Nat /\ o \in Int /\ size - o >= free - (x + 1) - 3 * w
  <2>1. CASE ended
    <3>1. o = r.offset + 4 /\ w = z + 1
      BY <1>3, <2>1 DEF SizeOfLength
    <3> HIDE DEF o, w
    <3>2. PICK q \in Int : q = r.offset
      BY <1>2
    <3>3. z \in Nat /\ size - q >= free - x - 3 * z
      BY <1>2, <3>2
    <3>4. w \in Nat /\ o = q + 4 /\ w = z + 1
      BY <3>1, <3>2, <3>3
    <3> QED
      BY <3>3, <3>4
  <2>2. CASE ~ended
    <3>1. o = r.offset + (Len(d.part) - Len(c.part)) /\ w = z /\ Len(d.part) <= Len(c.part) + 1
      BY <1>3, <2>2
    <3> HIDE DEF o, w
    <3>2. PICK q \in Int : q = r.offset
      BY <1>2
    <3>3. z \in Nat /\ size - q >= free - x - 3 * z
      BY <1>2, <3>2
    <3>4. PICK a, b \in Nat : a = Len(d.part) /\ b = Len(c.part)
      BY <1>1
    <3>5. w = z /\ o = q + (a - b) /\ a <= b + 1
      BY <3>1, <3>2, <3>4
    <3> QED
      BY <3>3, <3>5
  <2> QED
    BY <2>1, <2>2
<1> HIDE DEF s, w, o, ended
<1>7. Fit(s, free, size, x + 1, w)
  <2>1. s.size \in Nat
    BY <1>2, <1>5
  <2>2. s.fault = "no" => s.size = size
    <3> SUFFICES ASSUME s.fault = "no" PROVE s.size = size
      OBVIOUS
    <3>1. r.fault = "no" /\ ~tight
      BY <1>5
    <3> QED
      BY <1>2, <1>5, <3>1
  <2> QED
    BY <1>5, <1>6, <2>1, <2>2 DEF Fit
<1>8. Tight(s, free, x + 1 + y, w)
  <2> SUFFICES ASSUME s.fault # "no" PROVE free - (x + 1 + y) - 3 * w < 4
    BY DEF Tight
  <2>1. z <= w
    BY <1>2, <1>3
  <2>2. CASE r.fault # "no"
    BY <1>2, <1>6, <2>1, <2>2 DEF Tight
  <2>3. CASE r.fault = "no" /\ o > r.size
    BY <1>2, <1>6, <2>3
  <2>4. CASE r.fault = "no" /\ ~(o > r.size) /\ tight
    <3>1. y + 4 > size - o
      BY <1>2, <2>4 DEF SizeOfLength
    <3> QED
      BY <1>6, <3>1
  <2> QED
    BY <1>5, <2>2, <2>3, <2>4
<1> QED
  BY <1>7, <1>8 DEF s, w

LEMMA FilledIs ==
    ASSUME NEW c \in Context, NEW bytes \in Seq(Byte), NEW size \in Nat, NEW offset \in Int
    PROVE  LET r == Filled(Turns(c, bytes), size, offset, Len(bytes))
               z == Len(slip_decode(c, bytes).out) - Len(c.out)
           IN  /\ r.size \in Nat /\ r.offset \in Int /\ z \in Nat
               /\ r.fault # "no" => (size - offset) - Len(bytes) - 3 * z < 4
<1> DEFINE n == Len(bytes)
           free == size - offset
<1>1. PICK d : /\ slip_decode(c, bytes) = d[n].context /\ n \in Nat
               /\ d = Turns(c, bytes)
               /\ d[0] = [context |-> c, from |-> 1]
               /\ \A i \in 1 .. n : d[i] = DecodeByte(d[i - 1], bytes, i)
               /\ \A i \in 0 .. n : Decoding(d[i], i)
  BY SlipDecodeIs
<1> DEFINE r == CHOOSE r : Fills(r, d, size, offset, n)
<1>2. Fills(r, d, size, offset, n)
  BY <1>1, FillsExists
<1>3. Filled(Turns(c, bytes), size, offset, n) = r[n]
  BY <1>1 DEF Filled, Fills
<1> HIDE DEF r
<1>4. /\ r[0] = [size |-> size, offset |-> offset, fault |-> "no"]
      /\ \A i \in 1 .. n : r[i] = Fill(r[i - 1], d[i - 1].context, d[i].context, n - i)
  <2>1. 0 \in 0 .. n /\ \A i \in 1 .. n : i \in 0 .. n /\ i # 0
    BY <1>1
  <2>2. \A i \in 0 .. n :
           r[i] = IF i = 0 THEN [size |-> size, offset |-> offset, fault |-> "no"]
                  ELSE Fill(r[i - 1], d[i - 1].context, d[i].context, n - i)
    <3>1. r = [i \in 0 .. n |->
                  IF i = 0 THEN [size |-> size, offset |-> offset, fault |-> "no"]
                  ELSE Fill(r[i - 1], d[i - 1].context, d[i].context, n - i)]
      BY <1>2 DEF Fills
    <3> TAKE i \in 0 .. n
    <3> QED
      BY <3>1
  <2> QED
    BY <2>1, <2>2
<1> DEFINE Ended(i) == Len(d[i].context.out) - Len(c.out)
           Good(i) == Fit(r[i], free, size, i, Ended(i)) /\ Tight(r[i], free, n, Ended(i))
           Bad == {i \in 0 .. n : ~Good(i)}
<1>5. free \in Int /\ Len(c.out) \in Nat
  BY DEF Context
<1>6. Bad = {}
  <2> SUFFICES ASSUME Bad # {} PROVE FALSE
    OBVIOUS
  <2>1. Good(0)
    <3>1. d[0].context = c /\ Ended(0) = 0
      BY <1>1, <1>5
    <3>2. r[0].size = size /\ r[0].offset = offset /\ r[0].fault = "no"
      BY <1>4
    <3> HIDE DEF Ended
    <3> QED
      BY <3>1, <3>2 DEF Fit, Tight
  <2>2. Bad \in SUBSET (0 .. n) /\ 0 \notin Bad
    BY <2>1
  <2> HIDE DEF Good
  <2>3. PICK i \in Bad : i \in 1 .. n /\ i - 1 \in 0 .. n /\ i - 1 \notin Bad
    BY <1>1, <2>2, LeastBadAfter0
  <2>4. Good(i - 1) /\ ~Good(i)
    BY <2>3
  <2>5. PICK x, e : x = d[i - 1] /\ e = d[i]
    OBVIOUS
  <2>6. /\ e = DecodeByte(x, bytes, i) /\ Decoding(x, i - 1) /\ Decoding(e, i)
        /\ r[i] = Fill(r[i - 1], x.context, e.context, n - i)
    BY <1>1, <1>4, <2>3, <2>5
  <2>7. \/ Len(e.context.out) = Len(x.context.out) + 1
        \/ /\ e.context.out = x.context.out
           /\ Len(e.context.part) \in Nat /\ Len(e.context.part) <= Len(x.context.part) + 1
    BY <2>3, <2>6, DecodeByteWrites
  <2>8. x.context \in Context /\ e.context \in Context
    BY <2>6 DEF Decoding
  <2>9. i - 1 \in Nat /\ n - i \in Nat /\ (i - 1) + 1 + (n - i) = n /\ (i - 1) + 1 = i
    BY <1>1, <2>3
  <2>10. Fit(r[i - 1], free, size, i - 1, Ended(i - 1)) /\ Tight(r[i - 1], free, n, Ended(i - 1))
    BY <2>4 DEF Good
  <2>11. Ended(i) = Ended(i - 1) + (Len(e.context.out) - Len(x.context.out))
    <3>1. Len(e.context.out) \in Nat /\ Len(x.context.out) \in Nat
      BY <2>8, ContextLengths
    <3>2. PICK a, b, g \in Nat : a = Len(e.context.out) /\ b = Len(x.context.out) /\ g = Len(c.out)
      BY <1>5, <3>1
    <3>3. Ended(i) = a - g /\ Ended(i - 1) = b - g
      BY <2>5, <3>2
    <3>4. a - g = (b - g) + (a - b)
      OBVIOUS
    <3> QED
      BY <3>2, <3>3, <3>4
  <2> HIDE DEF Ended, free, Bad
  <2>12. Fit(r[i], free, size, i, Ended(i)) /\ Tight(r[i], free, n, Ended(i))
    <3>1. PICK q, z, k, y : q = r[i - 1] /\ z = Ended(i - 1) /\ k = i - 1 /\ y = n - i
      OBVIOUS
    <3>2. k \in Nat /\ y \in Nat /\ k + 1 + y = n /\ k + 1 = i
      BY <2>9, <3>1
    <3>3. Fit(q, free, size, k, z) /\ Tight(q, free, k + 1 + y, z)
      BY <2>10, <3>1, <3>2
    <3> DEFINE s == Fill(q, x.context, e.context, y)
               w == z + (Len(e.context.out) - Len(x.context.out))
    <3>4. Fit(s, free, size, k + 1, w) /\ Tight(s, free, k + 1 + y, w)
      <4>1. size \in Int
        OBVIOUS
      <4>2. PICK f : f = free
        OBVIOUS
      <4>3. f \in Int /\ Fit(q, f, size, k, z) /\ Tight(q, f, k + 1 + y, z)
        BY <1>5, <3>3, <4>2
      <4>4. Fit(s, f, size, k + 1, w) /\ Tight(s, f, k + 1 + y, w)
        BY <2>7, <2>8, <3>2, <4>1, <4>3, FillFits
      <4> QED
        BY <4>2, <4>4
    <3>5. s = r[i] /\ w = Ended(i)
      BY <2>6, <2>11, <3>1
    <3> HIDE DEF s, w
    <3> QED
      BY <3>2, <3>4, <3>5
  <2> QED
    BY <2>4, <2>12 DEF Good
<1>7. Good(n)
  <2>1. n \in 0 .. n
    BY <1>1
  <2> QED
    BY <1>6, <2>1
<1>8. /\ r[n].size \in Nat /\ r[n].offset \in Int /\ Ended(n) \in Nat
      /\ r[n].fault # "no" => free - n - 3 * Ended(n) < 4
  <2> HIDE DEF Ended, free, n
  <2> QED
    BY <1>7 DEF Fit, Tight
<1> QED
  BY <1>1, <1>3, <1>8

RoomOK == room \in [size : Nat, offset : Int] /\ (undefined # "no" => spare < 8)

\* What a recv does to the buffer, by what is known of the stream.
LEMMA RoomIs ==
    ASSUME SlipInv, RoomOK, NEW k \in 1 .. MaxRecv, CanRecv(k)
    PROVE  LET r == AfterRecv(k)
               z == Len(r.context.out) - Len(slip.out)
           IN  /\ r.room.size \in Nat /\ r.room.offset \in Int /\ z \in Nat /\ k \in Nat
               /\ Size \in Nat /\ room.offset \in Int
               /\ r.room.fault # "no" => buffer_bytes_left - k - 3 * z < 8
<1> DEFINE bytes == SubSeq(line, taken + 1, taken + k)
           head == slip.head \o bytes
           r == AfterRecv(k)
           z == Len(r.context.out) - Len(slip.out)
           Roomy == /\ r.room.size \in Nat /\ r.room.offset \in Int /\ z \in Nat
                    /\ r.room.fault # "no" => buffer_bytes_left - k - 3 * z < 8
<1>1. room.size \in Nat /\ room.offset \in Int /\ slip \in Context /\ Len(slip.out) \in Nat
  BY DEF RoomOK, SlipInv, Context
<1>2. Size \in Nat
  BY <1>1, BufferForIs DEF Size
<1>3. k \in Nat
  BY BoundsAssumption
<1>4. /\ bytes \in Seq(Byte) /\ Len(bytes) = k
      /\ \/ r = Decode(slip, room.offset, bytes)
         \/ r = Kept([slip EXCEPT !.head = head], k)
         \/ r = Decode(Found(head), room.offset + SizeOfLength, bytes)
         \/ r = Kept(Found(head), k)
  BY AfterRecvIs
<1>5. Found(head) \in Context /\ Found(head).out = slip.out /\ [slip EXCEPT !.head = head].out = slip.out
  BY <1>1, FoundIs DEF Context
<1> HIDE DEF r, bytes, head
<1>6. ASSUME NEW c \in Context, c.out = slip.out, NEW o \in Int, o <= room.offset + 4,
             r = Decode(c, o, bytes)
      PROVE  Roomy
  <2>1. r.context = slip_decode(c, bytes) /\ r.room = Filled(Turns(c, bytes), Size, o, Len(bytes))
    BY <1>6 DEF Decode
  <2>2. /\ r.room.size \in Nat /\ r.room.offset \in Int /\ z \in Nat
        /\ r.room.fault # "no" => (Size - o) - k - 3 * z < 4
    BY <1>2, <1>4, <1>6, <2>1, FilledIs
  <2> HIDE DEF z
  <2>3. PICK a, b \in Int : a = Size /\ b = room.offset
    BY <1>1, <1>2
  <2>4. r.room.fault # "no" => (a - o) - k - 3 * z < 4
    BY <2>2, <2>3, Zenon
  <2>5. o <= b + 4 /\ k \in Nat /\ z \in Nat
    BY <1>3, <1>6, <2>2, <2>3, Zenon
  <2>6. r.room.fault # "no" => (a - b) - k - 3 * z < 8
    BY <2>4, <2>5
  <2>7. r.room.fault # "no" => (Size - room.offset) - k - 3 * z < 8
    BY <2>3, <2>6, Zenon
  <2> QED
    BY <2>2, <2>7 DEF buffer_bytes_left
<1>7. ASSUME NEW c, c.out = slip.out, r = Kept(c, k)
      PROVE  Roomy
  <2>1. r.context = c /\ r.room = [size |-> Size, offset |-> room.offset + k, fault |-> "no"]
    BY <1>7 DEF Kept
  <2>2. z = 0
    BY <1>1, <1>7, <2>1
  <2> HIDE DEF z
  <2> QED
    BY <1>1, <1>2, <1>3, <2>1, <2>2
<1>8. room.offset <= room.offset + 4 /\ room.offset + SizeOfLength \in Int
      /\ room.offset + SizeOfLength <= room.offset + 4
  BY <1>1 DEF SizeOfLength
<1>9. Roomy
  <2> HIDE DEF Roomy
  <2>1. CASE r = Decode(slip, room.offset, bytes)
    BY <1>1, <1>6, <1>8, <2>1
  <2>2. CASE r = Decode(Found(head), room.offset + SizeOfLength, bytes)
    BY <1>5, <1>6, <1>8, <2>2
  <2>3. CASE r = Kept([slip EXCEPT !.head = head], k)
    BY <1>5, <1>7, <2>3
  <2>4. CASE r = Kept(Found(head), k)
    BY <1>5, <1>7, <2>4
  <2> QED
    BY <1>4, <2>1, <2>2, <2>3, <2>4
<1> QED
  BY <1>1, <1>2, <1>3, <1>9 DEF r

LEMMA RoomStep == SlipInv /\ RoomOK /\ [SlipNext]_slipVars => RoomOK'
<1> SUFFICES ASSUME SlipInv, RoomOK, [SlipNext]_slipVars PROVE RoomOK'
  OBVIOUS
<1>1. CASE UNCHANGED <<room, undefined, spare>>
  BY <1>1 DEF RoomOK
<1>2. CASE undefined = "no" /\ \E k \in 1 .. MaxRecv : Recv(k)
  <2>1. PICK k \in 1 .. MaxRecv : Recv(k)
    BY <1>2
  <2>2. /\ CanRecv(k) /\ undefined' = "no"
        /\ room' = [size |-> AfterRecv(k).room.size, offset |-> AfterRecv(k).room.offset]
    BY <1>2, <2>1 DEF Recv
  <2>3. AfterRecv(k).room.size \in Nat /\ AfterRecv(k).room.offset \in Int
    BY <2>2, RoomIs
  <2> QED
    BY <2>2, <2>3 DEF RoomOK
<1>3. CASE \E k \in 1 .. MaxRecv : RecvBeyond(k)
  <2>1. PICK k \in 1 .. MaxRecv : RecvBeyond(k)
    BY <1>3
  <2> DEFINE r == AfterRecv(k)
             z == Len(r.context.out) - Len(slip.out)
             left == buffer_bytes_left
  <2>2. CanRecv(k) /\ Fault(k) # "no" /\ spare' = left - k - 3 * z /\ room' = room
    BY <2>1 DEF RecvBeyond
  <2>3. /\ z \in Nat /\ k \in Nat /\ Size \in Nat /\ room.offset \in Int
        /\ r.room.fault # "no" => left - k - 3 * z < 8
    BY <2>2, RoomIs
  <2>4. r.room.fault # "no" \/ k > left - 4
    BY <2>2 DEF Fault, SizeOfLength
  <2>5. left \in Int
    BY <2>3 DEF buffer_bytes_left
  <2> HIDE DEF z, left, r
  <2>6. spare' < 8
    BY <2>2, <2>3, <2>4, <2>5
  <2> QED
    BY <2>2, <2>6 DEF RoomOK
<1>4. CASE undefined = "no" /\ Dispatch
  <2>1. slip.out # <<>> /\ slip.out \in Seq(Seq(Byte))
    BY <1>4 DEF Dispatch, Waiting, SlipInv, Context
  <2>2. Head(slip.out) \in Seq(Byte)
    BY <2>1
  <2>3. Len(Head(slip.out)) + SizeOfLength \in Nat
    BY <2>2 DEF SizeOfLength
  <2>4. /\ room' = [room EXCEPT !.offset = @ - (Len(Head(slip.out)) + SizeOfLength)]
        /\ undefined' = undefined
    BY <1>4 DEF Dispatch
  <2>5. room' \in [size : Nat, offset : Int]
    BY <2>3, <2>4 DEF RoomOK
  <2> QED
    BY <1>4, <2>4, <2>5 DEF RoomOK
<1> QED
  BY <1>1, <1>2, <1>3, <1>4 DEF SlipNext, slipVars, send_data, BeginWithEnd

\* The dispatcher is given the messages of a stream, those with bytes to escape and
\* the ones after them excepted, for payloads, sizes of buffers and numbers of bytes
\* in a recv of any value; and only a recv that leaves less than eight of the bytes it
\* asked for, three counted as brought with each END, puts one outside the buffers or
\* has them moved while it decodes (server.c:1005-1112).
THEOREM SlipFramed == SlipSpec => []SlipFrames
<1>1. SlipInit => RoomOK
  BY DEF SlipInit, RoomOK
<1>2. SlipInv /\ RoomOK => SlipFrames
  BY FramesWhenInv DEF SlipFrames, RoomOK
<1> QED
  BY SlipInvariant, RoomStep, <1>1, <1>2, PTL DEF SlipSpec

-----------------------------------------------------------------------------
(* URLs *)

Str == Seq(Symbol)

-----------------------------------------------------------------------------
(***************************************************************************)
(* What a conversion makes of a URL whose beginning is for it.             *)
(***************************************************************************)
LEMMA ConcatIs ==
    ASSUME NEW S, NEW a \in Seq(S), NEW t \in Seq(S)
    PROVE  /\ a \o t \in Seq(S) /\ Len(a \o t) = Len(a) + Len(t) /\ Len(a) \in Nat /\ Len(t) \in Nat
           /\ \A i \in 1 .. Len(a) : (a \o t)[i] = a[i]
           /\ \A i \in 1 .. Len(t) : (a \o t)[Len(a) + i] = t[i]
           /\ SubSeq(a \o t, 1, Len(a)) = a
           /\ SubSeq(a \o t, Len(a) + 1, Len(a \o t)) = t
<1> DEFINE s == a \o t
<1>1. /\ s \in Seq(S) /\ Len(s) = Len(a) + Len(t) /\ Len(a) \in Nat /\ Len(t) \in Nat
      /\ \A i \in 1 .. Len(a) + Len(t) : s[i] = IF i <= Len(a) THEN a[i] ELSE t[i - Len(a)]
  BY ConcatProperties
<1> HIDE DEF s
<1>2. \A i \in 1 .. Len(a) : s[i] = a[i] /\ s[i] \in S
  BY <1>1
<1>3. \A i \in 1 .. Len(t) : s[Len(a) + i] = t[i] /\ s[Len(a) + i] \in S
  <2> TAKE i \in 1 .. Len(t)
  <2>1. Len(a) + i \in 1 .. Len(a) + Len(t) /\ ~(Len(a) + i <= Len(a)) /\ (Len(a) + i) - Len(a) = i
    BY <1>1
  <2> QED
    BY <1>1, <2>1
<1>4. SubSeq(s, 1, Len(a)) = a
  <2> DEFINE u == SubSeq(s, 1, Len(a))
  <2>1. /\ u \in Seq(S) /\ Len(u) = (IF 1 <= Len(a) THEN Len(a) - 1 + 1 ELSE 0)
        /\ \A i \in 1 .. Len(a) - 1 + 1 : u[i] = s[1 + i - 1]
    BY <1>1, <1>2, SubSeqProperties
  <2> HIDE DEF u
  <2>2. Len(u) = Len(a) /\ \A i \in 1 .. Len(u) : u[i] = a[i]
    <3>1. Len(u) = Len(a) /\ \A i \in 1 .. Len(a) : i \in 1 .. Len(a) - 1 + 1 /\ 1 + i - 1 = i
      BY <1>1, <2>1
    <3> QED
      BY <1>2, <2>1, <3>1
  <2> QED
    BY <2>1, <2>2, SeqEqual DEF u
<1>5. SubSeq(s, Len(a) + 1, Len(s)) = t
  <2> DEFINE u == SubSeq(s, Len(a) + 1, Len(s))
  <2>1. \A i \in Len(a) + 1 .. Len(s) : s[i] \in S
    BY <1>1
  <2>2. /\ u \in Seq(S) /\ Len(u) = (IF Len(a) + 1 <= Len(s) THEN Len(s) - (Len(a) + 1) + 1 ELSE 0)
        /\ \A i \in 1 .. Len(s) - (Len(a) + 1) + 1 : u[i] = s[(Len(a) + 1) + i - 1]
    <3>1. Len(a) + 1 \in Int /\ Len(s) \in Int
      BY <1>1
    <3> QED
      BY <2>1, <3>1, SubSeqProperties
  <2> HIDE DEF u
  <2>3. Len(u) = Len(t) /\ \A i \in 1 .. Len(u) : u[i] = t[i]
    <3>1. Len(u) = Len(t) /\ \A i \in 1 .. Len(t) : i \in 1 .. Len(s) - (Len(a) + 1) + 1 /\ (Len(a) + 1) + i - 1 = Len(a) + i
      BY <1>1, <2>2
    <3> QED
      BY <1>3, <2>2, <3>1
  <2> QED
    BY <2>2, <2>3, SeqEqual DEF u
<1> QED
  BY <1>1, <1>2, <1>3, <1>4, <1>5 DEF s

LEMMA SpanIs ==
    ASSUME NEW a \in Str, NEW t \in Str, NEW set, \A i \in 1 .. Len(a) : a[i] \in set,
           t = <<>> \/ t[1] \notin set
    PROVE  Span(a \o t, set) = Len(a)
<1> DEFINE s == a \o t
           I == {i \in 1 .. Len(s) : s[i] \notin set}
           other == SelectInSeq(s, LAMBDA c : c \notin set)
<1>1. /\ Len(s) = Len(a) + Len(t) /\ Len(a) \in Nat /\ Len(t) \in Nat
      /\ \A i \in 1 .. Len(a) : s[i] = a[i]
      /\ \A i \in 1 .. Len(t) : s[Len(a) + i] = t[i]
  BY ConcatIs DEF Str
<1>2. Span(s, set) = IF other = 0 THEN Len(s) ELSE other - 1
  BY DEF Span
<1>3. other = IF I # {} THEN Min(I) ELSE 0
  BY DEF SelectInSeq
<1> HIDE DEF s, other
<1>4. CASE t = <<>>
  <2>1. Len(t) = 0
    BY <1>4
  <2>2. I = {}
    BY <1>1, <2>1
  <2> HIDE DEF I
  <2> QED
    BY <1>1, <1>2, <1>3, <2>1, <2>2 DEF s
<1>5. CASE t # <<>>
  <2>1. 1 \in 1 .. Len(t) /\ Len(a) + 1 \in 1 .. Len(s)
    BY <1>1, <1>5, EmptySeq DEF Str
  <2>2. Len(a) + 1 \in I
    BY <1>1, <1>5, <2>1
  <2>3. \A i \in I : Len(a) + 1 <= i /\ i \in Nat
    BY <1>1
  <2> HIDE DEF I
  <2>4. Min(I) \in I /\ Min(I) <= Len(a) + 1
    BY <2>2, <2>3 DEF Min
  <2>5. other = Len(a) + 1
    BY <1>1, <1>3, <2>2, <2>3, <2>4
  <2> QED
    BY <1>1, <1>2, <2>5 DEF s
<1> QED
  BY <1>4, <1>5

LEMMA Spans ==
    ASSUME NEW a \in Str, a # <<>>, NEW t \in Str, NEW set, \A i \in 1 .. Len(a) : a[i] \in set,
           t = <<>> \/ t[1] \notin set
    PROVE  Skip(Given(a \o t), set) = Given(t) /\ Take(Given(a \o t), set) = Given(a)
<1> DEFINE s == a \o t
<1>1. Span(s, set) = Len(a)
  BY SpanIs
<1>2. /\ Len(s) = Len(a) + Len(t) /\ Len(a) \in Nat /\ Len(t) \in Nat
      /\ \A i \in 1 .. Len(a) : s[i] = a[i]
      /\ SubSeq(s, 1, Len(a)) = a /\ SubSeq(s, Len(a) + 1, Len(s)) = t
  BY ConcatIs DEF Str
<1> HIDE DEF s
<1>3. Len(a) # 0
  BY DEF Str
<1>4. s # <<>> /\ s[1] \in set
  <2>1. 1 \in 1 .. Len(a) /\ Len(s) # 0
    BY <1>2, <1>3
  <2> QED
    BY <1>2, <2>1
<1>5. Given(s).ret = 1 /\ Given(s).text = s
  BY DEF Given
<1> QED
  BY <1>1, <1>2, <1>4, <1>5 DEF Skip, Take, Some, s

LEMMA SomeFails ==
    ASSUME NEW s, NEW set, s # <<>>, s[1] \notin set
    PROVE  Skip(Given(s), set) = NoMatch /\ Take(Given(s), set) = NoMatch
<1>1. Given(s).ret = 1 /\ Given(s).text = s
  BY DEF Given
<1> QED
  BY <1>1 DEF Skip, Take, Some

LEMMA SomeEnds ==
    ASSUME NEW set
    PROVE  Skip(Given(<<>>), set) = Unset /\ Take(Given(<<>>), set) = Unset
<1>1. Given(<<>>).ret = 1 /\ Given(<<>>).text = <<>>
  BY DEF Given
<1> QED
  BY <1>1 DEF Skip, Take, Some

LEMMA Stops ==
    ASSUME NEW r, r.ret # 1, NEW set, NEW cs
    PROVE  Lit(r, cs) = r /\ Skip(r, set) = r /\ Take(r, set) = r
BY DEF Lit, Skip, Take, Some

LEMMA LitIs ==
    ASSUME NEW cs \in Str, NEW t \in Str
    PROVE  Lit(Given(cs \o t), cs) = Given(t) /\ IsPrefix(cs, cs \o t)
<1> DEFINE s == cs \o t
<1>1. /\ Len(s) = Len(cs) + Len(t) /\ Len(cs) \in Nat /\ Len(t) \in Nat
      /\ SubSeq(s, 1, Len(cs)) = cs /\ SubSeq(s, Len(cs) + 1, Len(s)) = t
  BY ConcatIs DEF Str
<1>2. SubSeq(cs, 1, Len(cs)) = cs
  BY SubSeqFull DEF Str
<1> HIDE DEF s
<1>3. IsPrefix(cs, s)
  BY <1>1, <1>2 DEF IsPrefix
<1>4. Given(s).ret = 1 /\ Given(s).text = s
  BY DEF Given
<1> QED
  BY <1>1, <1>3, <1>4 DEF Lit, s

LEMMA LitFails ==
    ASSUME NEW cs \in Str, NEW s \in Str, NEW i \in 1 .. Len(cs), i <= Len(s), s[i] # cs[i]
    PROVE  Lit(Given(s), cs) = NoMatch /\ ~IsPrefix(cs, s)
<1>1. Len(cs) \in Nat /\ Len(s) \in Nat /\ i \in 1 .. Len(s)
  BY DEF Str
<1>2. ASSUME NEW a \in Str, NEW b \in Str, IsPrefix(a, b), NEW j \in 1 .. Len(a)
      PROVE  a[j] = b[j]
  <2>1. Len(a) <= Len(b) /\ SubSeq(a, 1, Len(a)) = SubSeq(b, 1, Len(a)) /\ Len(a) \in Nat /\ Len(b) \in Nat
    BY <1>2 DEF IsPrefix, Str
  <2>2. \A k \in 1 .. Len(a) : a[k] \in Symbol /\ b[k] \in Symbol /\ k \in 1 .. Len(a) - 1 + 1 /\ 1 + k - 1 = k
    BY <2>1 DEF Str
  <2>3. SubSeq(a, 1, Len(a))[j] = a[1 + j - 1] /\ SubSeq(b, 1, Len(a))[j] = b[1 + j - 1]
    BY <1>2, <2>1, <2>2, SubSeqProperties
  <2> QED
    BY <2>1, <2>2, <2>3
<1>3. ~IsPrefix(cs, s)
  BY <1>2
<1>4. ~IsPrefix(s, cs)
  BY <1>1, <1>2
<1>5. Given(s).ret = 1 /\ Given(s).text = s
  BY DEF Given
<1> QED
  BY <1>3, <1>4, <1>5 DEF Lit

-----------------------------------------------------------------------------
(***************************************************************************)
(* URLs by what follows their scheme.                                      *)
(***************************************************************************)
OfScheme(proto, rest) == <<"osc", ".", proto, ":", "/", "/">> \o rest
Other(rest) == <<"osc", ":", "/", "/">> \o rest

LEMMA ConcatEqual ==
    ASSUME NEW S, NEW u \in Seq(S), NEW v \in Seq(S), NEW w \in Seq(S), Len(w) = Len(u) + Len(v),
           \A i \in 1 .. Len(u) : w[i] = u[i], \A i \in 1 .. Len(v) : w[Len(u) + i] = v[i]
    PROVE  u \o v = w
<1> DEFINE s == u \o v
<1>1. /\ s \in Seq(S) /\ Len(s) = Len(u) + Len(v) /\ Len(u) \in Nat /\ Len(v) \in Nat
      /\ \A i \in 1 .. Len(u) : s[i] = u[i]
      /\ \A i \in 1 .. Len(v) : s[Len(u) + i] = v[i]
  BY ConcatIs
<1> HIDE DEF s
<1>2. ASSUME NEW i \in 1 .. Len(s) PROVE s[i] = w[i]
  <2>1. CASE i <= Len(u)
    <3>1. i \in 1 .. Len(u)
      BY <1>1, <2>1
    <3> QED
      BY <1>1, <3>1
  <2>2. CASE ~(i <= Len(u))
    <3>1. i - Len(u) \in 1 .. Len(v) /\ Len(u) + (i - Len(u)) = i
      BY <1>1, <2>2
    <3> QED
      BY <1>1, <3>1
  <2> QED
    BY <2>1, <2>2
<1>3. s = w
  BY <1>1, <1>2, SeqEqual
<1> QED
  BY <1>3 DEF s

LEMMA Words ==
    /\ \A c \in Symbol : <<c>> \in Str /\ <<c>> # <<>> /\ Len(<<c>>) = 1 /\ <<c>>[1] = c
    /\ "osc" \in Symbol /\ "." \in Symbol /\ ":" \in Symbol /\ "/" \in Symbol
    /\ "[" \in Symbol /\ "]" \in Symbol /\ "localhost" \in Symbol
    /\ "udp" \in Symbol /\ "tcp" \in Symbol /\ "unix" \in Symbol
    /\ NameSymbol \subseteq Symbol /\ Digit \subseteq NameSymbol
<1>1. \A c \in Symbol : <<c>> \in Str /\ <<c>> # <<>> /\ Len(<<c>>) = 1 /\ <<c>>[1] = c
  BY DEF Str
<1>2. /\ "osc" \in Symbol /\ "." \in Symbol /\ ":" \in Symbol /\ "/" \in Symbol
      /\ "[" \in Symbol /\ "]" \in Symbol /\ "localhost" \in Symbol
      /\ "udp" \in Symbol /\ "tcp" \in Symbol /\ "unix" \in Symbol
  BY DEF Symbol, NameSymbol
<1>3. NameSymbol \subseteq Symbol /\ Digit \subseteq NameSymbol
  BY DEF Symbol, NameSymbol
<1> QED
  BY <1>1, <1>2, <1>3

\* The words before what is read of a URL, in pieces.
LEMMA PiecesOne ==
    ASSUME NEW S, NEW a \in S, NEW b \in S
    PROVE  <<a>> \o <<b>> = <<a, b>>
<1>1. PICK u : u = <<a>>
  OBVIOUS
<1>2. PICK v : v = <<b>>
  OBVIOUS
<1>3. PICK w : w = <<a, b>>
  OBVIOUS
<1>4. u \in Seq(S) /\ v \in Seq(S) /\ w \in Seq(S)
  BY <1>1, <1>2, <1>3
<1>5. Len(u) = 1 /\ Len(v) = 1 /\ Len(w) = 2
  BY <1>1, <1>2, <1>3
<1>6. \A i \in 1 .. 1 : i = 1
  OBVIOUS
<1>7. \A i \in 1 .. Len(u) : w[i] = u[i]
  BY <1>1, <1>3, <1>5, <1>6
<1>8. \A i \in 1 .. Len(v) : w[Len(u) + i] = v[i]
  BY <1>2, <1>3, <1>5, <1>6
<1>9. Len(w) = Len(u) + Len(v)
  BY <1>5
<1>10. u \o v = w
  BY <1>4, <1>7, <1>8, <1>9, ConcatEqual
<1> QED
  BY <1>1, <1>2, <1>3, <1>10, Zenon

LEMMA Pieces21 ==
    ASSUME NEW S, NEW a \in S, NEW b \in S, NEW c \in S
    PROVE  <<a, b>> \o <<c>> = <<a, b, c>>
<1>1. PICK u : u = <<a, b>>
  OBVIOUS
<1>2. PICK v : v = <<c>>
  OBVIOUS
<1>3. PICK w : w = <<a, b, c>>
  OBVIOUS
<1>4. u \in Seq(S) /\ v \in Seq(S) /\ w \in Seq(S)
  BY <1>1, <1>2, <1>3
<1>5. Len(u) = 2 /\ Len(v) = 1 /\ Len(w) = 3
  BY <1>1, <1>2, <1>3
<1>6. (\A i \in 1 .. 2 : i = 1 \/ i = 2) /\ (\A i \in 1 .. 1 : i = 1)
  OBVIOUS
<1>7. \A i \in 1 .. Len(u) : w[i] = u[i]
  BY <1>1, <1>3, <1>5, <1>6
<1>8. \A i \in 1 .. Len(v) : w[Len(u) + i] = v[i]
  BY <1>2, <1>3, <1>5, <1>6
<1>9. Len(w) = Len(u) + Len(v)
  BY <1>5
<1>10. u \o v = w
  BY <1>4, <1>7, <1>8, <1>9, ConcatEqual
<1> QED
  BY <1>1, <1>2, <1>3, <1>10, Zenon

LEMMA Pieces22 ==
    ASSUME NEW S, NEW a \in S, NEW b \in S, NEW c \in S, NEW d \in S
    PROVE  <<a, b>> \o <<c, d>> = <<a, b, c, d>>
<1>1. PICK u : u = <<a, b>>
  OBVIOUS
<1>2. PICK v : v = <<c, d>>
  OBVIOUS
<1>3. PICK w : w = <<a, b, c, d>>
  OBVIOUS
<1>4. u \in Seq(S) /\ v \in Seq(S) /\ w \in Seq(S)
  BY <1>1, <1>2, <1>3
<1>5. Len(u) = 2 /\ Len(v) = 2 /\ Len(w) = 4
  BY <1>1, <1>2, <1>3
<1>6. (\A i \in 1 .. 2 : i = 1 \/ i = 2) /\ (\A i \in 1 .. 2 : i = 1 \/ i = 2)
  OBVIOUS
<1>7. \A i \in 1 .. Len(u) : w[i] = u[i]
  BY <1>1, <1>3, <1>5, <1>6
<1>8. \A i \in 1 .. Len(v) : w[Len(u) + i] = v[i]
  BY <1>2, <1>3, <1>5, <1>6
<1>9. Len(w) = Len(u) + Len(v)
  BY <1>5
<1>10. u \o v = w
  BY <1>4, <1>7, <1>8, <1>9, ConcatEqual
<1> QED
  BY <1>1, <1>2, <1>3, <1>10, Zenon

LEMMA Pieces33 ==
    ASSUME NEW S, NEW a \in S, NEW b \in S, NEW c \in S, NEW d \in S, NEW e \in S, NEW f \in S
    PROVE  <<a, b, c>> \o <<d, e, f>> = <<a, b, c, d, e, f>>
<1>1. PICK u : u = <<a, b, c>>
  OBVIOUS
<1>2. PICK v : v = <<d, e, f>>
  OBVIOUS
<1>3. PICK w : w = <<a, b, c, d, e, f>>
  OBVIOUS
<1>4. u \in Seq(S) /\ v \in Seq(S) /\ w \in Seq(S)
  BY <1>1, <1>2, <1>3
<1>5. Len(u) = 3 /\ Len(v) = 3 /\ Len(w) = 6
  BY <1>1, <1>2, <1>3
<1>6. (\A i \in 1 .. 3 : i = 1 \/ i = 2 \/ i = 3) /\ (\A i \in 1 .. 3 : i = 1 \/ i = 2 \/ i = 3)
  OBVIOUS
<1>7. \A i \in 1 .. Len(u) : w[i] = u[i]
  BY <1>1, <1>3, <1>5, <1>6
<1>8. \A i \in 1 .. Len(v) : w[Len(u) + i] = v[i]
  BY <1>2, <1>3, <1>5, <1>6
<1>9. Len(w) = Len(u) + Len(v)
  BY <1>5
<1>10. u \o v = w
  BY <1>4, <1>7, <1>8, <1>9, ConcatEqual
<1> QED
  BY <1>1, <1>2, <1>3, <1>10, Zenon

LEMMA Pieces42 ==
    ASSUME NEW S, NEW a \in S, NEW b \in S, NEW c \in S, NEW d \in S, NEW e \in S, NEW f \in S
    PROVE  <<a, b, c, d>> \o <<e, f>> = <<a, b, c, d, e, f>>
<1>1. PICK u : u = <<a, b, c, d>>
  OBVIOUS
<1>2. PICK v : v = <<e, f>>
  OBVIOUS
<1>3. PICK w : w = <<a, b, c, d, e, f>>
  OBVIOUS
<1>4. u \in Seq(S) /\ v \in Seq(S) /\ w \in Seq(S)
  BY <1>1, <1>2, <1>3
<1>5. Len(u) = 4 /\ Len(v) = 2 /\ Len(w) = 6
  BY <1>1, <1>2, <1>3
<1>6. (\A i \in 1 .. 4 : i = 1 \/ i = 2 \/ i = 3 \/ i = 4) /\ (\A i \in 1 .. 2 : i = 1 \/ i = 2)
  OBVIOUS
<1>7. \A i \in 1 .. Len(u) : w[i] = u[i]
  BY <1>1, <1>3, <1>5, <1>6
<1>8. \A i \in 1 .. Len(v) : w[Len(u) + i] = v[i]
  BY <1>2, <1>3, <1>5, <1>6
<1>9. Len(w) = Len(u) + Len(v)
  BY <1>5
<1>10. u \o v = w
  BY <1>4, <1>7, <1>8, <1>9, ConcatEqual
<1> QED
  BY <1>1, <1>2, <1>3, <1>10, Zenon

LEMMA SchemePieces ==
    ASSUME NEW proto \in Symbol
    PROVE  /\ <<"osc", ".">> \o <<proto>> = <<"osc", ".", proto>>
           /\ <<"osc", ".", proto>> \o <<":", "/", "/">> = <<"osc", ".", proto, ":", "/", "/">>
           /\ <<"osc", ".", proto, ":">> \o <<"/", "/">> = <<"osc", ".", proto, ":", "/", "/">>
           /\ <<"osc", ":">> \o <<"/", "/">> = <<"osc", ":", "/", "/">>
<1>1. PICK o \in Symbol : o = "osc"
  BY Words
<1>2. PICK d \in Symbol : d = "."
  BY Words
<1>3. PICK c \in Symbol : c = ":"
  BY Words
<1>4. PICK s \in Symbol : s = "/"
  BY Words
<1>5. <<o, d>> \o <<proto>> = <<o, d, proto>>
  BY Pieces21
<1>6. <<o, d, proto>> \o <<c, s, s>> = <<o, d, proto, c, s, s>>
  BY Pieces33
<1>7. <<o, d, proto, c>> \o <<s, s>> = <<o, d, proto, c, s, s>>
  BY Pieces42
<1>8. <<o, c>> \o <<s, s>> = <<o, c, s, s>>
  BY Pieces22
<1> QED
  BY <1>1, <1>2, <1>3, <1>4, <1>5, <1>6, <1>7, <1>8, Zenon

LEMMA TypedIs ==
    ASSUME NEW proto \in {"udp", "tcp", "unix"}, NEW rest \in Str
    PROVE  LET url == OfScheme(proto, rest) IN
           /\ url \in Str
           /\ OscSlashes(url) = NoMatch
           /\ OscDot(url) = Given(<<proto>> \o (<<":", "/", "/">> \o rest))
           /\ AnyScheme(url) = Given(rest)
           /\ Slashes(Skip(OscDot(url), Not({":", "/"}))) = Given(rest)
           /\ Slashes(Lit(OscDot(url), <<"unix">>)) = IF proto = "unix" THEN Given(rest) ELSE NoMatch
           /\ lo_url_get_protocol_id(url) = proto
           /\ lo_url_get_protocol(url) = Given(<<proto>>)
<1> DEFINE url == OfScheme(proto, rest)
           after == <<":", "/", "/">> \o rest
           scheme == <<proto>> \o after
           dot == <<"osc", ".">>
<1>1. /\ proto \in Symbol /\ dot \in Str /\ <<":", "/", "/">> \in Str /\ <<proto>> \in Str
      /\ <<"osc", ":", "/", "/">> \in Str /\ <<"osc", ":">> \in Str /\ <<"[">> \in Str
      /\ <<"osc", ".", proto, ":">> \in Str /\ <<"unix">> \in Str
  BY Words DEF Str, Symbol
<1>2. /\ after \in Str /\ Len(after) = 3 + Len(rest) /\ Len(rest) \in Nat /\ after[1] = ":" /\ after # <<>>
  <2>1. Len(<<":", "/", "/">>) = 3 /\ <<":", "/", "/">>[1] = ":" /\ 1 \in 1 .. 3
    OBVIOUS
  <2>2. /\ after \in Str /\ Len(after) = 3 + Len(rest) /\ Len(rest) \in Nat /\ after[1] = ":"
    BY <1>1, <2>1, ConcatIs DEF Str
  <2>3. Len(after) # 0
    BY <2>2
  <2> HIDE DEF after
  <2> QED
    BY <2>2, <2>3
<1>3. /\ scheme \in Str
  BY <1>1, <1>2, ConcatIs DEF Str
<1>4. url = dot \o scheme
  <2>1. dot \o <<proto>> = <<"osc", ".", proto>>
    BY <1>1, SchemePieces
  <2>2. <<"osc", ".", proto>> \o <<":", "/", "/">> = <<"osc", ".", proto, ":", "/", "/">>
    BY <1>1, SchemePieces
  <2>3. <<"osc", ".", proto>> \in Str
    BY <1>1, Words DEF Str
  <2>4. <<"osc", ".", proto, ":", "/", "/">> \o rest = <<"osc", ".", proto>> \o after
    <3>1. (<<"osc", ".", proto>> \o <<":", "/", "/">>) \o rest = <<"osc", ".", proto>> \o after
      BY <1>1, <2>3, ConcatAssociative DEF Str
    <3> QED
      BY <2>2, <3>1
  <2>5. <<"osc", ".", proto>> \o after = dot \o scheme
    BY <1>1, <1>2, <2>1, ConcatAssociative DEF Str
  <2> QED
    BY <2>4, <2>5 DEF OfScheme
<1>5. url = <<"osc", ".", proto, ":">> \o (<<"/", "/">> \o rest) /\ <<"/", "/">> \o rest \in Str
  <2>1. <<"osc", ".", proto, ":">> \o <<"/", "/">> = <<"osc", ".", proto, ":", "/", "/">>
    BY <1>1, SchemePieces
  <2>2. <<"/", "/">> \in Str
    BY Words DEF Str
  <2>3. <<"/", "/">> \o rest \in Str
    BY <2>2, ConcatIs DEF Str
  <2>4. (<<"osc", ".", proto, ":">> \o <<"/", "/">>) \o rest = <<"osc", ".", proto, ":">> \o (<<"/", "/">> \o rest)
    BY <1>1, <2>2, ConcatAssociative DEF Str
  <2> QED
    BY <2>1, <2>3, <2>4 DEF OfScheme
<1>6. /\ url \in Str /\ Len(url) = 6 + Len(rest)
      /\ url[1] = "osc" /\ url[2] = "." /\ url[3] = proto /\ url[4] = ":"
  <2> DEFINE h == <<"osc", ".", proto, ":", "/", "/">>
  <2>1. h \in Str /\ Len(h) = 6 /\ h[1] = "osc" /\ h[2] = "." /\ h[3] = proto /\ h[4] = ":"
    BY <1>1, Words DEF Str
  <2>2. url = h \o rest
    BY DEF OfScheme
  <2> HIDE DEF h, url
  <2>3. 1 \in 1 .. Len(h) /\ 2 \in 1 .. Len(h) /\ 3 \in 1 .. Len(h) /\ 4 \in 1 .. Len(h)
    BY <2>1
  <2>4. url \in Str /\ Len(url) = Len(h) + Len(rest) /\ \A i \in 1 .. Len(h) : url[i] = h[i]
    <3>1. h \in Seq(Symbol) /\ rest \in Seq(Symbol)
      BY <2>1 DEF Str
    <3>2. /\ h \o rest \in Seq(Symbol) /\ Len(h \o rest) = Len(h) + Len(rest)
          /\ \A i \in 1 .. Len(h) : (h \o rest)[i] = h[i]
      BY <3>1, ConcatIs
    <3> QED
      BY <2>2, <3>2, Zenon DEF Str
  <2> QED
    BY <2>1, <2>3, <2>4
<1>7. OscDot(url) = Given(scheme)
  BY <1>1, <1>3, <1>4, LitIs DEF OscDot
<1>8. OscSlashes(url) = NoMatch /\ ~IsPrefix(<<"osc", ":">>, url)
  <2>1. url[2] # <<"osc", ":", "/", "/">>[2] /\ url[2] # <<"osc", ":">>[2] /\ 2 <= Len(url)
    BY <1>2, <1>6
  <2>2. 2 \in 1 .. Len(<<"osc", ":", "/", "/">>) /\ 2 \in 1 .. Len(<<"osc", ":">>)
    OBVIOUS
  <2> HIDE DEF url
  <2> QED
    BY <1>1, <1>6, <2>1, <2>2, LitFails DEF OscSlashes
<1>9. Slashes(Given(after)) = Given(rest)
  BY <1>1, LitIs DEF Slashes
<1>10. /\ Skip(Given(scheme), Not({":"})) = Given(after)
       /\ Skip(Given(scheme), Not({":", "/"})) = Given(after)
       /\ Take(Given(scheme), Not({":", "/", "["})) = Given(<<proto>>)
  <2>1. /\ proto \in Not({":"}) /\ proto \in Not({":", "/"}) /\ proto \in Not({":", "/", "["})
        /\ ":" \notin Not({":"}) /\ ":" \notin Not({":", "/"}) /\ ":" \notin Not({":", "/", "["})
    BY <1>1 DEF Not
  <2>2. \A i \in 1 .. Len(<<proto>>) : <<proto>>[i] = proto
    OBVIOUS
  <2>3. <<proto>> # <<>>
    OBVIOUS
  <2> HIDE DEF after
  <2> QED
    BY <1>1, <1>2, <2>1, <2>2, <2>3, Spans
<1>11. Slashes(Lit(OscDot(url), <<"unix">>)) = IF proto = "unix" THEN Given(rest) ELSE NoMatch
  <2>1. CASE proto = "unix"
    <3>1. Lit(Given(scheme), <<"unix">>) = Given(after)
      BY <1>1, <1>2, <2>1, LitIs
    <3> QED
      BY <1>7, <1>9, <2>1, <3>1
  <2>2. CASE proto # "unix"
    <3>1. scheme[1] = proto /\ 1 <= Len(scheme)
      <4>1. Len(<<proto>>) = 1 /\ <<proto>>[1] = proto /\ 1 \in 1 .. 1
        OBVIOUS
      <4> HIDE DEF after
      <4> QED
        BY <1>1, <1>2, <4>1, ConcatIs DEF Str
    <3>2. <<"unix">>[1] = "unix" /\ 1 \in 1 .. Len(<<"unix">>)
      OBVIOUS
    <3> HIDE DEF scheme
    <3>3. Lit(Given(scheme), <<"unix">>) = NoMatch
      BY <1>1, <1>3, <2>2, <3>1, <3>2, LitFails
    <3>4. NoMatch.ret # 1
      BY DEF NoMatch
    <3> QED
      BY <1>7, <2>2, <3>3, <3>4, Stops DEF Slashes
  <2> QED
    BY <2>1, <2>2
<1>12. lo_url_get_protocol_id(url) = proto
  <2>1. IsPrefix(<<"osc", ".", proto, ":">>, url)
    BY <1>1, <1>5, LitIs
  <2> HIDE DEF url
  <2> QED
    BY <1>6, <1>8, <2>1 DEF lo_url_get_protocol_id
<1>13. lo_url_get_protocol(url) = Given(<<proto>>)
  <2>1. Take(NoMatch, Symbol) = NoMatch /\ NoMatch.ret = 0
    BY Stops DEF NoMatch
  <2> HIDE DEF url, scheme
  <2> QED
    BY <1>7, <1>8, <1>10, <2>1 DEF lo_url_get_protocol
<1> QED
  BY <1>6, <1>7, <1>8, <1>9, <1>10, <1>11, <1>12, <1>13 DEF AnyScheme

LEMMA OtherIs ==
    ASSUME NEW rest \in Str
    PROVE  /\ Other(rest) \in Str /\ OscSlashes(Other(rest)) = Given(rest)
           /\ lo_url_get_protocol_id(Other(rest)) = "udp"
<1>1. <<"osc", ":", "/", "/">> \in Str /\ <<"osc", ":">> \in Str /\ <<"/", "/">> \in Str
  BY Words DEF Str
<1>2. Other(rest) \in Str
  BY <1>1, ConcatIs DEF Str, Other
<1>3. <<"osc", ":">> \o <<"/", "/">> = <<"osc", ":", "/", "/">>
  BY Words, SchemePieces
<1>4. (<<"osc", ":">> \o <<"/", "/">>) \o rest = <<"osc", ":">> \o (<<"/", "/">> \o rest)
  BY <1>1, ConcatAssociative DEF Str
<1>5. <<"/", "/">> \o rest \in Str
  BY <1>1, ConcatIs DEF Str
<1>6. IsPrefix(<<"osc", ":">>, Other(rest))
  BY <1>1, <1>3, <1>4, <1>5, LitIs DEF Other
<1> QED
  BY <1>1, <1>2, <1>6, LitIs DEF OscSlashes, Other, lo_url_get_protocol_id

-----------------------------------------------------------------------------
(***************************************************************************)
(* Hosts, ports and paths.                                                 *)
(***************************************************************************)
LEMMA FirstOfIs ==
    ASSUME NEW results, Len(results) \in Nat, NEW k \in 1 .. Len(results), results[k].ret # 0,
           \A j \in 1 .. k - 1 : results[j].ret = 0
    PROVE  FirstOf(results) = results[k]
<1> DEFINE I == {i \in 1 .. Len(results) : results[i].ret # 0}
           first == SelectInSeq(results, LAMBDA r : r.ret # 0)
<1>1. k \in I
  OBVIOUS
<1>2. \A i \in I : k <= i /\ i \in Nat
  <2> TAKE i \in I
  <2>1. i \in 1 .. Len(results) /\ results[i].ret # 0
    OBVIOUS
  <2>2. i \notin 1 .. k - 1
    BY <2>1
  <2> QED
    BY <2>1, <2>2
<1>3. first = IF I # {} THEN Min(I) ELSE 0
  BY DEF SelectInSeq
<1>4. FirstOf(results) = IF first = 0 THEN NoMatch ELSE results[first]
  BY DEF FirstOf
<1> HIDE DEF I, first
<1>5. Min(I) \in I /\ Min(I) <= k
  BY <1>1, <1>2 DEF Min
<1>6. first = k /\ k # 0
  <2>1. k \in Nat /\ k # 0
    OBVIOUS
  <2>2. k <= Min(I) /\ Min(I) \in Nat /\ I # {}
    BY <1>1, <1>2, <1>5
  <2> QED
    BY <1>3, <1>5, <2>1, <2>2
<1> QED
  BY <1>4, <1>6

LEMMA NothingAfter ==
    /\ NoMatch.ret = 0
    /\ BarePort(NoMatch) = NoMatch /\ QuotedPort(NoMatch) = NoMatch
    /\ PathAfterPort(NoMatch) = NoMatch /\ \A set : Take(NoMatch, set) = NoMatch
<1>1. NoMatch.ret = 0 /\ NoMatch.ret # 1
  BY DEF NoMatch
<1>2. \A set, cs : Lit(NoMatch, cs) = NoMatch /\ Skip(NoMatch, set) = NoMatch /\ Take(NoMatch, set) = NoMatch
  BY <1>1, Stops
<1> QED
  BY <1>1, <1>2 DEF BarePort, QuotedPort, PathAfterPort

Number(q) == q \in Seq(Digit) /\ q # <<>>
After(rest) == rest \in Str /\ (rest = <<>> \/ rest[1] \notin Digit)

\* What follows a host.
PortAnd(q, rest) == <<":">> \o (q \o rest)

LEMMA PortAndIs ==
    ASSUME NEW q, Number(q), NEW rest, After(rest)
    PROVE  /\ q \in Str /\ q \o rest \in Str /\ PortAnd(q, rest) \in Str /\ PortAnd(q, rest) # <<>>
           /\ PortAnd(q, rest)[1] = ":"
           /\ Lit(Given(PortAnd(q, rest)), <<":">>) = Given(q \o rest)
           /\ Take(Given(q \o rest), Digit) = Given(q)
           /\ Skip(Given(q \o rest), Digit) = Given(rest)
<1>1. q \in Str /\ \A i \in 1 .. Len(q) : q[i] \in Digit
  BY Words DEF Str, Number
<1>2. q \o rest \in Str
  BY <1>1, ConcatIs DEF Str, After
<1>3. <<":">> \in Str /\ Len(<<":">>) = 1 /\ <<":">>[1] = ":"
  BY Words
<1>4. PortAnd(q, rest) \in Str /\ Len(PortAnd(q, rest)) # 0 /\ PortAnd(q, rest)[1] = ":"
  <2> DEFINE p == PortAnd(q, rest)
  <2>1. /\ p \in Str /\ Len(p) = 1 + Len(q \o rest) /\ Len(q \o rest) \in Nat
        /\ \A i \in 1 .. 1 : p[i] = <<":">>[i]
    BY <1>2, <1>3, ConcatIs DEF Str, PortAnd
  <2> HIDE DEF p
  <2>2. Len(p) # 0 /\ p[1] = ":"
    BY <1>3, <2>1
  <2> QED
    BY <2>1, <2>2 DEF p
<1>5. Lit(Given(PortAnd(q, rest)), <<":">>) = Given(q \o rest)
  BY <1>2, <1>3, LitIs DEF PortAnd
<1>6. Take(Given(q \o rest), Digit) = Given(q) /\ Skip(Given(q \o rest), Digit) = Given(rest)
  BY <1>1, Spans DEF Number, After
<1> QED
  BY <1>1, <1>2, <1>4, <1>5, <1>6

\* The first symbol of two pieces.
LEMMA FirstSymbol ==
    ASSUME NEW a \in Str, NEW t \in Str, t # <<>>
    PROVE  (a \o t)[1] = (IF a = <<>> THEN t[1] ELSE a[1]) /\ a \o t # <<>> /\ a \o t \in Str
<1> DEFINE s == a \o t
<1>1. /\ s \in Str /\ Len(s) = Len(a) + Len(t) /\ Len(a) \in Nat /\ Len(t) \in Nat
      /\ \A i \in 1 .. Len(a) : s[i] = a[i]
      /\ \A i \in 1 .. Len(t) : s[Len(a) + i] = t[i]
  BY ConcatIs DEF Str
<1> HIDE DEF s
<1>2. Len(t) # 0 /\ (Len(a) = 0 <=> a = <<>>)
  BY DEF Str
<1>3. Len(s) # 0
  BY <1>1, <1>2
<1>4. s # <<>>
  BY <1>3
<1>5. CASE a = <<>>
  <2>1. Len(a) + 1 = 1 /\ 1 \in 1 .. Len(t)
    BY <1>1, <1>2, <1>5
  <2>2. s[1] = t[1]
    BY <1>1, <2>1
  <2> QED
    BY <1>1, <1>4, <1>5, <2>2 DEF s
<1>6. CASE a # <<>>
  <2>1. 1 \in 1 .. Len(a)
    BY <1>1, <1>2, <1>6
  <2>2. s[1] = a[1]
    BY <1>1, <2>1
  <2> QED
    BY <1>1, <1>4, <1>6, <2>2 DEF s
<1> QED
  BY <1>5, <1>6

IsHostName(n) == n \in Seq(NameSymbol) /\ n # <<>> /\ \A i \in 1 .. Len(n) : n[i] # "/"

\* The host and the port of a URL with a name or an IPv4 address.
LEMMA PlainHost ==
    ASSUME NEW n, IsHostName(n), \A i \in 1 .. Len(n) : n[i] # ":",
           NEW q, Number(q), NEW rest, After(rest), NEW proto \in {"udp", "tcp"}
    PROVE  LET text == n \o PortAnd(q, rest) IN
           /\ text \in Str
           /\ lo_url_get_hostname(OfScheme(proto, text)) = Given(n)
           /\ lo_url_get_port(OfScheme(proto, text)) = Given(q)
           /\ lo_url_get_hostname(Other(text)) = Given(n)
           /\ lo_url_get_port(Other(text)) = Given(q)
           /\ rest # <<>> => lo_url_get_path(Other(text)) = Given(rest)
<1> DEFINE tail == PortAnd(q, rest)
           text == n \o tail
           typed == OfScheme(proto, text)
           other == Other(text)
<1>1. /\ q \in Str /\ q \o rest \in Str /\ tail \in Str /\ tail # <<>> /\ tail[1] = ":"
      /\ Lit(Given(tail), <<":">>) = Given(q \o rest)
      /\ Take(Given(q \o rest), Digit) = Given(q)
      /\ Skip(Given(q \o rest), Digit) = Given(rest)
  BY PortAndIs
<1>2. /\ n \in Str /\ n # <<>> /\ Len(n) \in Nat
      /\ \A i \in 1 .. Len(n) : n[i] \in Symbol /\ n[i] \notin {"[", ":", "/"}
  <2>1. n \in Str /\ n # <<>> /\ Len(n) \in Nat /\ \A i \in 1 .. Len(n) : n[i] \in NameSymbol
    BY Words DEF IsHostName, Str
  <2>2. "[" \notin NameSymbol
    BY DEF NameSymbol, Digit
  <2> QED
    BY <2>1, <2>2, Words DEF IsHostName
<1> HIDE DEF tail
<1>3. /\ text \in Str /\ text # <<>> /\ text[1] = n[1]
  BY <1>1, <1>2, FirstSymbol
<1>4. \A i \in 1 .. Len(n) : n[i] \in Not({":"}) /\ n[i] \in Not({"[", ":", "/"})
  BY <1>2 DEF Not
<1>16. tail[1] \notin Not({":"}) /\ tail[1] \notin Not({"[", ":", "/"})
  BY <1>1 DEF Not
<1>5. /\ Skip(Given(text), Not({":"})) = Given(tail)
      /\ Take(Given(text), Not({"[", ":", "/"})) = Given(n)
  BY <1>1, <1>2, <1>4, <1>16, Spans
<1> HIDE DEF text
<1>6. BarePort(Given(text)) = Given(q)
  BY <1>1, <1>5 DEF BarePort
<1>7. PathAfterPort(Given(text)) = Take(Given(rest), Symbol)
  BY <1>1, <1>5 DEF PathAfterPort
<1>8. /\ OscSlashes(typed) = NoMatch /\ AnyScheme(typed) = Given(text)
      /\ Slashes(Skip(OscDot(typed), Not({":", "/"}))) = Given(text)
  BY <1>3, TypedIs
<1>9. OscSlashes(other) = Given(text)
  BY <1>3, OtherIs
<1> HIDE DEF typed, other
<1>10. Given(n).ret # 0 /\ Given(q).ret # 0 /\ Given(rest).ret # 0 /\ NoMatch.ret = 0
  BY DEF Given, NoMatch
<1>11. lo_url_get_hostname(typed) = Given(n)
  <2>1. Lit(Given(text), <<"[">>) = NoMatch
    <3>1. text[1] # <<"[">>[1] /\ <<"[">> \in Str /\ 1 \in 1 .. Len(<<"[">>) /\ 1 <= Len(text)
      <4>1. <<"[">> \in Str /\ Len(<<"[">>) = 1 /\ <<"[">>[1] = "["
        BY Words
      <4>2. Len(text) \in Nat /\ Len(text) # 0 /\ Len(n) # 0
        BY <1>2, <1>3 DEF Str
      <4> QED
        BY <1>2, <1>3, <4>1, <4>2
    <3> QED
      BY <1>3, <3>1, LitFails
  <2> DEFINE a == Take(OscSlashes(typed), Not({"[", ":", "/"}))
             b == Take(Lit(Given(text), <<"[">>), Not({"]", "/"}))
             c == Take(Given(text), Not({"[", ":", "/"}))
             results == <<a, b, c>>
  <2>2. a = NoMatch /\ b = NoMatch /\ c = Given(n)
    BY <1>5, <1>8, <2>1, NothingAfter
  <2>3. lo_url_get_hostname(typed) = FirstOf(results)
    BY <1>8 DEF lo_url_get_hostname
  <2> HIDE DEF a, b, c
  <2>4. Len(results) = 3 /\ results[1] = a /\ results[2] = b /\ results[3] = c
    OBVIOUS
  <2> HIDE DEF results
  <2>5. 3 \in 1 .. Len(results) /\ \A j \in 1 .. 3 - 1 : results[j].ret = 0
    BY <1>10, <2>2, <2>4
  <2>7. Len(results) \in Nat /\ results[3].ret # 0
    BY <1>10, <2>2, <2>4
  <2>6. FirstOf(results) = results[3]
    BY <2>5, <2>7, FirstOfIs
  <2> QED
    BY <2>2, <2>3, <2>4, <2>6
<1>12. lo_url_get_hostname(other) = Given(n)
  <2> DEFINE b == Take(Lit(Slashes(Skip(OscDot(other), Not({":", "/"}))), <<"[">>), Not({"]", "/"}))
             c == Take(Slashes(Skip(OscDot(other), Not({":", "/"}))), Not({"[", ":", "/"}))
             results == <<Given(n), b, c>>
  <2>1. lo_url_get_hostname(other) = FirstOf(results)
    BY <1>5, <1>9 DEF lo_url_get_hostname
  <2> HIDE DEF b, c
  <2>2. Len(results) = 3 /\ results[1] = Given(n) /\ 1 \in 1 .. 3 /\ \A j \in 1 .. 1 - 1 : results[j].ret = 0
    OBVIOUS
  <2> HIDE DEF results
  <2>3. FirstOf(results) = results[1]
    BY <1>10, <2>2, FirstOfIs
  <2> QED
    BY <2>1, <2>2, <2>3
<1>13. lo_url_get_port(typed) = Given(q)
  <2> DEFINE c == QuotedPort(OscSlashes(typed))
             d == QuotedPort(AnyScheme(typed))
             e == OnlyPort(OscSlashes(typed))
             f == OnlyPort(AnyScheme(typed))
             results == <<NoMatch, Given(q), c, d, e, f>>
  <2>1. lo_url_get_port(typed) = FirstOf(results)
    BY <1>6, <1>8, NothingAfter DEF lo_url_get_port
  <2> HIDE DEF c, d, e, f
  <2>2. Len(results) = 6 /\ results[1] = NoMatch /\ results[2] = Given(q)
    OBVIOUS
  <2> HIDE DEF results
  <2>3. 2 \in 1 .. Len(results) /\ \A j \in 1 .. 2 - 1 : results[j].ret = 0
    BY <1>10, <2>2
  <2>4. FirstOf(results) = results[2]
    BY <1>10, <2>2, <2>3, FirstOfIs
  <2> QED
    BY <2>1, <2>2, <2>4
<1>14. lo_url_get_port(other) = Given(q)
  <2> DEFINE b == BarePort(AnyScheme(other))
             c == QuotedPort(OscSlashes(other))
             d == QuotedPort(AnyScheme(other))
             e == OnlyPort(OscSlashes(other))
             f == OnlyPort(AnyScheme(other))
             results == <<Given(q), b, c, d, e, f>>
  <2>1. lo_url_get_port(other) = FirstOf(results)
    BY <1>6, <1>9 DEF lo_url_get_port
  <2> HIDE DEF b, c, d, e, f
  <2>2. Len(results) = 6 /\ results[1] = Given(q) /\ 1 \in 1 .. 6 /\ \A j \in 1 .. 1 - 1 : results[j].ret = 0
    OBVIOUS
  <2> HIDE DEF results
  <2>3. FirstOf(results) = results[1]
    BY <1>10, <2>2, FirstOfIs
  <2> QED
    BY <2>1, <2>2, <2>3
<1>15. ASSUME rest # <<>> PROVE lo_url_get_path(other) = Given(rest)
  <2>1. \A i \in 1 .. Len(rest) : rest[i] \in Symbol
    BY DEF After, Str
  <2>2. <<>> \in Str /\ rest \in Str
    BY DEF After, Str
  <2>3. rest \o <<>> = rest
    BY <2>2, ConcatEmptySeq DEF Str
  <2>4. Take(Given(rest \o <<>>), Symbol) = Given(rest)
    BY <1>15, <2>1, <2>2, Spans
  <2>5. PathAfterPort(OscSlashes(other)) = Given(rest)
    BY <1>7, <1>9, <2>3, <2>4
  <2> QED
    BY <1>10, <2>5 DEF lo_url_get_path
<1> QED
  BY <1>3, <1>11, <1>12, <1>13, <1>14, <1>15 DEF text, typed, other, tail

\* The name's colons are found by their first.
LEMMA NameSplits ==
    ASSUME NEW n \in Seq(NameSymbol)
    PROVE  LET i == SelectInSeq(n, LAMBDA c : c = ":") IN
           \/ i = 0 /\ \A j \in 1 .. Len(n) : n[j] # ":"
           \/ /\ i \in 1 .. Len(n) /\ n[i] = ":" /\ \A j \in 1 .. i - 1 : n[j] # ":"
<1> DEFINE I == {j \in 1 .. Len(n) : n[j] = ":"}
           i == SelectInSeq(n, LAMBDA c : c = ":")
<1>1. i = IF I # {} THEN Min(I) ELSE 0
  BY DEF SelectInSeq
<1>2. Len(n) \in Nat
  OBVIOUS
<1> HIDE DEF i
<1>3. CASE I = {}
  BY <1>1, <1>3 DEF i
<1>4. CASE I # {}
  <2>1. PICK k \in I : \A j \in I : k <= j
    <3>1. I \in SUBSET Nat
      OBVIOUS
    <3> HIDE DEF I
    <3> QED
      BY <1>4, <3>1, LeastNat
  <2>2. I \in SUBSET (1 .. Len(n))
    OBVIOUS
  <2>3. \A j \in 1 .. Len(n) : n[j] = ":" => j \in I
    OBVIOUS
  <2>6. \A j \in I : n[j] = ":"
    OBVIOUS
  <2> HIDE DEF I
  <2>4. Min(I) \in I /\ \A j \in I : Min(I) <= j
    BY <2>1 DEF Min
  <2>5. ASSUME NEW j \in 1 .. i - 1 PROVE n[j] # ":"
    <3>1. i \in I /\ \A l \in I : i <= l
      BY <1>1, <1>4, <2>4
    <3>2. j \in 1 .. Len(n) /\ ~(i <= j)
      BY <1>2, <2>2, <3>1
    <3> QED
      BY <2>3, <3>1, <3>2
  <2> QED
    BY <1>1, <1>4, <2>2, <2>4, <2>5, <2>6 DEF i
<1> QED
  BY <1>3, <1>4

\* What does not read as a port: nothing, or what does not begin with a digit.
NoDigit(c) == c = <<>> \/ c[1] \notin Digit

\* n is a, without a colon, and, if it has one, the colon and c.
Halves(n, a, b, c) ==
    /\ a \in Str /\ b \in Str /\ c \in Str /\ n = a \o b /\ \A i \in 1 .. Len(a) : a[i] # ":"
    /\ b = <<>> \/ b = <<":">> \o c

LEMMA NameHalves ==
    ASSUME NEW n \in Seq(NameSymbol),
           LET i == SelectInSeq(n, LAMBDA c : c = ":")
           IN  ~(i # 0 /\ i < Len(n) /\ n[i + 1] \in Digit)
    PROVE  \E a, b, c : /\ Halves(n, a, b, c) /\ NoDigit(c)
                        /\ Len(a) = 0 => n = <<>> \/ n[1] = ":"
                        /\ b = <<>> => \A j \in 1 .. Len(n) : n[j] # ":"
<1> DEFINE i == SelectInSeq(n, LAMBDA c : c = ":")
<1>1. /\ \/ i = 0 /\ \A j \in 1 .. Len(n) : n[j] # ":"
         \/ /\ i \in 1 .. Len(n) /\ n[i] = ":" /\ \A j \in 1 .. i - 1 : n[j] # ":"
      /\ ~(i # 0 /\ i < Len(n) /\ n[i + 1] \in Digit)
  BY NameSplits
<1>2. n \in Str /\ Len(n) \in Nat /\ \A j \in 1 .. Len(n) : n[j] \in Symbol
  BY Words DEF Str
<1> HIDE DEF i
<1>3. CASE i = 0
  <2>1. Len(n) = 0 => n = <<>>
    BY <1>2 DEF Str
  <2>2. <<>> \in Str /\ n \o <<>> = n
    BY <1>2, ConcatEmptySeq DEF Str
  <2>3. Halves(n, n, <<>>, <<>>)
    BY <1>1, <1>2, <1>3, <2>2 DEF Halves
  <2> QED
    BY <1>1, <1>3, <2>1, <2>3 DEF NoDigit
<1>4. CASE i # 0
  <2>1. i \in 1 .. Len(n) /\ n[i] = ":" /\ \A j \in 1 .. i - 1 : n[j] # ":"
    BY <1>1, <1>4
  <2> DEFINE a == SubSeq(n, 1, i - 1)
             b == SubSeq(n, i, Len(n))
             c == SubSeq(n, i + 1, Len(n))
  <2>2. /\ a \in Str /\ Len(a) = i - 1 /\ \A j \in 1 .. i - 1 : a[j] = n[j]
    <3>1. /\ 1 \in Int /\ i - 1 \in Int /\ (i - 1) - 1 + 1 = i - 1
          /\ \A j \in 1 .. i - 1 : 1 + j - 1 = j /\ n[j] \in Symbol
      BY <1>2, <2>1
    <3>2. /\ a \in Str /\ Len(a) = (IF 1 <= i - 1 THEN i - 1 ELSE 0)
          /\ \A j \in 1 .. i - 1 : a[j] = n[1 + j - 1]
      BY <3>1, SubSeqProperties DEF Str
    <3> HIDE DEF a
    <3> QED
      BY <1>2, <2>1, <3>1, <3>2
  <2>3. /\ c \in Str /\ (c # <<>> => i < Len(n) /\ c[1] = n[i + 1])
    <3>1. i + 1 \in Int /\ Len(n) \in Int /\ \A j \in i + 1 .. Len(n) : n[j] \in Symbol
      BY <1>2, <2>1
    <3>2. /\ c \in Str /\ Len(c) = (IF i + 1 <= Len(n) THEN Len(n) - (i + 1) + 1 ELSE 0)
          /\ \A j \in 1 .. Len(n) - (i + 1) + 1 : c[j] = n[(i + 1) + j - 1]
      BY <3>1, SubSeqProperties DEF Str
    <3> HIDE DEF c
    <3>3. ASSUME c # <<>> PROVE i < Len(n) /\ c[1] = n[i + 1]
      <4>1. Len(c) # 0
        BY <3>2, <3>3 DEF Str
      <4>2. i < Len(n) /\ 1 \in 1 .. Len(n) - (i + 1) + 1 /\ (i + 1) + 1 - 1 = i + 1
        BY <1>2, <2>1, <3>2, <4>1
      <4> QED
        BY <3>2, <4>2
    <3> QED
      BY <3>2, <3>3
  <2>4. b = <<":">> \o c
    <3>1. i \in 1 .. Len(n) /\ Len(n) \in i .. Len(n)
      BY <1>2, <2>1
    <3> QED
      BY <1>2, <2>1, <3>1, SubSeqRecursiveFirst DEF Str
  <2>5. b \in Str /\ b # <<>>
    <3>1. <<":">> \in Str /\ Len(<<":">>) = 1
      BY Words
    <3>2. b \in Str /\ Len(b) = 1 + Len(c) /\ Len(c) \in Nat
      BY <2>3, <2>4, <3>1, ConcatIs DEF Str
    <3> HIDE DEF b, c
    <3>3. Len(b) # 0
      BY <3>2
    <3> QED
      BY <3>2, <3>3
  <2>6. n = a \o b
    <3>1. 1 \in 1 .. Len(n) + 1 /\ i - 1 \in 1 - 1 .. Len(n) /\ Len(n) \in i - 1 .. Len(n) /\ (i - 1) + 1 = i
      BY <1>2, <2>1
    <3>2. SubSeq(n, 1, i - 1) \o SubSeq(n, (i - 1) + 1, Len(n)) = SubSeq(n, 1, Len(n))
      BY <1>2, <3>1, ConcatAdjacentSubSeq DEF Str
    <3>3. SubSeq(n, 1, Len(n)) = n
      BY <1>2, SubSeqFull DEF Str
    <3> QED
      BY <3>1, <3>2, <3>3
  <2> HIDE DEF a, b, c
  <2>7. Halves(n, a, b, c)
    BY <2>1, <2>2, <2>3, <2>4, <2>5, <2>6 DEF Halves
  <2>8. NoDigit(c)
    BY <1>1, <1>4, <2>3 DEF NoDigit
  <2>9. Len(a) = 0 => n[1] = ":"
    <3>1. Len(a) = 0 => i = 1
      BY <1>2, <2>1, <2>2
    <3> QED
      BY <2>1, <3>1
  <2> QED
    BY <2>5, <2>7, <2>8, <2>9
<1> QED
  BY <1>3, <1>4

\* The host and the port of a URL with an IPv6 address.
LEMMA QuotedHost ==
    ASSUME NEW n, IsHostName(n), NEW a, NEW b, NEW c, Halves(n, a, b, c), b # <<>>, NoDigit(c),
           NEW q, Number(q), NEW rest, After(rest), NEW proto \in {"udp", "tcp"}
    PROVE  LET text == <<"[">> \o (n \o (<<"]">> \o PortAnd(q, rest))) IN
           /\ text \in Str
           /\ lo_url_get_hostname(OfScheme(proto, text)) = Given(n)
           /\ lo_url_get_port(OfScheme(proto, text)) = Given(q)
<1> DEFINE tail == PortAnd(q, rest)
           close == <<"]">> \o tail
           inner == n \o close
           text == <<"[">> \o inner
           typed == OfScheme(proto, text)
<1>1. /\ q \in Str /\ q \o rest \in Str /\ tail \in Str /\ tail # <<>> /\ tail[1] = ":"
      /\ tail = <<":">> \o (q \o rest)
      /\ Take(Given(q \o rest), Digit) = Given(q)
  BY PortAndIs DEF PortAnd
<1>2. /\ n \in Str /\ n # <<>> /\ Len(n) \in Nat
      /\ \A i \in 1 .. Len(n) : n[i] \in Symbol /\ n[i] \notin {"]", "/"}
  <2>1. n \in Str /\ n # <<>> /\ Len(n) \in Nat /\ \A i \in 1 .. Len(n) : n[i] \in NameSymbol
    BY Words DEF IsHostName, Str
  <2>2. "]" \notin NameSymbol
    BY DEF NameSymbol, Digit
  <2> QED
    BY <2>1, <2>2, Words DEF IsHostName
<1>3. /\ <<"[">> \in Str /\ <<"[">> # <<>> /\ Len(<<"[">>) = 1 /\ <<"[">>[1] = "["
      /\ <<"]">> \in Str /\ <<"]">> # <<>> /\ <<"]">>[1] = "]" /\ <<":">> \in Str
      /\ <<"]", ":">> \in Str /\ <<":">> # <<>> /\ <<":">>[1] = ":"
  BY Words DEF Str
<1> HIDE DEF tail
<1>4. close \in Str /\ close # <<>> /\ close[1] = "]"
  <2>1. PICK x \in Str : x = <<"]">> /\ x # <<>> /\ x[1] = "]"
    BY <1>3
  <2>2. x \o tail \in Str /\ x \o tail # <<>> /\ (x \o tail)[1] = "]"
    BY <1>1, <2>1, FirstSymbol
  <2> QED
    BY <2>1, <2>2, Zenon
<1>5. close = <<"]", ":">> \o (q \o rest)
  <2>1. <<"]">> \o <<":">> = <<"]", ":">>
    <3>1. PICK x \in Symbol : x = "]"
      BY Words
    <3>2. PICK y \in Symbol : y = ":"
      BY Words
    <3>3. <<x>> \o <<y>> = <<x, y>>
      BY PiecesOne
    <3> QED
      BY <3>1, <3>2, <3>3, Zenon
  <2>2. (<<"]">> \o <<":">>) \o (q \o rest) = <<"]">> \o (<<":">> \o (q \o rest))
    BY <1>1, <1>3, ConcatAssociative DEF Str
  <2> QED
    BY <1>1, <2>1, <2>2
<1> HIDE DEF close
<1>6. inner \in Str /\ inner # <<>>
  BY <1>2, <1>4, FirstSymbol
<1>7. text \in Str /\ text # <<>> /\ text[1] = "["
  BY <1>3, <1>6, FirstSymbol
<1>8. Lit(Given(text), <<"[">>) = Given(inner)
  BY <1>3, <1>6, LitIs
<1>9. /\ Take(Given(inner), Not({"]", "/"})) = Given(n)
      /\ Skip(Given(inner), Not({"]"})) = Given(close)
  <2>1. \A i \in 1 .. Len(n) : n[i] \in Not({"]", "/"}) /\ n[i] \in Not({"]"})
    BY <1>2 DEF Not
  <2>2. close[1] \notin Not({"]", "/"}) /\ close[1] \notin Not({"]"})
    BY <1>4 DEF Not
  <2> QED
    BY <1>2, <1>4, <2>1, <2>2, Spans
<1>10. QuotedPort(Given(text)) = Given(q)
  <2>1. Lit(Given(close), <<"]", ":">>) = Given(q \o rest)
    BY <1>1, <1>3, <1>5, LitIs
  <2> QED
    BY <1>1, <1>8, <1>9, <2>1 DEF QuotedPort
\* Up to the first colon, and then no digit.
<1>11. BarePort(Given(text)) = NoMatch
  <2> DEFINE w == c \o close
             v == <<":">> \o w
             h == <<"[">> \o a
  <2>1. /\ a \in Str /\ b \in Str /\ c \in Str /\ n = a \o b /\ b = <<":">> \o c
        /\ \A i \in 1 .. Len(a) : a[i] # ":"
    BY DEF Halves
  <2>2. w \in Str /\ w # <<>> /\ w[1] \notin Digit
    <3>1. "]" \notin Digit
      BY DEF Digit
    <3> QED
      <4>1. /\ c \o close \in Str /\ c \o close # <<>>
            /\ (c \o close)[1] = IF c = <<>> THEN close[1] ELSE c[1]
        BY <1>4, <2>1, FirstSymbol
      <4>2. c = <<>> \/ c[1] \notin Digit
        BY Zenon DEF NoDigit
      <4> QED
        BY <1>4, <3>1, <4>1, <4>2
  <2>3. inner = a \o v
    <3>1. (a \o b) \o close = a \o (b \o close)
      <4>1. Associates(a, b, close)
        <5>1. b \in Str
          BY <2>1
        <5> QED
          BY <1>4, <2>1, <5>1, AnyAssociates DEF Str
      <4> QED
        BY <4>1, Zenon DEF Associates
    <3>2. (<<":">> \o c) \o close = <<":">> \o (c \o close)
      BY <1>3, <1>4, <2>1, ConcatAssociative DEF Str
    <3> QED
      BY <2>1, <3>1, <3>2
  <2> HIDE DEF w
  <2>4. v \in Str /\ v # <<>> /\ v[1] = ":"
    BY <1>3, <2>2, FirstSymbol
  <2>5. Lit(Given(v), <<":">>) = Given(w)
    BY <1>3, <2>2, LitIs
  <2> HIDE DEF v
  <2>6. text = h \o v
    <3>1. PICK x \in Str : x = <<"[">>
      BY <1>3
    <3>2. (x \o a) \o v = x \o (a \o v)
      BY <2>1, <2>4, <3>1, ConcatAssociative DEF Str
    <3> QED
      BY <2>3, <3>1, <3>2, Zenon DEF text
  <2>7. h \in Str /\ h # <<>> /\ \A i \in 1 .. Len(h) : h[i] \in Not({":"})
    <3>1. /\ h \in Str /\ Len(h) = 1 + Len(a) /\ Len(a) \in Nat
          /\ \A i \in 1 .. 1 : h[i] = <<"[">>[i]
          /\ \A i \in 1 .. Len(a) : h[1 + i] = a[i]
      BY <1>3, <2>1, ConcatIs DEF Str
    <3> HIDE DEF h
    <3>2. Len(h) # 0
      BY <3>1
    <3>3. ASSUME NEW i \in 1 .. Len(h) PROVE h[i] \in Not({":"})
      <4>1. i = 1 \/ (i - 1 \in 1 .. Len(a) /\ 1 + (i - 1) = i)
        BY <3>1
      <4>2. h[1] = "[" /\ h[1] \in Symbol
        BY <1>3, <3>1, Words
      <4>3. i # 1 => h[i] = a[i - 1] /\ a[i - 1] # ":" /\ a[i - 1] \in Symbol
        BY <2>1, <3>1, <4>1 DEF Str
      <4> QED
        BY <4>1, <4>2, <4>3 DEF Not
    <3> QED
      BY <3>1, <3>2, <3>3
  <2> HIDE DEF h, text
  <2>8. v[1] \notin Not({":"})
    BY <2>4 DEF Not
  <2>9. Skip(Given(text), Not({":"})) = Given(v)
    BY <2>4, <2>6, <2>7, <2>8, Spans
  <2>10. Take(Given(w), Digit) = NoMatch
    BY <2>2, SomeFails
  <2> QED
    BY <2>5, <2>9, <2>10 DEF BarePort
<1> HIDE DEF text, inner
<1>12. /\ OscSlashes(typed) = NoMatch /\ AnyScheme(typed) = Given(text)
       /\ Slashes(Skip(OscDot(typed), Not({":", "/"}))) = Given(text)
  BY <1>7, TypedIs
<1> HIDE DEF typed
<1>13. Given(n).ret # 0 /\ Given(q).ret # 0 /\ NoMatch.ret = 0
  BY DEF Given, NoMatch
<1>14. lo_url_get_hostname(typed) = Given(n)
  <2> DEFINE z == Take(Given(text), Not({"[", ":", "/"}))
             results == <<NoMatch, Given(n), z>>
  <2>1. lo_url_get_hostname(typed) = FirstOf(results)
    BY <1>8, <1>9, <1>12, NothingAfter DEF lo_url_get_hostname
  <2> HIDE DEF z
  <2>2. Len(results) = 3 /\ results[1] = NoMatch /\ results[2] = Given(n)
    OBVIOUS
  <2> HIDE DEF results
  <2>3. 2 \in 1 .. Len(results) /\ \A j \in 1 .. 2 - 1 : results[j].ret = 0
    BY <1>13, <2>2
  <2>4. FirstOf(results) = results[2]
    BY <1>13, <2>2, <2>3, FirstOfIs
  <2> QED
    BY <2>1, <2>2, <2>4
<1>15. lo_url_get_port(typed) = Given(q)
  <2> DEFINE e == OnlyPort(OscSlashes(typed))
             f == OnlyPort(AnyScheme(typed))
             results == <<NoMatch, NoMatch, NoMatch, Given(q), e, f>>
  <2>1. lo_url_get_port(typed) = FirstOf(results)
    BY <1>10, <1>11, <1>12, NothingAfter DEF lo_url_get_port
  <2> HIDE DEF e, f
  <2>2. /\ Len(results) = 6 /\ results[1] = NoMatch /\ results[2] = NoMatch /\ results[3] = NoMatch
        /\ results[4] = Given(q)
    OBVIOUS
  <2> HIDE DEF results
  <2>3. 4 \in 1 .. Len(results) /\ \A j \in 1 .. 4 - 1 : results[j].ret = 0
    <3>1. \A j \in 1 .. 4 - 1 : j = 1 \/ j = 2 \/ j = 3
      OBVIOUS
    <3> QED
      BY <1>13, <2>2, <3>1
  <2>5. Len(results) \in Nat /\ results[4].ret # 0
    BY <1>13, <2>2
  <2>4. FirstOf(results) = results[4]
    BY <2>3, <2>5, FirstOfIs
  <2> QED
    BY <2>1, <2>2, <2>4
<1> QED
  BY <1>7, <1>14, <1>15 DEF text, typed, inner, close, tail

-----------------------------------------------------------------------------
(* A host's URL, built by an address or by a server. *)

Chained(x, y, z, xy, yz) == xy \o z = x \o yz

LEMMA ConcatThree ==
    ASSUME NEW x \in Str, NEW y \in Str, NEW z \in Str,
           NEW xy, xy = x \o y, NEW yz, yz = y \o z
    PROVE  Chained(x, y, z, xy, yz)
<1>1. (x \o y) \o z = x \o (y \o z)
  BY ConcatAssociative DEF Str
<1> QED
  BY <1>1, Zenon DEF Chained

\* The scheme, a host, a colon, a port and what follows it, in the order they are joined.
Joined(w, h, q, rest) == (w \o h \o <<":">> \o q) \o rest
HostPart(w, h, q, rest) == w \o (h \o PortAnd(q, rest))

LEMMA UrlJoined ==
    ASSUME NEW w \in Str, NEW h \in Str, NEW q \in Str, NEW rest \in Str
    PROVE  Joined(w, h, q, rest) = HostPart(w, h, q, rest)
<1>1. PICK c \in Str : c = <<":">>
  BY Words
<1>2. \A x, y \in Str : x \o y \in Str
  BY ConcatIs DEF Str
<1>3. PICK wh \in Str : wh = w \o h
  BY <1>2
<1>4. PICK whc \in Str : whc = wh \o c
  BY <1>2
<1>5. PICK whcq \in Str : whcq = whc \o q
  BY <1>2
<1>6. PICK r \in Str : r = q \o rest
  BY <1>2
<1>7. PICK v \in Str : v = c \o r
  BY <1>2
<1>8. PICK hv : hv = h \o v
  OBVIOUS
<1>9. whcq \o rest = whc \o r
  <2>1. Chained(whc, q, rest, whcq, r)
    BY <1>5, <1>6, ConcatThree
  <2> QED
    BY <2>1, Zenon DEF Chained
<1>10. whc \o r = wh \o v
  <2>1. Chained(wh, c, r, whc, v)
    BY <1>4, <1>7, ConcatThree
  <2> QED
    BY <2>1, Zenon DEF Chained
<1>11. wh \o v = w \o hv
  <2>1. Chained(w, h, v, wh, hv)
    BY <1>3, <1>8, ConcatThree
  <2> QED
    BY <2>1, Zenon DEF Chained
<1>12. whcq \o rest = w \o hv
  BY <1>9, <1>10, <1>11, Zenon
<1>13. Joined(w, h, q, rest) = whcq \o rest
  BY <1>1, <1>3, <1>4, <1>5, Zenon DEF Joined
<1>14. HostPart(w, h, q, rest) = w \o hv
  BY <1>1, <1>6, <1>7, <1>8, Zenon DEF HostPart, PortAnd
<1> QED
  BY <1>12, <1>13, <1>14, Zenon

\* The slash at the end, and symbols before it, cut.
WithSlash(u, q) == Append(u \o q, "/")
Shorter(q, cut) == SubSeq(q, 1, Len(q) - cut)

LEMMA CutEnd ==
    ASSUME NEW u \in Str, NEW q \in Str, NEW cut \in 0 .. Len(q) - 1
    PROVE  /\ WithSlash(u, q) \in Str
           /\ SubSeq(WithSlash(u, q), 1, (Len(WithSlash(u, q)) - 1) - cut) = u \o Shorter(q, cut)
           /\ Shorter(q, cut) \in Str /\ Shorter(q, cut) # <<>>
           /\ Len(Shorter(q, cut)) = Len(q) - cut
           /\ \A i \in 1 .. Len(Shorter(q, cut)) : Shorter(q, cut)[i] = q[i]
<1> DEFINE b == u \o q
           url == WithSlash(u, q)
           kept == Shorter(q, cut)
           k == (Len(url) - 1) - cut
           v == SubSeq(url, 1, k)
<1>1. /\ b \in Str /\ Len(b) = Len(u) + Len(q) /\ Len(u) \in Nat /\ Len(q) \in Nat
      /\ \A i \in 1 .. Len(u) : b[i] = u[i]
      /\ \A i \in 1 .. Len(q) : b[Len(u) + i] = q[i]
  BY ConcatIs DEF Str
<1> HIDE DEF b
<1>2. /\ url \in Str /\ Len(url) = Len(b) + 1 /\ \A i \in 1 .. Len(b) : url[i] = b[i]
  <2>1. b \in Seq(Symbol) /\ url = Append(b, "/") /\ "/" \in Symbol
    BY <1>1, Words DEF Str, b, WithSlash
  <2> HIDE DEF url
  <2> QED
    BY <2>1, AppendProperties DEF Str
<1> HIDE DEF url
<1>3. k = Len(u) + (Len(q) - cut) /\ k \in 1 .. Len(b) /\ Len(q) - cut \in 1 .. Len(q)
  BY <1>1, <1>2
<1> HIDE DEF k
<1>4. /\ kept \in Str /\ Len(kept) = Len(q) - cut /\ \A i \in 1 .. Len(kept) : kept[i] = q[i]
  <2>1. /\ kept \in Str /\ Len(kept) = (IF 1 <= Len(q) - cut THEN Len(q) - cut - 1 + 1 ELSE 0)
        /\ \A i \in 1 .. Len(q) - cut - 1 + 1 : kept[i] = q[1 + i - 1]
    <3>1. \A i \in 1 .. Len(q) - cut : q[i] \in Symbol
      BY <1>1 DEF Str
    <3>2. Len(q) - cut \in Int
      BY <1>3
    <3> QED
      BY <3>1, <3>2, SubSeqProperties DEF Str, Shorter
  <2> HIDE DEF kept
  <2>2. Len(kept) = Len(q) - cut /\ \A i \in 1 .. Len(kept) : i \in 1 .. Len(q) - cut - 1 + 1 /\ 1 + i - 1 = i
    BY <1>3, <2>1
  <2> QED
    BY <2>1, <2>2
<1>5. /\ v \in Str /\ Len(v) = k /\ \A i \in 1 .. k : v[i] = b[i]
  <2>1. \A i \in 1 .. k : url[i] \in Symbol /\ url[i] = b[i]
    BY <1>1, <1>2, <1>3 DEF Str
  <2>2. /\ v \in Str /\ Len(v) = (IF 1 <= k THEN k - 1 + 1 ELSE 0)
        /\ \A i \in 1 .. k - 1 + 1 : v[i] = url[1 + i - 1]
    <3>1. k \in Int
      BY <1>1, <1>3
    <3> QED
      BY <2>1, <3>1, SubSeqProperties DEF Str
  <2> HIDE DEF v
  <2>3. Len(v) = k /\ \A i \in 1 .. k : i \in 1 .. k - 1 + 1 /\ 1 + i - 1 = i
    BY <1>1, <1>3, <2>2
  <2> QED
    BY <2>1, <2>2, <2>3
<1> HIDE DEF kept, v
<1>6. v = u \o kept
  <2>1. Len(v) = Len(u) + Len(kept)
    BY <1>3, <1>4, <1>5
  <2>2. \A i \in 1 .. Len(u) : v[i] = u[i]
    BY <1>1, <1>3, <1>5
  <2>3. \A i \in 1 .. Len(kept) : v[Len(u) + i] = kept[i]
    <3>1. \A i \in 1 .. Len(kept) : i \in 1 .. Len(q) /\ Len(u) + i \in 1 .. k
      BY <1>1, <1>3, <1>4
    <3> QED
      BY <1>1, <1>4, <1>5, <3>1
  <2> QED
    BY <1>4, <1>5, <2>1, <2>2, <2>3, ConcatEqual DEF Str
<1>7. kept # <<>>
  <2>1. Len(kept) # 0
    BY <1>3, <1>4
  <2> QED
    BY <2>1
<1> QED
  BY <1>2, <1>4, <1>6, <1>7 DEF v, k, url, kept

\* What an address puts between the scheme and the port.
HostText(n) == IF Has(n, ":") THEN <<"[">> \o n \o <<"]">> ELSE n

\* No digit follows the first colon of a name.
ColonSafe(n) ==
    LET i == SelectInSeq(n, LAMBDA c : c = ":")
    IN  ~(i # 0 /\ i < Len(n) /\ n[i + 1] \in Digit)

LEMMA HostTextJoined ==
    ASSUME NEW n \in Str, NEW p \in Str
    PROVE  (<<"[">> \o n \o <<"]">>) \o p = <<"[">> \o (n \o (<<"]">> \o p))
<1>0. \A u, v \in Str : u \o v \in Str
  BY ConcatIs DEF Str
<1>1. PICK x \in Str : x = <<"[">>
  BY Words
<1>2. PICK y \in Str : y = <<"]">>
  BY Words
<1>3. PICK xn \in Str : xn = x \o n
  BY <1>0, <1>1
<1>4. PICK yp \in Str : yp = y \o p
  BY <1>0, <1>2
<1>5. PICK xny : xny = xn \o y
  OBVIOUS
<1>6. PICK nyp : nyp = n \o yp
  OBVIOUS
<1>7. xny \o p = xn \o yp
  <2>1. Chained(xn, y, p, xny, yp)
    BY <1>4, <1>5, ConcatThree
  <2> QED
    BY <2>1, Zenon DEF Chained
<1>8. xn \o yp = x \o nyp
  <2>1. Chained(x, n, yp, xn, nyp)
    BY <1>3, <1>6, ConcatThree
  <2> QED
    BY <2>1, Zenon DEF Chained
<1> QED
  BY <1>1, <1>2, <1>3, <1>4, <1>5, <1>6, <1>7, <1>8, Zenon

LEMMA HostIs ==
    ASSUME NEW n, IsHostName(n), ColonSafe(n), NEW q, Number(q), NEW rest, After(rest),
           NEW proto \in {"udp", "tcp"}
    PROVE  LET url == OfScheme(proto, HostText(n) \o PortAnd(q, rest)) IN
           /\ HostText(n) \in Str
           /\ lo_address_new_from_url(url) = [proto |-> proto, host |-> Given(n), port |-> Given(q)]
           /\ lo_url_get_hostname(url) = Given(n)
           /\ lo_url_get_protocol_id(url) = proto
           /\ lo_url_get_protocol(url) = Given(<<proto>>)
<1> DEFINE p == PortAnd(q, rest)
           text == HostText(n) \o p
           url == OfScheme(proto, text)
<1>1. p \in Str
  BY PortAndIs
<1>2. n \in Seq(NameSymbol) /\ n \in Str
  BY Words DEF IsHostName, Str
<1>3. DOMAIN n = 1 .. Len(n)
  BY <1>2 DEF Str
<1>4. /\ HostText(n) \in Str /\ text \in Str
      /\ lo_url_get_hostname(url) = Given(n) /\ lo_url_get_port(url) = Given(q)
  <2>1. CASE Has(n, ":")
    <3>1. PICK a, b, c : /\ Halves(n, a, b, c) /\ NoDigit(c)
                         /\ Len(a) = 0 => n = <<>> \/ n[1] = ":"
                         /\ b = <<>> => \A j \in 1 .. Len(n) : n[j] # ":"
      BY <1>2, NameHalves DEF ColonSafe
    <3>2. b # <<>>
      BY <1>3, <2>1, <3>1 DEF Has
    <3> DEFINE other == <<"[">> \o (n \o (<<"]">> \o p))
    <3>3. /\ other \in Str /\ lo_url_get_hostname(OfScheme(proto, other)) = Given(n)
          /\ lo_url_get_port(OfScheme(proto, other)) = Given(q)
      BY <3>1, <3>2, QuotedHost
    <3>4. HostText(n) = <<"[">> \o n \o <<"]">>
      BY <2>1 DEF HostText
    <3>5. text = other
      <4>1. (<<"[">> \o n \o <<"]">>) \o p = other
        BY <1>1, <1>2, HostTextJoined
      <4> QED
        BY <3>4, <4>1, Zenon
    <3>6. HostText(n) \in Str
      <4>1. \A u, v \in Str : u \o v \in Str
        BY ConcatIs DEF Str
      <4>2. <<"[">> \in Str /\ <<"]">> \in Str
        BY Words
      <4>3. <<"[">> \o n \in Str
        BY <1>2, <4>1, <4>2
      <4> QED
        BY <3>4, <4>1, <4>2, <4>3
    <3> QED
      BY <3>3, <3>5, <3>6, Zenon
  <2>2. CASE ~Has(n, ":")
    <3>1. HostText(n) = n
      BY <2>2 DEF HostText
    <3>2. \A i \in 1 .. Len(n) : n[i] # ":"
      BY <1>3, <2>2 DEF Has
    <3>3. /\ n \o p \in Str /\ lo_url_get_hostname(OfScheme(proto, n \o p)) = Given(n)
          /\ lo_url_get_port(OfScheme(proto, n \o p)) = Given(q)
      BY <3>2, PlainHost
    <3> QED
      BY <1>2, <3>1, <3>3, Zenon
  <2> QED
    BY <2>1, <2>2
<1> HIDE DEF text
<1>5. lo_url_get_protocol_id(url) = proto /\ lo_url_get_protocol(url) = Given(<<proto>>)
  BY <1>4, TypedIs
<1> HIDE DEF url
<1>6. lo_address_new_from_url(url) = [proto |-> proto, host |-> Given(n), port |-> Given(q)]
  <2>1. proto # "unix" /\ Given(n).ret # 0
    BY DEF Given
  <2>2. lo_address_new_from_url(url) = lo_address_new_with_proto(proto, Given(n), Given(q))
    BY <1>4, <1>5, <2>1 DEF lo_address_new_from_url
  <2> QED
    BY <2>1, <2>2 DEF lo_address_new_with_proto
<1> QED
  BY <1>4, <1>5, <1>6 DEF url, text

\* What an address and a server write, with the host's part and the port as they are.
LEMMA HostUrlJoined ==
    ASSUME NEW proto \in {"udp", "tcp"}, NEW h \in Str, NEW q \in Str, NEW rest \in Str
    PROVE  /\ (<<"osc", ".", proto, ":", "/", "/">> \o h \o <<":">> \o q) \o rest
                  = OfScheme(proto, h \o PortAnd(q, rest))
           /\ (<<"osc", ":", "/", "/">> \o h \o <<":">> \o q) \o rest
                  = Other(h \o PortAnd(q, rest))
<1>1. <<"osc", ".", proto, ":", "/", "/">> \in Str /\ <<"osc", ":", "/", "/">> \in Str
  <2>1. proto \in Symbol
    BY Words
  <2> QED
    BY <2>1, Words DEF Str
<1>2. \A x \in Str : Joined(x, h, q, rest) = HostPart(x, h, q, rest)
  BY UrlJoined
<1>3. Joined(<<"osc", ".", proto, ":", "/", "/">>, h, q, rest)
         = HostPart(<<"osc", ".", proto, ":", "/", "/">>, h, q, rest)
  BY <1>1, <1>2
<1>4. Joined(<<"osc", ":", "/", "/">>, h, q, rest) = HostPart(<<"osc", ":", "/", "/">>, h, q, rest)
  BY <1>1, <1>2
<1> QED
  BY <1>3, <1>4, Zenon DEF Joined, HostPart, OfScheme, Other

LEMMA HostReads ==
    ASSUME name \in Seq(NameSymbol), IsHost, ~DigitAfter(FirstColon)
    PROVE  HostReadsBack
<1>1. IsHostName(name) /\ ColonSafe(name) /\ DOMAIN name = 1 .. Len(name) /\ name \in Str
  BY Words DEF IsHost, Has, IsHostName, ColonSafe, DigitAfter, FirstColon, Str
<1> SUFFICES ASSUME NEW proto \in {"udp", "tcp"}, NEW port \in Ports, NEW rest \in Rests
             PROVE  LET a == lo_address_new_with_proto(proto, Given(name), Given(port))
                        url == lo_address_get_url(a)
                        end == Len(url) - 1
                        other == <<"osc", ":", "/", "/">> \o name \o <<":">> \o port \o rest
                    IN  /\ \A cut \in 0..Len(port) - 1 :
                              lo_address_new_from_url(SubSeq(url, 1, end - cut))
                                 = [a EXCEPT !.port = Given(SubSeq(port, 1, Len(port) - cut))]
                        /\ lo_address_new_from_url(SubSeq(url, 1, end) \o rest) = a
                        /\ lo_url_get_protocol(url) = Given(<<lo_url_get_protocol_id(url)>>)
                        /\ FirstColon = 0 =>
                              /\ lo_address_new_from_url(lo_server_get_url(proto, name, port)) = a
                              /\ lo_server_new_from_url(url).group = a.host
                              /\ proto = "udp" => lo_address_new_from_url(other) = a
                              /\ rest # <<>> /\ Last(rest) # "/" => lo_url_get_path(other) = Given(rest)
  BY DEF HostReadsBack
<1> DEFINE w == <<"osc", ".", proto, ":", "/", "/">>
           h == HostText(name)
           u == w \o h \o <<":">>
           base == u \o port
           a == lo_address_new_with_proto(proto, Given(name), Given(port))
           url == lo_address_get_url(a)
           other == <<"osc", ":", "/", "/">> \o name \o <<":">> \o port \o rest
<1>2. Number(port) /\ After(rest) /\ port \in Str /\ rest \in Str
  BY TextAssumption, Words DEF Number, After, Str
<1>3. After(<<>>) /\ After(<<"/">>) /\ "/" \in Symbol /\ <<>> \in Str /\ <<"/">> \in Str
  <2>1. <<>> \in Str
    BY DEF Str
  <2>2. "/" \notin Digit
    BY DEF Digit
  <2> QED
    BY <2>1, <2>2, Words DEF After
<1>4. a = [proto |-> proto, host |-> Given(name), port |-> Given(port)]
  <2>1. proto # "unix" /\ Given(name).ret # 0
    BY DEF Given
  <2> QED
    BY <2>1 DEF lo_address_new_with_proto
<1>5. url = Append(base, "/")
  <2>1. a.proto = proto /\ proto # "unix" /\ a.host.text = name /\ a.port.text = port
    BY <1>4 DEF Given
  <2> HIDE DEF a
  <2> QED
    BY <2>1, Zenon DEF lo_address_get_url, HostText
<1> HIDE DEF a, url
<1>6. h \in Str
  BY <1>1, <1>2, HostIs
<1>7. \A q, t \in Str : (u \o q) \o t = OfScheme(proto, h \o PortAnd(q, t))
  <2> TAKE q, t \in Str
  <2> QED
    BY <1>6, HostUrlJoined
<1>8. u \in Str /\ base \in Str
  <2>1. \A x, y \in Str : x \o y \in Str
    BY ConcatIs DEF Str
  <2>2. w \in Str /\ <<":">> \in Str
    <3>1. proto \in Symbol
      BY Words
    <3> QED
      BY <3>1, Words DEF Str
  <2> HIDE DEF w, h
  <2>3. u \in Str
    BY <1>6, <2>1, <2>2
  <2> HIDE DEF u
  <2> QED
    BY <1>2, <2>1, <2>3
<1> HIDE DEF h, u
<1>9. \A q \in Str : u \o q = OfScheme(proto, h \o PortAnd(q, <<>>))
  <2> TAKE q \in Str
  <2>1. PICK x \in Str : x = u \o q
    BY <1>8, ConcatIs DEF Str
  <2>2. x \o <<>> = x
    BY ConcatEmptySeq DEF Str
  <2>3. (u \o q) \o <<>> = OfScheme(proto, h \o PortAnd(q, <<>>))
    BY <1>3, <1>7
  <2> QED
    BY <2>1, <2>2, <2>3, Zenon
<1>10. url = OfScheme(proto, h \o PortAnd(port, <<"/">>))
  <2>1. Append(base, "/") = base \o <<"/">>
    BY <1>3, <1>8, AppendIsConcat DEF Str
  <2>2. (u \o port) \o <<"/">> = OfScheme(proto, h \o PortAnd(port, <<"/">>))
    BY <1>2, <1>3, <1>7
  <2> QED
    BY <1>5, <2>1, <2>2, Zenon
<1>11. \A q, t : Number(q) /\ After(t) =>
          /\ lo_address_new_from_url(OfScheme(proto, h \o PortAnd(q, t)))
                = [proto |-> proto, host |-> Given(name), port |-> Given(q)]
          /\ lo_url_get_hostname(OfScheme(proto, h \o PortAnd(q, t))) = Given(name)
          /\ lo_url_get_protocol_id(OfScheme(proto, h \o PortAnd(q, t))) = proto
          /\ lo_url_get_protocol(OfScheme(proto, h \o PortAnd(q, t))) = Given(<<proto>>)
  BY <1>1, HostIs DEF h
<1>12. url = WithSlash(u, port)
  BY <1>5, Zenon DEF WithSlash
<1>13. ASSUME NEW cut \in 0 .. Len(port) - 1
       PROVE  /\ SubSeq(url, 1, (Len(url) - 1) - cut) = u \o Shorter(port, cut)
              /\ lo_address_new_from_url(SubSeq(url, 1, (Len(url) - 1) - cut))
                    = [a EXCEPT !.port = Given(Shorter(port, cut))]
  <2> DEFINE q == Shorter(port, cut)
  <2>1. /\ SubSeq(url, 1, (Len(url) - 1) - cut) = u \o q
        /\ q \in Str /\ q # <<>> /\ Len(q) = Len(port) - cut
        /\ \A i \in 1 .. Len(q) : q[i] = port[i]
    <3> HIDE DEF base, u
    <3> QED
      BY <1>2, <1>8, <1>12, CutEnd
  <2> HIDE DEF q
  <2>2. Number(q)
    <3>1. Len(port) \in Nat /\ Len(q) \in Nat /\ \A i \in 1 .. Len(port) : port[i] \in Digit
      BY <1>2, <2>1 DEF Number, Str
    <3>2. \A i \in 1 .. Len(q) : q[i] \in Digit
      BY <2>1, <3>1
    <3>3. q \in Seq(Digit)
      BY <2>1, <3>2, SeqDef DEF Str
    <3> QED
      BY <2>1, <3>3 DEF Number
  <2>3. SubSeq(url, 1, (Len(url) - 1) - cut) = OfScheme(proto, h \o PortAnd(q, <<>>))
    <3>1. u \o q = OfScheme(proto, h \o PortAnd(q, <<>>))
      BY <1>9, <2>1
    <3> QED
      BY <2>1, <3>1, Zenon
  <2>4. lo_address_new_from_url(OfScheme(proto, h \o PortAnd(q, <<>>)))
           = [proto |-> proto, host |-> Given(name), port |-> Given(q)]
    BY <1>3, <1>11, <2>2
  <2>5. [a EXCEPT !.port = Given(q)] = [proto |-> proto, host |-> Given(name), port |-> Given(q)]
    BY <1>4
  <2> QED
    BY <2>1, <2>3, <2>4, <2>5, Zenon DEF q
<1>14. SubSeq(url, 1, Len(url) - 1) = u \o port
  <2>1. Len(port) \in Nat /\ Len(port) # 0 /\ SubSeq(port, 1, Len(port)) = port
    BY <1>2, SubSeqFull DEF Number, Str
  <2>2. 0 \in 0 .. Len(port) - 1 /\ Len(port) - 0 = Len(port)
    BY <2>1
  <2>3. Shorter(port, 0) = port
    BY <2>1, <2>2, Zenon DEF Shorter
  <2>4. url \in Str
    BY <1>2, <1>8, <1>12, <2>2, CutEnd
  <2>5. (Len(url) - 1) - 0 = Len(url) - 1
    BY <2>4 DEF Str
  <2>6. SubSeq(url, 1, (Len(url) - 1) - 0) = u \o Shorter(port, 0)
    BY <1>13, <2>2
  <2> QED
    BY <2>3, <2>5, <2>6, Zenon
<1>15. lo_address_new_from_url(SubSeq(url, 1, Len(url) - 1) \o rest) = a
  <2>1. (u \o port) \o rest = OfScheme(proto, h \o PortAnd(port, rest))
    BY <1>2, <1>7
  <2>2. lo_address_new_from_url(OfScheme(proto, h \o PortAnd(port, rest))) = a
    BY <1>2, <1>4, <1>11
  <2> QED
    BY <1>14, <2>1, <2>2, Zenon
<1>16. lo_url_get_protocol(url) = Given(<<lo_url_get_protocol_id(url)>>)
  BY <1>2, <1>3, <1>10, <1>11
<1>17. ASSUME FirstColon = 0
       PROVE  /\ lo_address_new_from_url(lo_server_get_url(proto, name, port)) = a
              /\ lo_server_new_from_url(url).group = a.host
              /\ proto = "udp" => lo_address_new_from_url(other) = a
              /\ rest # <<>> => lo_url_get_path(other) = Given(rest)
  <2>1. \A i \in 1 .. Len(name) : name[i] # ":"
    <3> DEFINE i == SelectInSeq(name, LAMBDA c : c = ":")
    <3>1. i = 0
      BY <1>17 DEF FirstColon
    <3>2. \/ i = 0 /\ \A j \in 1 .. Len(name) : name[j] # ":"
          \/ i \in 1 .. Len(name)
      BY NameSplits
    <3> QED
      BY <3>1, <3>2
  <2>2. h = name
    BY <1>1, <2>1 DEF h, HostText, Has
  <2>3. lo_server_get_url(proto, name, port) = OfScheme(proto, h \o PortAnd(port, <<"/">>))
    <3>1. proto # "unix"
      OBVIOUS
    <3>2. (u \o port) \o <<"/">> = OfScheme(proto, h \o PortAnd(port, <<"/">>))
      BY <1>2, <1>3, <1>7
    <3> QED
      BY <2>2, <3>1, <3>2, Zenon DEF u, lo_server_get_url
  <2>4. lo_address_new_from_url(lo_server_get_url(proto, name, port)) = a
    BY <1>2, <1>3, <1>4, <1>11, <2>3
  <2>5. lo_server_new_from_url(url).group = a.host
    <3>1. lo_url_get_protocol_id(url) = proto /\ lo_url_get_hostname(url) = Given(name) /\ proto # "unix"
      BY <1>2, <1>3, <1>10, <1>11
    <3> QED
      BY <1>4, <3>1 DEF lo_server_new_from_url
  <2> DEFINE text == name \o PortAnd(port, rest)
  <2>6. other = Other(text)
    BY <1>1, <1>2, HostUrlJoined
  <2>7. /\ text \in Str /\ lo_url_get_hostname(Other(text)) = Given(name)
        /\ lo_url_get_port(Other(text)) = Given(port)
        /\ rest # <<>> => lo_url_get_path(Other(text)) = Given(rest)
    BY <1>1, <1>2, <2>1, PlainHost
  <2> HIDE DEF text, other
  <2>8. lo_url_get_protocol_id(Other(text)) = "udp"
    BY <2>7, OtherIs
  <2>9. ASSUME proto = "udp" PROVE lo_address_new_from_url(other) = a
    <3>1. Given(name).ret # 0
      BY DEF Given
    <3>2. lo_address_new_from_url(other) = lo_address_new_with_proto("udp", Given(name), Given(port))
      BY <2>6, <2>7, <2>8 DEF lo_address_new_from_url
    <3> QED
      BY <2>9, <3>2 DEF a
  <2> QED
    BY <2>4, <2>5, <2>6, <2>7, <2>9
<1> QED
  BY <1>13, <1>15, <1>16, <1>17, Zenon DEF a, url, other, Shorter

-----------------------------------------------------------------------------
(* The URL of a socket's file. *)

\* All of what is left.
LEMMA TakeAll ==
    ASSUME NEW p \in Str, p # <<>>
    PROVE  Take(Given(p), Symbol) = Given(p)
<1>1. <<>> \in Str /\ \A i \in 1 .. Len(p) : p[i] \in Symbol
  BY DEF Str
<1>2. p \o <<>> = p
  BY ConcatEmptySeq DEF Str
<1>3. Take(Given(p \o <<>>), Symbol) = Given(p)
  BY <1>1, Spans
<1> QED
  BY <1>2, <1>3, Zenon

\* Without a port the last two formats read the path.
LEMMA UnixPath ==
    ASSUME NEW r \in Str, r # <<>>, PathAfterPort(Given(r)).ret # 1
    PROVE  LET after == Take(Skip(Given(r), Not({"/"})), Symbol)
           IN  /\ after = NoMatch => lo_url_get_path(OfScheme("unix", r)) = Trimmed(Given(r))
               /\ after.ret # 0 => lo_url_get_path(OfScheme("unix", r)) = Trimmed(after)
<1> DEFINE url == OfScheme("unix", r)
           after == Take(Skip(Given(r), Not({"/"})), Symbol)
           results == <<after, Given(r)>>
<1>1. /\ OscSlashes(url) = NoMatch /\ AnyScheme(url) = Given(r)
      /\ Slashes(Lit(OscDot(url), <<"unix">>)) = Given(r)
  BY TypedIs
<1>2. PathAfterPort(OscSlashes(url)).ret = 0 /\ PathAfterPort(AnyScheme(url)).ret # 1
  BY <1>1, NothingAfter
<1> HIDE DEF url
<1>3. Take(AnyScheme(url), Symbol) = Given(r)
  BY <1>1, TakeAll
<1>4. lo_url_get_path(url) = Trimmed(FirstOf(results))
  BY <1>1, <1>2, <1>3, Zenon DEF lo_url_get_path
<1> HIDE DEF after
<1>5. Len(results) = 2 /\ results[1] = after /\ results[2] = Given(r)
  OBVIOUS
<1> HIDE DEF results
<1>6. Given(r).ret # 0 /\ NoMatch.ret = 0
  BY DEF Given, NoMatch
<1>7. ASSUME after = NoMatch PROVE FirstOf(results) = results[2]
  <2>1. 2 \in 1 .. Len(results) /\ \A j \in 1 .. 2 - 1 : results[j].ret = 0
    BY <1>5, <1>6, <1>7
  <2>2. Len(results) \in Nat /\ results[2].ret # 0
    BY <1>5, <1>6
  <2> QED
    BY <2>1, <2>2, FirstOfIs
<1>8. ASSUME after.ret # 0 PROVE FirstOf(results) = results[1]
  <2>1. 1 \in 1 .. Len(results) /\ \A j \in 1 .. 1 - 1 : results[j].ret = 0
    BY <1>5
  <2>2. Len(results) \in Nat /\ results[1].ret # 0
    BY <1>5, <1>8
  <2> QED
    BY <2>1, <2>2, FirstOfIs
<1> QED
  BY <1>4, <1>5, <1>7, <1>8, Zenon DEF url, after

LEMMA TrimmedIs ==
    ASSUME NEW p, Last(p) # "/"
    PROVE  Trimmed(Given(p)) = Given(p)
BY DEF Trimmed, Given

\* A path read from a URL without a host.
LEMMA ShortPath ==
    ASSUME NEW p \in Str, p # <<>>, p[1] = "/", Last(p) # "/",
           NEW a, NEW b, NEW c, Halves(p, a, b, c), NoDigit(c)
    PROVE  lo_url_get_path(OfScheme("unix", p)) = Given(p)
<1>1. /\ a \in Str /\ b \in Str /\ c \in Str /\ p = a \o b
      /\ \A i \in 1 .. Len(a) : a[i] # ":" /\ a[i] \in Symbol
      /\ b = <<>> \/ b = <<":">> \o c
  BY DEF Halves, Str
<1>2. <<":">> \in Str /\ <<":">> # <<>> /\ Len(<<":">>) = 1 /\ <<":">>[1] = ":"
  BY Words
<1>3. b # <<>> => b[1] = ":"
  <2>1. PICK col \in Str : col = <<":">> /\ col # <<>> /\ col[1] = ":"
    BY <1>2
  <2>2. CASE b = col \o c
    <3>1. CASE c = <<>>
      <4>1. col \o <<>> = col
        BY ConcatEmptySeq DEF Str
      <4> QED
        BY <2>1, <2>2, <3>1, <4>1
    <3>2. CASE c # <<>>
      BY <1>1, <2>1, <2>2, <3>2, FirstSymbol
    <3> QED
      BY <3>1, <3>2
  <2> QED
    BY <1>1, <2>1, <2>2
<1>4. a # <<>>
  <2>1. SUFFICES ASSUME a = <<>> PROVE FALSE
    OBVIOUS
  <2>2. <<>> \o b = b
    BY <1>1, ConcatEmptySeq DEF Str
  <2>3. p = b
    BY <1>1, <2>1, <2>2
  <2> QED
    BY <1>3, <2>3
<1>5. Skip(Given(p), Not({":"})) = Given(b)
  <2>1. \A i \in 1 .. Len(a) : a[i] \in Not({":"})
    BY <1>1 DEF Not
  <2>2. b = <<>> \/ b[1] \notin Not({":"})
    BY <1>3 DEF Not
  <2>3. Skip(Given(a \o b), Not({":"})) = Given(b)
    BY <1>1, <1>4, <2>1, <2>2, Spans
  <2> QED
    BY <1>1, <2>3, Zenon
<1>6. PathAfterPort(Given(p)).ret # 1
  <2>1. NoMatch.ret # 1 /\ Unset.ret # 1
    BY DEF NoMatch, Unset
  <2>2. ASSUME NEW r, r.ret # 1 PROVE Take(Skip(r, Digit), Symbol).ret # 1
    BY <2>2, Stops
  <2>3. CASE b = <<>>
    <3>1. Lit(Given(<<>>), <<":">>).ret # 1
      <4>1. Given(<<>>).text = <<>>
        BY DEF Given
      <4>2. ~IsPrefix(<<":">>, <<>>)
        BY <1>2 DEF IsPrefix
      <4> QED
        BY <2>1, <4>1, <4>2 DEF Lit
    <3> QED
      BY <1>5, <2>2, <2>3, <3>1 DEF PathAfterPort
  <2>4. CASE b = <<":">> \o c
    <3>1. Lit(Given(b), <<":">>) = Given(c)
      BY <1>1, <1>2, <2>4, LitIs
    <3>2. Skip(Given(c), Digit).ret # 1
      BY <2>1, SomeEnds, SomeFails DEF NoDigit
    <3>3. Take(Skip(Given(c), Digit), Symbol).ret # 1
      BY <3>2, Stops
    <3> QED
      BY <1>5, <3>1, <3>3, Zenon DEF PathAfterPort
  <2> QED
    BY <1>1, <2>3, <2>4
<1>7. Take(Skip(Given(p), Not({"/"})), Symbol) = NoMatch
  <2>1. p[1] \notin Not({"/"})
    BY DEF Not
  <2> QED
    BY <2>1, SomeFails, NothingAfter
<1> QED
  BY <1>6, <1>7, UnixPath, TrimmedIs

\* A path read from a URL with the host that an address of a file has.
LEMMA LongPath ==
    ASSUME NEW p \in Str, p # <<>>, p[1] = "/", Last(p) # "/"
    PROVE  lo_url_get_path(OfScheme("unix", <<"localhost">> \o (<<":">> \o p))) = Given(p)
<1>1. PICK h \in Str : h = <<"localhost">> /\ h # <<>> /\ Len(h) = 1 /\ h[1] = "localhost"
  BY Words
<1>2. PICK col \in Str : col = <<":">> /\ col # <<>> /\ Len(col) = 1 /\ col[1] = ":"
  BY Words
<1>3. \A u, v \in Str : u \o v \in Str
  BY ConcatIs DEF Str
<1>4. PICK v \in Str : v = col \o p
  BY <1>2, <1>3
<1>5. PICK r \in Str : r = h \o v
  BY <1>1, <1>3
<1>6. PICK hc \in Str : hc = h \o col
  BY <1>1, <1>2, <1>3
<1>7. hc \o p = r
  <2>1. Chained(h, col, p, hc, v)
    BY <1>4, <1>5, <1>6, ConcatThree
  <2> QED
    BY <2>1, <1>5, Zenon DEF Chained
<1>8. v # <<>> /\ v[1] = ":"
  BY <1>2, <1>4, FirstSymbol
<1>9. r # <<>>
  BY <1>1, <1>5, <1>8, FirstSymbol
<1>10. PathAfterPort(Given(r)).ret # 1
  <2>1. Skip(Given(h \o v), Not({":"})) = Given(v)
    <3>1. \A i \in 1 .. Len(h) : h[i] \in Not({":"})
      BY <1>1, Words DEF Not
    <3>2. v[1] \notin Not({":"})
      BY <1>8 DEF Not
    <3> QED
      BY <1>1, <3>1, <3>2, Spans
  <2>2. Lit(Given(col \o p), col) = Given(p)
    BY <1>2, LitIs
  <2>3. Skip(Given(p), Digit) = NoMatch
    <3>1. "/" \notin Digit
      BY DEF Digit
    <3> QED
      BY <3>1, SomeFails
  <2>4. Take(NoMatch, Symbol) = NoMatch /\ NoMatch.ret # 1
    BY NothingAfter DEF NoMatch
  <2>5. PathAfterPort(Given(r)) = NoMatch
    BY <1>2, <1>4, <1>5, <2>1, <2>2, <2>3, <2>4, Zenon DEF PathAfterPort
  <2> QED
    BY <2>4, <2>5
<1>11. Take(Skip(Given(r), Not({"/"})), Symbol) = Given(p)
  <2>1. hc # <<>> /\ \A i \in 1 .. Len(hc) : hc[i] \in Not({"/"})
    <3>1. /\ Len(hc) = Len(h) + Len(col)
          /\ \A i \in 1 .. Len(h) : hc[i] = h[i]
          /\ \A i \in 1 .. Len(col) : hc[Len(h) + i] = col[i]
      BY <1>1, <1>2, <1>6, ConcatIs DEF Str
    <3>2. Len(hc) = 2 /\ hc[1] = "localhost" /\ hc[2] = ":"
      <4>1. 1 \in 1 .. Len(h) /\ 1 \in 1 .. Len(col) /\ Len(h) + 1 = 2
        BY <1>1, <1>2
      <4> QED
        BY <1>1, <1>2, <3>1, <4>1
    <3>3. "localhost" \in Not({"/"}) /\ ":" \in Not({"/"})
      BY Words DEF Not
    <3>4. \A i \in 1 .. 2 : i = 1 \/ i = 2
      OBVIOUS
    <3> QED
      BY <3>2, <3>3, <3>4
  <2>2. p[1] \notin Not({"/"})
    BY DEF Not
  <2>3. Skip(Given(hc \o p), Not({"/"})) = Given(p)
    BY <2>1, <2>2, Spans
  <2> QED
    BY <1>7, <2>3, TakeAll
<1>12. Given(p).ret # 0
  BY DEF Given
<1>13. lo_url_get_path(OfScheme("unix", r)) = Given(p)
  BY <1>9, <1>10, <1>11, <1>12, UnixPath, TrimmedIs
<1> QED
  BY <1>1, <1>2, <1>4, <1>5, <1>13, Zenon

LEMMA Pieces61 ==
    ASSUME NEW S, NEW a \in S, NEW b \in S, NEW c \in S, NEW d \in S, NEW e \in S, NEW f \in S, NEW g \in S
    PROVE  <<a, b, c, d, e, f>> \o <<g>> = <<a, b, c, d, e, f, g>>
<1>1. PICK u : u = <<a, b, c, d, e, f>>
  OBVIOUS
<1>2. PICK v : v = <<g>>
  OBVIOUS
<1>3. PICK w : w = <<a, b, c, d, e, f, g>>
  OBVIOUS
<1>4. u \in Seq(S) /\ v \in Seq(S) /\ w \in Seq(S)
  BY <1>1, <1>2, <1>3
<1>5. Len(u) = 6 /\ Len(v) = 1 /\ Len(w) = 7
  BY <1>1, <1>2, <1>3
<1>6. /\ \A i \in 1 .. 6 : i = 1 \/ i = 2 \/ i = 3 \/ i = 4 \/ i = 5 \/ i = 6
      /\ \A i \in 1 .. 1 : i = 1
  OBVIOUS
<1>7. \A i \in 1 .. Len(u) : w[i] = u[i]
  BY <1>1, <1>3, <1>5, <1>6
<1>8. \A i \in 1 .. Len(v) : w[Len(u) + i] = v[i]
  BY <1>2, <1>3, <1>5, <1>6
<1>9. Len(w) = Len(u) + Len(v)
  BY <1>5
<1>10. u \o v = w
  BY <1>4, <1>7, <1>8, <1>9, ConcatEqual
<1> QED
  BY <1>1, <1>2, <1>3, <1>10, Zenon

\* A server's URL of a socket's file has one slash more.
LEMMA ServerUrl ==
    ASSUME NEW n \in Str
    PROVE  lo_server_get_url("unix", <<>>, n) = OfScheme("unix", <<"/">> \o n)
<1>1. /\ "osc" \in Symbol /\ "." \in Symbol /\ "unix" \in Symbol /\ ":" \in Symbol /\ "/" \in Symbol
      /\ <<"/">> \in Str
  BY Words
<1>2. PICK w \in Str : w = <<"osc", ".", "unix", ":", "/", "/">>
  <2>1. <<"osc", ".", "unix", ":", "/", "/">> \in Str
    BY Words DEF Str
  <2> QED
    BY <2>1
<1>3. PICK x \in Str : x = <<"/">>
  BY <1>1
<1>4. PICK wx : wx = w \o x
  OBVIOUS
<1>5. PICK xn : xn = x \o n
  OBVIOUS
<1>6. wx \o n = w \o xn
  <2>1. Chained(w, x, n, wx, xn)
    BY <1>4, <1>5, ConcatThree
  <2> QED
    BY <2>1, Zenon DEF Chained
<1>7. <<"osc", ".", "unix", ":", "/", "/">> \o <<"/">> = <<"osc", ".", "unix", ":", "/", "/", "/">>
  BY <1>1, Pieces61
<1>8. lo_server_get_url("unix", <<>>, n) = <<"osc", ".", "unix", ":", "/", "/", "/">> \o n
  BY DEF lo_server_get_url
<1> QED
  BY <1>2, <1>3, <1>4, <1>5, <1>6, <1>7, <1>8, Zenon DEF OfScheme

\* What is made of a file's URL is its path.
LEMMA FileUrl ==
    ASSUME NEW r \in Str
    PROVE  LET url == OfScheme("unix", r) IN
           /\ lo_address_new_from_url(url)
                 = [proto |-> "unix", host |-> Localhost, port |-> lo_url_get_path(url)]
           /\ lo_server_new_from_url(url).port = lo_url_get_path(url)
<1> DEFINE url == OfScheme("unix", r)
<1>1. lo_url_get_protocol_id(url) = "unix"
  BY TypedIs
<1> HIDE DEF url
<1> QED
  BY <1>1 DEF lo_address_new_from_url, lo_server_new_from_url, lo_address_new_with_proto, url

\* A socket's file is read from its URLs.
LEMMA FileReads ==
    ASSUME name \in Seq(NameSymbol), IsPath
    PROVE  FileReadsBack
<1> DEFINE a == lo_address_new_with_proto("unix", NoMatch, Given(name))
           short == <<"osc", ".", "unix", ":", "/", "/">> \o name
           server == lo_server_get_url("unix", <<>>, name)
<1>1. PICK n \in Seq(NameSymbol) : n = name
  OBVIOUS
<1>2. n \in Str /\ n # <<>> /\ n[1] = "/" /\ Last(n) # "/" /\ Len(n) \in Nat
  <2>1. n \in Str /\ Len(n) \in Nat /\ Len(n) > 1 /\ n[1] = "/" /\ Last(n) # "/"
    BY <1>1, Words DEF IsPath, Str
  <2>2. n # <<>>
    BY <2>1
  <2> QED
    BY <2>1, <2>2
<1>3. a = [proto |-> "unix", host |-> Localhost, port |-> Given(n)]
  BY <1>1 DEF lo_address_new_with_proto
<1>4. lo_address_new_from_url(lo_address_get_url(a)) = a
  <2> DEFINE h == <<"localhost">>
  <2>1. a.proto = "unix" /\ a.host.text = h /\ a.port.text = n
    BY <1>3 DEF Given, Localhost
  <2>2. h \in Str /\ ~Has(h, ":")
    <3>1. h \in Str /\ Len(h) = 1 /\ h[1] = "localhost"
      BY Words
    <3>2. \A i \in DOMAIN h : i = 1
      OBVIOUS
    <3> QED
      BY <3>1, <3>2 DEF Has
  <2> HIDE DEF a
  <2>3. lo_address_get_url(a) = <<"osc", ".", "unix", ":", "/", "/">> \o h \o <<":">> \o n
    BY <2>1, <2>2, Zenon DEF lo_address_get_url
  <2> DEFINE w == <<"osc", ".", "unix", ":", "/", "/">>
             long == OfScheme("unix", h \o (<<":">> \o n))
  <2>4. lo_address_get_url(a) = long
    <3>1. w \in Str
      BY Words DEF Str
    <3>2. \A x, y \in Str : x \o y \in Str
      BY ConcatIs DEF Str
    <3>3. PICK x \in Str : x = w
      BY <3>1
    <3>4. PICK y \in Str : y = h
      BY <2>2
    <3>5. PICK c \in Str : c = <<":">>
      BY Words
    <3>6. PICK xy \in Str : xy = x \o y
      BY <3>2
    <3>7. PICK cn \in Str : cn = c \o n
      BY <1>2, <3>2
    <3>8. PICK xyc : xyc = xy \o c
      OBVIOUS
    <3>9. PICK ycn : ycn = y \o cn
      OBVIOUS
    <3>10. xyc \o n = xy \o cn
      <4>1. Chained(xy, c, n, xyc, cn)
        BY <1>2, <3>7, <3>8, ConcatThree
      <4> QED
        BY <4>1, Zenon DEF Chained
    <3>11. xy \o cn = x \o ycn
      <4>1. Chained(x, y, cn, xy, ycn)
        BY <3>6, <3>9, ConcatThree
      <4> QED
        BY <4>1, Zenon DEF Chained
    <3> QED
      BY <2>3, <3>3, <3>4, <3>5, <3>6, <3>7, <3>8, <3>9, <3>10, <3>11, Zenon DEF OfScheme
  <2>5. lo_url_get_path(long) = Given(n)
    BY <1>2, LongPath
  <2>6. h \o (<<":">> \o n) \in Str
    <3>1. \A x, y \in Str : x \o y \in Str
      BY ConcatIs DEF Str
    <3>2. <<":">> \in Str
      BY Words
    <3> HIDE DEF h
    <3>3. <<":">> \o n \in Str
      BY <1>2, <3>1, <3>2
    <3> QED
      BY <2>2, <3>1, <3>3
  <2>7. lo_address_new_from_url(long) = [proto |-> "unix", host |-> Localhost, port |-> Given(n)]
    BY <2>5, <2>6, FileUrl
  <2> QED
    BY <1>3, <2>4, <2>7, Zenon DEF a
<1>5. ASSUME ~DigitAfter(FirstColon)
      PROVE  /\ lo_address_new_from_url(short) = a
             /\ lo_server_new_from_url(short).port = a.port
             /\ lo_address_new_from_url(server) = [a EXCEPT !.port = Given(<<"/">> \o name)]
  <2>1. ColonSafe(n)
    BY <1>1, <1>5 DEF ColonSafe, DigitAfter, FirstColon
  <2>2. PICK u, v, c : /\ Halves(n, u, v, c) /\ NoDigit(c)
                       /\ Len(u) = 0 => n = <<>> \/ n[1] = ":"
                       /\ v = <<>> => \A j \in 1 .. Len(n) : n[j] # ":"
    BY <2>1, NameHalves DEF ColonSafe
  <2>3. short = OfScheme("unix", n)
    BY <1>1, Zenon DEF OfScheme
  <2>4. lo_url_get_path(OfScheme("unix", n)) = Given(n)
    BY <1>2, <2>2, ShortPath
  <2>5. /\ lo_address_new_from_url(short) = a
        /\ lo_server_new_from_url(short).port = a.port
    <3>1. /\ lo_address_new_from_url(OfScheme("unix", n))
                = [proto |-> "unix", host |-> Localhost, port |-> Given(n)]
          /\ lo_server_new_from_url(OfScheme("unix", n)).port = Given(n)
      BY <1>2, <2>4, FileUrl
    <3> HIDE DEF short, a
    <3> QED
      BY <1>3, <2>3, <3>1
  <2>6. PICK x \in Str : x = <<"/">> /\ x # <<>> /\ Len(x) = 1 /\ x[1] = "/"
    BY Words
  <2>7. PICK m : m = x \o n
    OBVIOUS
  <2>8. /\ m \in Str /\ Len(m) = 1 + Len(n) /\ \A i \in 1 .. Len(n) : m[1 + i] = n[i]
        /\ m # <<>> /\ m[1] = "/"
    <3>1. m \in Str /\ m # <<>> /\ m[1] = "/"
      BY <1>2, <2>6, <2>7, FirstSymbol
    <3>2. Len(m) = Len(x) + Len(n) /\ \A i \in 1 .. Len(n) : m[Len(x) + i] = n[i]
      BY <1>2, <2>6, <2>7, ConcatIs DEF Str
    <3> QED
      BY <2>6, <3>1, <3>2
  <2>9. Last(m) # "/"
    <3>1. Len(n) # 0
      BY <1>2 DEF Str
    <3>2. Len(n) \in 1 .. Len(n)
      BY <1>2, <3>1
    <3>3. m[Len(m)] = n[Len(n)]
      BY <2>8, <3>2
    <3> QED
      BY <1>2, <3>3 DEF Last
  <2>10. PICK xu : xu = x \o u
    OBVIOUS
  <2>11. Halves(m, xu, v, c)
    <3>1. u \in Str /\ v \in Str /\ c \in Str /\ n = u \o v /\ \A i \in 1 .. Len(u) : u[i] # ":"
      BY <2>2 DEF Halves
    <3>2. v = <<>> \/ v = <<":">> \o c
      BY <2>2, Zenon DEF Halves
    <3>3. /\ xu \in Str /\ Len(xu) = 1 + Len(u) /\ Len(u) \in Nat
          /\ \A i \in 1 .. 1 : xu[i] = x[i]
          /\ \A i \in 1 .. Len(u) : xu[1 + i] = u[i]
      BY <2>6, <2>10, <3>1, ConcatIs DEF Str
    <3>4. xu \o v = m
      <4>1. PICK uv : uv = u \o v
        OBVIOUS
      <4>2. xu \o v = x \o uv
        <5>1. Chained(x, u, v, xu, uv)
          BY <2>6, <2>10, <3>1, <4>1, ConcatThree
        <5> QED
          BY <5>1, Zenon DEF Chained
      <4> QED
        BY <2>7, <3>1, <4>1, <4>2, Zenon
    <3>5. ASSUME NEW i \in 1 .. Len(xu) PROVE xu[i] # ":"
      <4>1. i = 1 \/ (i - 1 \in 1 .. Len(u) /\ 1 + (i - 1) = i)
        BY <3>3
      <4>2. 1 \in 1 .. 1 /\ xu[1] # ":"
        BY <2>6, <3>3
      <4>3. ASSUME NEW j \in 1 .. Len(u), 1 + j = i PROVE xu[i] # ":"
        <5>1. xu[1 + j] = u[j] /\ u[j] # ":"
          BY <3>1, <3>3
        <5> QED
          BY <4>3, <5>1
      <4> QED
        BY <4>1, <4>2, <4>3
    <3> QED
      BY <3>1, <3>2, <3>3, <3>4, <3>5, Zenon DEF Halves
  <2>12. lo_url_get_path(OfScheme("unix", m)) = Given(m)
    BY <2>2, <2>8, <2>9, <2>11, ShortPath
  <2>13. lo_address_new_from_url(OfScheme("unix", m))
            = [proto |-> "unix", host |-> Localhost, port |-> Given(m)]
    BY <2>8, <2>12, FileUrl
  <2>14. server = OfScheme("unix", m)
    <3>1. lo_server_get_url("unix", <<>>, n) = OfScheme("unix", <<"/">> \o n)
      BY <1>2, ServerUrl
    <3> QED
      BY <1>1, <2>6, <2>7, <3>1, Zenon
  <2>15. [a EXCEPT !.port = Given(m)] = [proto |-> "unix", host |-> Localhost, port |-> Given(m)]
    <3> HIDE DEF a
    <3> QED
      BY <1>3
  <2>16. <<"/">> \o name = m
    BY <1>1, <2>6, <2>7, Zenon
  <2> QED
    BY <2>5, <2>13, <2>14, <2>15, <2>16, Zenon
<1> QED
  BY <1>4, <1>5, Zenon DEF FileReadsBack

-----------------------------------------------------------------------------
\* Every URL that an address or a server writes is read as what it was made of,
\* for names of every length, every port and every end of a URL (address.c:103,
\* 247, 343-466; server.c:247, 2085).
THEOREM UrlsReadBack == UrlSpec => []UrlReadsBack
<1> DEFINE Named == name \in Seq(NameSymbol)
<1>1. UrlInit => Named
  BY DEF UrlInit
<1>2. Named /\ [UrlNext]_name => Named'
  BY AppendProperties DEF UrlNext
<1>3. Named => UrlReadsBack
  BY HostReads, FileReads DEF UrlReadsBack
<1> QED
  BY <1>1, <1>2, <1>3, PTL DEF UrlSpec

-----------------------------------------------------------------------------
(* Enumeration *)

PathText == Seq(PathChar)

\* The methods have paths of the kinds there are.
RegistryOK == registry \in Seq([path : MethodPaths, ret : Returns])

NoSlash(s) == \A i \in 1 .. Len(s) : s[i] # "/"

\* p is the path made of ask and name, or one below it.
Under(ask, given, p) == p = ask \o given \/ IsPrefix(ask \o given \o <<"/">>, p)

-----------------------------------------------------------------------------
(***************************************************************************)
(* Induction.                                                              *)
(***************************************************************************)
LEMMA LastIndex ==
    ASSUME NEW b \in Nat, NEW T \in SUBSET (1 .. b), T # {}
    PROVE  Max(T) \in T
<1> DEFINE U == {b - n : n \in T}
<1>1. \A n \in T : n \in 1 .. b /\ b - n \in Nat
  OBVIOUS
<1>2. U \in SUBSET Nat /\ U # {}
  BY <1>1
<1>3. PICK u \in U : \A v \in U : u <= v
  BY <1>2, LeastNat
<1>4. PICK n \in T : u = b - n
  OBVIOUS
<1>5. \A m \in T : n >= m
  BY <1>1, <1>3, <1>4
<1> QED
  BY <1>5 DEF Max

-----------------------------------------------------------------------------
(***************************************************************************)
(* Names and paths.                                                        *)
(***************************************************************************)
LEMMA OneElement ==
    ASSUME NEW S, NEW x \in S
    PROVE  <<x>> \in Seq(S) /\ Len(<<x>>) = 1 /\ <<x>>[1] = x
OBVIOUS

\* The next name is what follows up to a slash or the end.
LEMMA NextNameIs ==
    ASSUME NEW path \in PathText, NEW len \in 0 .. Len(path)
    PROVE  LET nm == NextName(path, len)
           IN  /\ nm \in PathText /\ NoSlash(nm)
               /\ len + Len(nm) <= Len(path)
               /\ \A i \in 1 .. Len(nm) : nm[i] = path[len + i]
               /\ len + Len(nm) = Len(path) \/ path[len + Len(nm) + 1] = "/"
<1> DEFINE rest == SubSeq(path, len + 1, Len(path))
           I == {i \in 1 .. Len(rest) : rest[i] = "/"}
           sec == IF I # {} THEN Min(I) ELSE 0
           nm == IF sec = 0 THEN rest ELSE SubSeq(rest, 1, sec - 1)
<1>1. NextName(path, len) = nm
  BY DEF NextName, SelectInSeq
<1>2. /\ rest \in PathText /\ Len(rest) = Len(path) - len /\ Len(rest) \in Nat
      /\ \A i \in 1 .. Len(rest) : rest[i] = path[len + i]
  BY DEF PathText
<1>3. CASE I = {}
  <2>1. nm = rest /\ NoSlash(rest)
    BY <1>3 DEF NoSlash
  <2> HIDE DEF nm, rest
  <2> QED
    BY <1>1, <1>2, <2>1
<1>4. CASE I # {}
  <2>1. PICK k \in I : \A j \in I : k <= j
    <3>1. I \in SUBSET Nat
      BY <1>2
    <3> HIDE DEF I
    <3> QED
      BY <1>4, <3>1, LeastNat
  <2>2. sec \in I /\ \A j \in I : sec <= j
    <3> HIDE DEF I
    <3> QED
      BY <1>4, <2>1 DEF Min
  <2>3. sec \in 1 .. Len(rest) /\ rest[sec] = "/" /\ \A i \in 1 .. sec - 1 : rest[i] # "/"
    <3> HIDE DEF sec, rest
    <3> QED
      BY <1>2, <2>2
  <2> HIDE DEF rest, sec
  <2>4. nm = SubSeq(rest, 1, sec - 1)
    BY <2>3
  <2> HIDE DEF nm
  <2>5. nm \in PathText /\ Len(nm) = sec - 1 /\ \A i \in 1 .. sec - 1 : nm[i] = rest[i]
    BY <1>2, <2>3, <2>4 DEF PathText
  <2>6. NoSlash(nm)
    BY <2>3, <2>5 DEF NoSlash
  <2>7. \A i \in 1 .. Len(nm) : nm[i] = path[len + i]
    BY <1>2, <2>3, <2>5
  <2>8. len + Len(nm) <= Len(path) /\ path[len + Len(nm) + 1] = "/"
    BY <1>2, <2>3, <2>5
  <2> QED
    BY <1>1, <2>5, <2>6, <2>7, <2>8
<1> QED
  BY <1>3, <1>4

\* What IsPrefix and Under say, character by character.
LEMMA PrefixIs ==
    ASSUME NEW a \in PathText, NEW p \in PathText
    PROVE  IsPrefix(a, p) <=> Len(a) <= Len(p) /\ \A i \in 1 .. Len(a) : a[i] = p[i]
<1>1. ASSUME IsPrefix(a, p) PROVE Len(a) <= Len(p) /\ \A i \in 1 .. Len(a) : a[i] = p[i]
  <2>1. Len(a) <= Len(p) /\ SubSeq(a, 1, Len(a)) = SubSeq(p, 1, Len(a))
    BY <1>1 DEF IsPrefix
  <2>2. ASSUME NEW i \in 1 .. Len(a) PROVE a[i] = p[i]
    <3>1. SubSeq(a, 1, Len(a))[i] = a[i] /\ SubSeq(p, 1, Len(a))[i] = p[i]
      BY <2>1 DEF PathText
    <3> QED
      BY <2>1, <3>1
  <2> QED
    BY <2>1, <2>2
<1>2. ASSUME Len(a) <= Len(p), \A i \in 1 .. Len(a) : a[i] = p[i] PROVE IsPrefix(a, p)
  <2>1. /\ SubSeq(p, 1, Len(a)) \in PathText /\ Len(SubSeq(p, 1, Len(a))) = Len(a)
        /\ \A i \in 1 .. Len(a) : SubSeq(p, 1, Len(a))[i] = p[i]
    BY <1>2 DEF PathText
  <2>2. SubSeq(a, 1, Len(a)) = a
    BY DEF PathText
  <2>3. SubSeq(p, 1, Len(a)) = a
    BY <1>2, <2>1, SeqEqual DEF PathText
  <2> QED
    BY <1>2, <2>2, <2>3 DEF IsPrefix
<1> QED
  BY <1>1, <1>2

LEMMA UnderParts ==
    ASSUME NEW ask \in PathText, NEW given \in PathText, NEW p \in PathText
    PROVE  Under(ask, given, p) <=>
              /\ Len(ask) + Len(given) <= Len(p)
              /\ \A i \in 1 .. Len(ask) : ask[i] = p[i]
              /\ \A i \in 1 .. Len(given) : given[i] = p[Len(ask) + i]
              /\ Len(ask) + Len(given) = Len(p) \/ p[Len(ask) + Len(given) + 1] = "/"
<1> DEFINE b == ask \o given
           c == b \o <<"/">>
           A == Len(ask)
           N == Len(given)
<1>1. /\ b \in PathText /\ Len(b) = A + N /\ A \in Nat /\ N \in Nat
      /\ \A i \in 1 .. A : b[i] = ask[i]
      /\ \A i \in 1 .. N : b[A + i] = given[i]
  BY DEF PathText
<1> HIDE DEF b
<1>2. /\ c \in PathText /\ Len(c) = A + N + 1 /\ c[A + N + 1] = "/"
      /\ \A i \in 1 .. A + N : c[i] = b[i]
  <2> DEFINE slash == <<"/">>
  <2>1. slash \in Seq(PathChar) /\ Len(slash) = 1 /\ slash[1] = "/"
    BY PathAssumption, OneElement
  <2>2. c = b \o slash
    OBVIOUS
  <2> HIDE DEF slash, c
  <2>3. b \in Seq(PathChar)
    BY <1>1 DEF PathText
  <2>4. /\ c \in Seq(PathChar) /\ Len(c) = Len(b) + Len(slash)
        /\ \A i \in 1 .. Len(b) + Len(slash) :
              c[i] = IF i <= Len(b) THEN b[i] ELSE slash[i - Len(b)]
    BY <2>1, <2>2, <2>3, ConcatProperties
  <2>5. A + N + 1 \in 1 .. Len(b) + Len(slash) /\ A + N + 1 - Len(b) = 1
    BY <1>1, <2>1
  <2>6. c[A + N + 1] = slash[A + N + 1 - Len(b)]
    BY <1>1, <2>4, <2>5
  <2> QED
    BY <1>1, <2>1, <2>4, <2>5, <2>6 DEF PathText
<1> HIDE DEF c
<1>3. p = b <=> Len(p) = A + N /\ \A i \in 1 .. A + N : b[i] = p[i]
  <2>1. ASSUME Len(p) = A + N, \A i \in 1 .. A + N : b[i] = p[i] PROVE p = b
    BY <1>1, <2>1, SeqEqual DEF PathText
  <2> QED
    BY <1>1, <2>1
<1>4. IsPrefix(c, p) <=> /\ A + N + 1 <= Len(p) /\ p[A + N + 1] = "/"
                         /\ \A i \in 1 .. A + N : b[i] = p[i]
  BY <1>1, <1>2, PrefixIs
<1>5. (\A i \in 1 .. A + N : b[i] = p[i]) <=>
         (\A i \in 1 .. A : ask[i] = p[i]) /\ (\A i \in 1 .. N : given[i] = p[A + i])
  <2>1. ASSUME \A i \in 1 .. A : ask[i] = p[i], \A i \in 1 .. N : given[i] = p[A + i],
               NEW i \in 1 .. A + N
        PROVE  b[i] = p[i]
    <3>1. CASE i <= A
      BY <1>1, <2>1, <3>1
    <3>2. CASE i > A
      <4>1. i - A \in 1 .. N /\ A + (i - A) = i
        BY <1>1, <3>2
      <4> QED
        BY <1>1, <2>1, <4>1
    <3> QED
      BY <1>1, <3>1, <3>2
  <2>2. ASSUME \A i \in 1 .. A + N : b[i] = p[i]
        PROVE  (\A i \in 1 .. A : ask[i] = p[i]) /\ (\A i \in 1 .. N : given[i] = p[A + i])
    BY <1>1, <2>2
  <2> QED
    BY <2>1, <2>2
<1>6. Len(p) \in Nat
  BY DEF PathText
<1>7. Under(ask, given, p) <=> p = b \/ IsPrefix(c, p)
  BY DEF Under, b, c
<1> QED
  BY <1>1, <1>3, <1>4, <1>5, <1>6, <1>7

\* A name without a slash stands for the paths of which it is the next name.
LEMMA UnderIs ==
    ASSUME NEW ask \in PathText, NEW given \in PathText, NEW p \in PathText, NoSlash(given)
    PROVE  Under(ask, given, p) <=> IsPrefix(ask, p) /\ given = NextName(p, Len(ask))
<1> DEFINE A == Len(ask)
           nm == NextName(p, A)
<1>1. A \in Nat /\ Len(p) \in Nat /\ Len(given) \in Nat
  BY DEF PathText
<1>2. ASSUME IsPrefix(ask, p)
      PROVE  /\ nm \in PathText /\ NoSlash(nm) /\ A + Len(nm) <= Len(p) /\ Len(nm) \in Nat
             /\ \A i \in 1 .. Len(nm) : nm[i] = p[A + i]
             /\ A + Len(nm) = Len(p) \/ p[A + Len(nm) + 1] = "/"
  <2>1. A \in 0 .. Len(p)
    BY <1>1, <1>2, PrefixIs
  <2>2. \A s \in PathText : Len(s) \in Nat
    BY DEF PathText
  <2> QED
    BY <2>1, <2>2, NextNameIs
<1> HIDE DEF nm
<1>3. ASSUME IsPrefix(ask, p), given = nm PROVE Under(ask, given, p)
  <2>1. \A i \in 1 .. A : ask[i] = p[i]
    BY <1>3, PrefixIs
  <2> QED
    BY <1>2, <1>3, <2>1, UnderParts
<1>4. ASSUME Under(ask, given, p) PROVE IsPrefix(ask, p) /\ given = nm
  <2>1. /\ A + Len(given) <= Len(p)
        /\ \A i \in 1 .. A : ask[i] = p[i]
        /\ \A i \in 1 .. Len(given) : given[i] = p[A + i]
        /\ A + Len(given) = Len(p) \/ p[A + Len(given) + 1] = "/"
    BY <1>4, UnderParts
  <2>2. IsPrefix(ask, p)
    BY <1>1, <2>1, PrefixIs
  <2>3. ~(Len(given) < Len(nm))
    <3> SUFFICES ASSUME Len(given) < Len(nm) PROVE FALSE
      OBVIOUS
    <3>1. Len(given) + 1 \in 1 .. Len(nm) /\ p[A + Len(given) + 1] = "/"
      BY <1>1, <1>2, <2>1, <2>2
    <3>2. nm[Len(given) + 1] = p[A + (Len(given) + 1)] /\ A + (Len(given) + 1) = A + Len(given) + 1
      BY <1>1, <1>2, <2>2, <3>1
    <3> QED
      BY <1>2, <2>2, <3>1, <3>2 DEF NoSlash
  <2>4. ~(Len(nm) < Len(given))
    <3> SUFFICES ASSUME Len(nm) < Len(given) PROVE FALSE
      OBVIOUS
    <3>1. Len(nm) + 1 \in 1 .. Len(given) /\ p[A + Len(nm) + 1] = "/"
      BY <1>1, <1>2, <2>1, <2>2
    <3>2. given[Len(nm) + 1] = p[A + (Len(nm) + 1)] /\ A + (Len(nm) + 1) = A + Len(nm) + 1
      BY <1>1, <1>2, <2>1, <2>2, <3>1
    <3> QED
      BY <3>1, <3>2 DEF NoSlash
  <2>5. Len(given) = Len(nm)
    BY <1>1, <1>2, <2>2, <2>3, <2>4
  <2>6. \A i \in 1 .. Len(given) : given[i] = nm[i]
    BY <1>2, <2>1, <2>2, <2>5
  <2>7. given = nm
    BY <1>2, <2>2, <2>5, <2>6, SeqEqual DEF PathText
  <2> QED
    BY <2>2, <2>7
<1> QED
  BY <1>3, <1>4 DEF nm

-----------------------------------------------------------------------------
(***************************************************************************)
(* The list of names.                                                      *)
(***************************************************************************)
\* The i-th method is below ask.
Listed(ask, i) == registry[i].path # AnyPath /\ IsPrefix(ask, registry[i].path)
NameOf(ask, i) == NextName(registry[i].path, Len(ask))

\* After i methods the list has the names of those below ask, each once, and before
\* that of a method those of the methods before it.
NamesOK(ask, i, sl) ==
    /\ sl \in Seq(PathText) /\ \A n \in 1 .. Len(sl) : NoSlash(sl[n])
    /\ \A n, k \in 1 .. Len(sl) : sl[n] = sl[k] => n = k
    /\ \A n \in 1 .. Len(sl) : \E j \in 1 .. i :
          /\ Listed(ask, j) /\ sl[n] = NameOf(ask, j)
          /\ \A h \in 1 .. j - 1 : Listed(ask, h) => \E k \in 1 .. n - 1 : sl[k] = NameOf(ask, h)
    /\ \A j \in 1 .. i : Listed(ask, j) => \E n \in 1 .. Len(sl) : sl[n] = NameOf(ask, j)

IsNames(ask, f) ==
    f = [i \in 0 .. Len(registry) |-> IF i = 0 THEN <<>> ELSE AddName(ask, i, f[i - 1])]

LEMMA NameIs ==
    ASSUME RegistryOK, NEW ask \in PathText, NEW i \in 1 .. Len(registry)
    PROVE  /\ registry[i].path \in PathText /\ registry[i] \in [path : MethodPaths, ret : Returns]
           /\ Listed(ask, i) => NameOf(ask, i) \in PathText /\ NoSlash(NameOf(ask, i))
<1>1. registry[i] \in [path : MethodPaths, ret : Returns]
  BY ElementOfSeq DEF RegistryOK
<1>2. registry[i].path \in PathText
  BY <1>1, PathAssumption DEF PathText
<1>3. ASSUME Listed(ask, i) PROVE NameOf(ask, i) \in PathText /\ NoSlash(NameOf(ask, i))
  <2>1. Len(ask) \in 0 .. Len(registry[i].path)
    BY <1>2, <1>3, PrefixIs DEF Listed, PathText
  <2> QED
    BY <1>2, <2>1, NextNameIs DEF NameOf
<1> QED
  BY <1>1, <1>2, <1>3

LEMMA AddNameIs ==
    ASSUME RegistryOK, NEW ask \in PathText, NEW i \in 1 .. Len(registry), NEW sl \in Seq(PathText)
    PROVE  LET added == AddName(ask, i, sl)
           IN  \/ /\ Listed(ask, i) /\ \A n \in 1 .. Len(sl) : sl[n] # NameOf(ask, i)
                  /\ added \in Seq(PathText) /\ Len(added) = Len(sl) + 1
                  /\ added[Len(sl) + 1] = NameOf(ask, i)
                  /\ \A n \in 1 .. Len(sl) : added[n] = sl[n]
               \/ /\ added = sl
                  /\ Listed(ask, i) => \E n \in 1 .. Len(sl) : sl[n] = NameOf(ask, i)
<1>1. NameOf(ask, i) \in ToSet(sl) <=> \E n \in 1 .. Len(sl) : sl[n] = NameOf(ask, i)
  BY DEF ToSet
<1>2. AddName(ask, i, sl) = IF Listed(ask, i) /\ NameOf(ask, i) \notin ToSet(sl)
                            THEN Append(sl, NameOf(ask, i)) ELSE sl
  BY DEF AddName, Listed, NameOf
<1>3. Listed(ask, i) => NameOf(ask, i) \in PathText
  BY NameIs
<1>4. CASE Listed(ask, i) /\ NameOf(ask, i) \notin ToSet(sl)
  BY <1>1, <1>2, <1>3, <1>4, AppendProperties
<1>5. CASE ~(Listed(ask, i) /\ NameOf(ask, i) \notin ToSet(sl))
  BY <1>1, <1>2, <1>5
<1> QED
  BY <1>4, <1>5

LEMMA AddNameKeeps ==
    ASSUME RegistryOK, NEW ask \in PathText, NEW i \in 1 .. Len(registry), NEW sl,
           NamesOK(ask, i - 1, sl)
    PROVE  NamesOK(ask, i, AddName(ask, i, sl))
<1> DEFINE added == AddName(ask, i, sl)
           L == Len(sl)
<1>1. /\ sl \in Seq(PathText) /\ L \in Nat /\ i \in Nat \ {0}
      /\ \A j \in 1 .. i : j = i \/ j \in 1 .. i - 1
  BY DEF NamesOK, RegistryOK
<1>2. CASE /\ Listed(ask, i) /\ \A n \in 1 .. L : sl[n] # NameOf(ask, i)
           /\ added \in Seq(PathText) /\ Len(added) = L + 1
           /\ added[L + 1] = NameOf(ask, i)
           /\ \A n \in 1 .. L : added[n] = sl[n]
  <2> HIDE DEF added
  <2>1. \A n \in 1 .. Len(added) : n = L + 1 \/ n \in 1 .. L
    BY <1>1, <1>2
  <2>2. \A n \in 1 .. Len(added) : NoSlash(added[n])
    BY <1>2, <2>1, NameIs DEF NamesOK
  <2>3. \A n, k \in 1 .. Len(added) : added[n] = added[k] => n = k
    BY <1>2, <2>1 DEF NamesOK
  <2>4. ASSUME NEW n \in 1 .. Len(added)
        PROVE  \E j \in 1 .. i :
                  /\ Listed(ask, j) /\ added[n] = NameOf(ask, j)
                  /\ \A h \in 1 .. j - 1 : Listed(ask, h) =>
                        \E k \in 1 .. n - 1 : added[k] = NameOf(ask, h)
    <3>1. CASE n \in 1 .. L
      <4>1. PICK j \in 1 .. i - 1 :
                  /\ Listed(ask, j) /\ sl[n] = NameOf(ask, j)
                  /\ \A h \in 1 .. j - 1 : Listed(ask, h) =>
                        \E k \in 1 .. n - 1 : sl[k] = NameOf(ask, h)
        BY <3>1 DEF NamesOK
      <4>2. j \in 1 .. i /\ added[n] = sl[n] /\ \A k \in 1 .. n - 1 : added[k] = sl[k]
        BY <1>1, <1>2, <3>1
      <4> QED
        BY <4>1, <4>2
    <3>2. CASE n = L + 1
      <4>1. i \in 1 .. i /\ \A k \in 1 .. L : k \in 1 .. n - 1
        BY <1>1, <3>2
      <4>2. \A h \in 1 .. i - 1 : Listed(ask, h) => \E k \in 1 .. n - 1 : added[k] = NameOf(ask, h)
        BY <1>2, <4>1 DEF NamesOK
      <4> QED
        BY <1>2, <3>2, <4>1, <4>2
    <3> QED
      BY <2>1, <3>1, <3>2
  <2>5. ASSUME NEW j \in 1 .. i, Listed(ask, j)
        PROVE  \E n \in 1 .. Len(added) : added[n] = NameOf(ask, j)
    <3>1. L + 1 \in 1 .. Len(added) /\ \A n \in 1 .. L : n \in 1 .. Len(added)
      BY <1>1, <1>2
    <3>2. CASE j = i
      BY <1>2, <3>1, <3>2
    <3>3. CASE j \in 1 .. i - 1
      BY <1>2, <2>5, <3>1, <3>3 DEF NamesOK
    <3> QED
      BY <1>1, <3>2, <3>3
  <2>6. NamesOK(ask, i, added)
    BY <1>2, <2>2, <2>3, <2>4, <2>5 DEF NamesOK
  <2> QED
    BY <2>6 DEF added
<1>3. CASE /\ added = sl
           /\ Listed(ask, i) => \E n \in 1 .. L : sl[n] = NameOf(ask, i)
  <2> HIDE DEF added
  <2>1. \A j \in 1 .. i - 1 : j \in 1 .. i
    BY <1>1
  <2>2. NamesOK(ask, i, sl)
    BY <1>1, <1>3, <2>1 DEF NamesOK
  <2> QED
    BY <1>3, <2>2 DEF added
<1> QED
  BY <1>1, <1>2, <1>3, AddNameIs

LEMMA NamesExist ==
    ASSUME RegistryOK, NEW ask \in PathText
    PROVE  \E f : IsNames(ask, f)
<1> DEFINE N == Len(registry)
           UpTo(f, m) == /\ f \in [0 .. N -> Seq(PathText)] /\ f[0] = <<>>
                         /\ \A i \in 1 .. m : f[i] = AddName(ask, i, f[i - 1])
           Bad == {m \in 0 .. N : ~ \E f : UpTo(f, m)}
<1>1. N \in Nat
  BY DEF RegistryOK
<1>2. Bad = {}
  <2> SUFFICES ASSUME Bad # {} PROVE FALSE
    OBVIOUS
  <2>1. UpTo([i \in 0 .. N |-> <<>>], 0)
    BY <1>1
  <2>2. Bad \in SUBSET (0 .. N) /\ 0 \notin Bad
    BY <2>1
  <2>3. PICK m \in Bad : m \in 1 .. N /\ m - 1 \in 0 .. N /\ m - 1 \notin Bad
    <3> HIDE DEF Bad
    <3> QED
      BY <1>1, <2>2, LeastBadAfter0
  <2>4. ~ \E f : UpTo(f, m)
    BY <2>3
  <2>5. PICK f : UpTo(f, m - 1)
    BY <2>3
  <2> DEFINE g == [f EXCEPT ![m] = AddName(ask, m, f[m - 1])]
  <2>6. AddName(ask, m, f[m - 1]) \in Seq(PathText)
    <3>1. f[m - 1] \in Seq(PathText)
      BY <2>3, <2>5
    <3> QED
      BY <2>3, <3>1, AddNameIs
  <2>7. /\ g \in [0 .. N -> Seq(PathText)] /\ g[m] = AddName(ask, m, f[m - 1])
        /\ \A i \in 0 .. N : i # m => g[i] = f[i]
    BY <2>3, <2>5, <2>6
  <2> HIDE DEF g
  <2>8. ASSUME NEW i \in 1 .. m PROVE g[i] = AddName(ask, i, g[i - 1])
    <3>1. i \in 0 .. N /\ i - 1 \in 0 .. N /\ i - 1 # m
      BY <1>1, <2>3
    <3>2. CASE i = m
      BY <2>7, <3>1, <3>2
    <3>3. CASE i # m
      <4>1. i \in 1 .. m - 1
        BY <2>3, <3>3
      <4> QED
        BY <2>5, <2>7, <3>1, <3>3, <4>1
    <3> QED
      BY <3>2, <3>3
  <2>9. g[0] = <<>>
    BY <1>1, <2>3, <2>5, <2>7
  <2> QED
    BY <2>4, <2>7, <2>8, <2>9
<1>3. PICK f : UpTo(f, N)
  BY <1>1, <1>2
<1>4. f = [i \in 0 .. N |-> IF i = 0 THEN <<>> ELSE AddName(ask, i, f[i - 1])]
  <2>1. \A i \in 0 .. N : i # 0 => i \in 1 .. N
    BY <1>1
  <2> QED
    BY <1>3, <2>1
<1> QED
  BY <1>4 DEF IsNames

LEMMA NamesAre ==
    ASSUME RegistryOK, NEW ask \in PathText
    PROVE  NamesOK(ask, Len(registry), ReplyNames(ask))
<1> DEFINE N == Len(registry)
           f == CHOOSE f : IsNames(ask, f)
           Bad == {m \in 0 .. N : ~NamesOK(ask, m, f[m])}
<1>1. N \in Nat
  BY DEF RegistryOK
<1>2. IsNames(ask, f)
  BY NamesExist
<1>3. ReplyNames(ask) = f[N]
  BY DEF ReplyNames, IsNames
<1> HIDE DEF f
<1>4. f[0] = <<>> /\ \A i \in 1 .. N : f[i] = AddName(ask, i, f[i - 1])
  BY <1>1, <1>2 DEF IsNames
<1>5. Bad = {}
  <2> SUFFICES ASSUME Bad # {} PROVE FALSE
    OBVIOUS
  <2>1. NamesOK(ask, 0, f[0])
    BY <1>4 DEF NamesOK
  <2>2. Bad \in SUBSET (0 .. N) /\ 0 \notin Bad
    BY <2>1
  <2>3. PICK m \in Bad : m \in 1 .. N /\ m - 1 \in 0 .. N /\ m - 1 \notin Bad
    <3> HIDE DEF Bad
    <3> QED
      BY <1>1, <2>2, LeastBadAfter0
  <2>4. NamesOK(ask, m - 1, f[m - 1]) /\ ~NamesOK(ask, m, f[m])
    BY <2>3
  <2> QED
    BY <1>4, <2>3, <2>4, AddNameKeeps
<1> QED
  BY <1>1, <1>3, <1>5

-----------------------------------------------------------------------------
(***************************************************************************)
(* The reply, and the property.                                            *)
(***************************************************************************)
LEMMA AskIs ==
    ASSUME NEW p \in PathText, NEW ask \in Asks(p)
    PROVE  /\ ask \in PathText /\ Len(ask) \in Nat \ {0} /\ ask[Len(ask)] = "/"
           /\ Last(ask) = "/" /\ IsPrefix(ask, p)
<1>1. PICK k \in DOMAIN p : p[k] = "/" /\ ask = SubSeq(p, 1, k)
  BY DEF Asks
<1>2. k \in 1 .. Len(p) /\ Len(p) \in Nat
  BY DEF PathText
<1>3. ask \in PathText /\ Len(ask) = k /\ \A i \in 1 .. k : ask[i] = p[i]
  BY <1>1, <1>2 DEF PathText
<1>4. IsPrefix(ask, p)
  BY <1>2, <1>3, PrefixIs
<1> QED
  BY <1>1, <1>2, <1>3, <1>4 DEF Last

\* NULL is below no path.
LEMMA NullIsNotBelow ==
    ASSUME NEW ask \in PathText, Len(ask) \in Nat \ {0}, ask[Len(ask)] = "/"
    PROVE  ~IsPrefix(ask, AnyPath)
<1>1. AnyPath \in PathText /\ \A i \in 1 .. Len(AnyPath) : AnyPath[i] # "/"
  BY PathAssumption DEF PathText
<1> QED
  BY <1>1, PrefixIs

\* Unless a method takes the request there is a reply.
LEMMA Answers ==
    ASSUME RegistryOK, NEW ask \in PathText, Last(ask) = "/", ~Taken(ask)
    PROVE  Replies(ask)
<1> DEFINE called == {i \in DOMAIN registry : registry[i].path \in {ask, AnyPath}}
<1>1. DOMAIN registry = 1 .. Len(registry) /\ Len(registry) \in Nat
  BY DEF RegistryOK
<1>2. \A i \in called : registry[i].ret = 1
  BY <1>1 DEF Taken, ToSet
<1>3. called # {} => Max(called) \in called
  BY <1>1, LastIndex
<1>4. LastReturn(ask) = IF called = {} THEN 1
                        ELSE IF \E i \in called : registry[i].ret = 0 THEN 0
                        ELSE registry[Max(called)].ret
  BY DEF LastReturn
<1> HIDE DEF called
<1>5. LastReturn(ask) = 1
  BY <1>2, <1>3, <1>4
<1> QED
  BY <1>5 DEF Replies

LEMMA FindsAll ==
    ASSUME RegistryOK
    PROVE  EnumerationFindsAll
<1> DEFINE N == Len(registry)
<1>1. N \in Nat /\ DOMAIN registry = 1 .. N
  BY DEF RegistryOK
<1> SUFFICES ASSUME NEW m \in ToSet(registry), m.path # AnyPath,
                    NEW ask \in Asks(m.path), ~Taken(ask)
             PROVE  LET names == ReplyNames(ask)
                        Below(n) == {i \in DOMAIN registry : Under(ask, names[n], registry[i].path)}
                        First(n) == CHOOSE i \in Below(n) : \A j \in Below(n) : i <= j
                    IN  /\ Replies(ask)
                        /\ \E n \in DOMAIN names : Under(ask, names[n], m.path)
                        /\ \A n \in DOMAIN names : Below(n) # {}
                        /\ \A n, k \in DOMAIN names : n < k => First(n) < First(k)
  BY DEF EnumerationFindsAll, Under
<1> DEFINE names == ReplyNames(ask)
           Below(n) == {i \in DOMAIN registry : Under(ask, names[n], registry[i].path)}
           First(n) == CHOOSE i \in Below(n) : \A j \in Below(n) : i <= j
<1>2. PICK j \in 1 .. N : m = registry[j]
  BY <1>1 DEF ToSet
<1>3. m.path \in PathText
  <2>1. registry[j].path \in PathText
    BY NameIs, EmptySeq DEF PathText
  <2> QED
    BY <1>2, <2>1
<1>4. /\ ask \in PathText /\ Len(ask) \in Nat \ {0} /\ ask[Len(ask)] = "/"
      /\ Last(ask) = "/" /\ IsPrefix(ask, m.path)
  BY <1>3, AskIs
<1>5. NamesOK(ask, N, names) /\ DOMAIN names = 1 .. Len(names) /\ Len(names) \in Nat
  <2>1. NamesOK(ask, N, names)
    BY <1>4, NamesAre
  <2> QED
    BY <2>1 DEF NamesOK
<1> HIDE DEF names
<1>6. ASSUME NEW n \in 1 .. Len(names), NEW i \in 1 .. N
      PROVE  Under(ask, names[n], registry[i].path) <=> Listed(ask, i) /\ names[n] = NameOf(ask, i)
  <2>1. names[n] \in PathText /\ NoSlash(names[n])
    BY <1>5, ElementOfSeq DEF NamesOK
  <2>2. registry[i].path \in PathText
    BY <1>4, NameIs
  <2>3. Under(ask, names[n], registry[i].path) <=>
           IsPrefix(ask, registry[i].path) /\ names[n] = NextName(registry[i].path, Len(ask))
    BY <1>4, <2>1, <2>2, UnderIs
  <2>4. IsPrefix(ask, registry[i].path) => registry[i].path # AnyPath
    BY <1>4, NullIsNotBelow
  <2> QED
    BY <2>3, <2>4 DEF Listed, NameOf
\* The first method with the n-th name; those before it have earlier names.
<1>7. ASSUME NEW n \in 1 .. Len(names)
      PROVE  /\ First(n) \in 1 .. N /\ Below(n) # {}
             /\ names[n] = NameOf(ask, First(n)) /\ Listed(ask, First(n))
             /\ \A h \in 1 .. First(n) - 1 : Listed(ask, h) =>
                   \E k \in 1 .. n - 1 : names[k] = NameOf(ask, h)
  <2>1. PICK i \in 1 .. N :
           /\ Listed(ask, i) /\ names[n] = NameOf(ask, i)
           /\ \A h \in 1 .. i - 1 : Listed(ask, h) =>
                 \E k \in 1 .. n - 1 : names[k] = NameOf(ask, h)
    BY <1>5 DEF NamesOK
  <2>2. i \in Below(n)
    BY <1>1, <1>6, <2>1
  <2>3. ASSUME NEW h \in Below(n), ~(i <= h) PROVE FALSE
    <3>1. h \in 1 .. i - 1 /\ Listed(ask, h) /\ names[n] = NameOf(ask, h)
      BY <1>1, <1>6, <2>3
    <3>2. PICK k \in 1 .. n - 1 : names[k] = NameOf(ask, h)
      BY <2>1, <3>1
    <3>3. k \in 1 .. Len(names) /\ k # n /\ names[k] = names[n]
      BY <1>5, <3>1, <3>2
    <3> QED
      BY <1>5, <3>3 DEF NamesOK
  <2>4. First(n) \in Below(n) /\ \A h \in Below(n) : First(n) <= h
    BY <2>2, <2>3
  <2>5. First(n) <= i /\ i <= First(n) /\ First(n) \in 1 .. N
    BY <1>1, <2>2, <2>3, <2>4
  <2> HIDE DEF First
  <2>6. First(n) = i
    BY <1>1, <2>5
  <2> QED
    BY <2>1, <2>2, <2>6
<1> HIDE DEF First
<1>8. ASSUME NEW n \in 1 .. Len(names), NEW k \in 1 .. Len(names), n < k PROVE First(n) < First(k)
  <2>1. First(n) \in 1 .. N /\ First(k) \in 1 .. N
    BY <1>7
  <2>2. First(n) # First(k)
    <3>1. names[n] # names[k]
      BY <1>5, <1>8 DEF NamesOK
    <3> QED
      BY <1>7, <3>1
  <2>3. ~(First(k) < First(n))
    <3> SUFFICES ASSUME First(k) < First(n) PROVE FALSE
      OBVIOUS
    <3>1. /\ First(k) \in 1 .. First(n) - 1 /\ Listed(ask, First(k))
          /\ names[k] = NameOf(ask, First(k))
      BY <1>7, <2>1
    <3>2. PICK l \in 1 .. n - 1 : names[l] = NameOf(ask, First(k))
      BY <1>7, <3>1
    <3>3. l \in 1 .. Len(names) /\ l # k /\ names[l] = names[k]
      BY <1>5, <1>8, <3>1, <3>2
    <3> QED
      BY <1>5, <3>3 DEF NamesOK
  <2> QED
    BY <1>1, <2>1, <2>2, <2>3
<1>9. \E n \in 1 .. Len(names) : Under(ask, names[n], m.path)
  <2>1. Listed(ask, j)
    BY <1>2, <1>4 DEF Listed
  <2>2. PICK n \in 1 .. Len(names) : names[n] = NameOf(ask, j)
    BY <1>5, <2>1 DEF NamesOK
  <2> QED
    BY <1>2, <1>6, <2>1, <2>2
<1>10. Replies(ask)
  BY <1>4, Answers
<1> HIDE DEF Below
<1>11. /\ Replies(ask)
       /\ \E n \in DOMAIN names : Under(ask, names[n], m.path)
       /\ \A n \in DOMAIN names : Below(n) # {}
       /\ \A n, k \in DOMAIN names : n < k => First(n) < First(k)
  BY <1>5, <1>7, <1>8, <1>9, <1>10
<1> QED
  BY <1>11 DEF names, Below, First

LEMMA NextRegistryOK == RegistryOK /\ [EnumNext]_registry => RegistryOK'
<1> SUFFICES ASSUME RegistryOK, [EnumNext]_registry PROVE RegistryOK'
  OBVIOUS
<1>1. CASE UNCHANGED registry
  BY <1>1 DEF RegistryOK
<1>2. ASSUME NEW p \in MethodPaths, NEW r \in Returns, lo_server_add_method(p, r) PROVE RegistryOK'
  <2>1. registry' = Append(registry, [path |-> p, ret |-> r])
    BY <1>2 DEF lo_server_add_method
  <2>2. [path |-> p, ret |-> r] \in [path : MethodPaths, ret : Returns]
    OBVIOUS
  <2> QED
    BY <2>1, <2>2, AppendProperties DEF RegistryOK
<1> QED
  BY <1>1, <1>2 DEF EnumNext

\* A client that asks for the names below each path it is told finds every method,
\* unless a method takes the request itself (server.c:1809-1872).
THEOREM ClientFindsAll == EnumSpec => []EnumerationFindsAll
<1>1. EnumInit => RegistryOK
  BY EmptySeq DEF EnumInit, RegistryOK
<1>2. RegistryOK => EnumerationFindsAll
  BY FindsAll
<1> QED
  BY <1>1, <1>2, NextRegistryOK, PTL DEF EnumSpec

-----------------------------------------------------------------------------
(***************************************************************************)
(* Address patterns.                                                       *)
(***************************************************************************)

-----------------------------------------------------------------------------
(* The first place *)

LEMMA MinOf ==
    ASSUME NEW S \in SUBSET Nat, NEW m \in S, \A x \in S : m <= x
    PROVE  Min(S) = m
<1>1. PICK x : x = Min(S)
  OBVIOUS
<1>2. x \in S /\ \A y \in S : x <= y
  <2>1. \E y \in S : \A z \in S : y <= z
    BY Zenon
  <2> QED
    BY <1>1, <2>1, Zenon DEF Min
<1>3. x <= m /\ m <= x /\ x \in Nat /\ m \in Nat
  BY <1>2
<1> QED
  BY <1>1, <1>3

\* m is the first of the places K, none of which is before j or behind n, or n + 1.
First(K, j, n, m) == m \in j .. n + 1 /\ (m <= n => m \in K) /\ \A k \in j .. m - 1 : k \notin K

LEMMA FirstAt ==
    ASSUME NEW n \in Nat, NEW j \in 1 .. n + 1, NEW K \in SUBSET (j .. n), NEW m, First(K, j, n, m)
    PROVE  Min(K \cup {n + 1}) = m
<1>1. m \in j .. n + 1 /\ (m <= n => m \in K) /\ \A k \in j .. m - 1 : k \notin K
  BY DEF First
<1>2. m \in K \cup {n + 1}
  BY <1>1
<1>3. ASSUME NEW x \in K \cup {n + 1} PROVE m <= x
  BY <1>1
<1>4. K \cup {n + 1} \in SUBSET Nat
  OBVIOUS
<1> QED
  BY <1>2, <1>3, <1>4, MinOf

LEMMA FirstIs ==
    ASSUME NEW n \in Nat, NEW j \in 1 .. n + 1, NEW K \in SUBSET (j .. n)
    PROVE  First(K, j, n, Min(K \cup {n + 1}))
<1>1. K \cup {n + 1} \in SUBSET Nat /\ K \cup {n + 1} # {}
  OBVIOUS
<1>2. PICK m \in K \cup {n + 1} : \A x \in K \cup {n + 1} : m <= x
  BY <1>1, LeastNat
<1>3. First(K, j, n, m)
  <2>1. m \in j .. n + 1 /\ (m <= n => m \in K)
    BY <1>2
  <2>2. ASSUME NEW k \in j .. m - 1 PROVE k \notin K
    BY <1>2, <2>1
  <2> QED
    BY <2>1, <2>2 DEF First
<1> QED
  BY <1>3, FirstAt

Finds(text, n, j, cs, m) ==
    /\ m \in j .. n + 1 /\ (m <= n => text[m] \in cs)
    /\ \A k \in j .. m - 1 : text[k] \notin cs

LEMMA FindIs ==
    ASSUME NEW text, NEW n \in Nat, n = Len(text), NEW j \in 1 .. n + 1, NEW cs
    PROVE  Finds(text, n, j, cs, Find(text, j, cs))
<1> DEFINE K == {k \in j .. n : text[k] \in cs}
<1>1. Find(text, j, cs) = Min(K \cup {n + 1})
  BY DEF Find
<1>2. PICK m : m = Min(K \cup {n + 1})
  OBVIOUS
<1>3. K \in SUBSET (j .. n)
  OBVIOUS
<1> HIDE DEF K
<1>4. First(K, j, n, m)
  BY <1>2, <1>3, FirstIs
<1>5. Finds(text, n, j, cs, m)
  BY <1>4 DEF First, Finds, K
<1> QED
  BY <1>1, <1>2, <1>5

LEMMA FindAt ==
    ASSUME NEW text, NEW n \in Nat, n = Len(text), NEW j \in 1 .. n + 1, NEW cs,
           NEW m, Finds(text, n, j, cs, m)
    PROVE  Find(text, j, cs) = m
<1> DEFINE K == {k \in j .. n : text[k] \in cs}
<1>1. Find(text, j, cs) = Min(K \cup {n + 1})
  BY DEF Find
<1>2. K \in SUBSET (j .. n)
  OBVIOUS
<1>3. First(K, j, n, m)
  BY DEF First, Finds
<1> HIDE DEF K
<1> QED
  BY <1>1, <1>2, <1>3, FirstAt

Skips(p, n, j, m) == m \in j .. n + 1 /\ (m <= n => p[m] # Star) /\ \A k \in j .. m - 1 : p[k] = Star

LEMMA SkipIs ==
    ASSUME NEW p, NEW n \in Nat, n = Len(p), NEW j \in 1 .. n + 1
    PROVE  Skips(p, n, j, SkipStars(p, j))
<1> DEFINE K == {k \in j .. n : p[k] # Star}
<1>1. SkipStars(p, j) = Min(K \cup {n + 1})
  BY DEF SkipStars
<1>2. PICK m : m = Min(K \cup {n + 1})
  OBVIOUS
<1>3. K \in SUBSET (j .. n)
  OBVIOUS
<1> HIDE DEF K
<1>4. First(K, j, n, m)
  BY <1>2, <1>3, FirstIs
<1>5. Skips(p, n, j, m)
  BY <1>4 DEF First, Skips, K
<1> QED
  BY <1>1, <1>2, <1>5

LEMMA SkipAt ==
    ASSUME NEW p, NEW n \in Nat, n = Len(p), NEW j \in 1 .. n + 1, NEW m, Skips(p, n, j, m)
    PROVE  SkipStars(p, j) = m
<1> DEFINE K == {k \in j .. n : p[k] # Star}
<1>1. SkipStars(p, j) = Min(K \cup {n + 1})
  BY DEF SkipStars
<1>2. K \in SUBSET (j .. n)
  OBVIOUS
<1>3. First(K, j, n, m)
  BY DEF First, Skips
<1> HIDE DEF K
<1> QED
  BY <1>1, <1>2, <1>3, FirstAt

-----------------------------------------------------------------------------
(* Functions on lo .. hi whose values are made of the values at later places *)

HasLast(T, lo, hi) == \E m \in T : \A k \in m + 1 .. hi : k \notin T

LEMMA LastBad ==
    ASSUME NEW lo \in Nat, NEW hi \in Nat, NEW T \in SUBSET (lo .. hi), T # {}
    PROVE  HasLast(T, lo, hi)
<1>1. T \in SUBSET (0 .. hi)
  OBVIOUS
<1>2. PICK m \in T : \A x \in T : x <= m
  BY <1>1, GreatestNat
<1>3. m \in Nat /\ \A k \in m + 1 .. hi : ~(k <= m)
  OBVIOUS
<1>4. \A k \in m + 1 .. hi : k \notin T
  BY <1>2, <1>3, Zenon
<1> QED
  BY <1>4, Zenon DEF HasLast

Agree(f, h, lo, hi) == \A k \in lo .. hi : f[k] = h[k]

AsksLater(G, V, lo, hi) ==
    \A j \in lo .. hi : \A f \in [lo .. hi -> V] :
        /\ G[j][f] \in V
        /\ \A h \in [lo .. hi -> V] : Agree(f, h, j + 1, hi) => G[j][f] = G[j][h]

Fixed(f, G, lo, hi) == \A j \in lo .. hi : f[j] = G[j][f]

LEMMA DownExists ==
    ASSUME NEW lo \in Nat, NEW hi \in Nat, lo <= hi, NEW V, V # {}, NEW G, AsksLater(G, V, lo, hi)
    PROVE  \E f \in [lo .. hi -> V] : Fixed(f, G, lo, hi)
<1> DEFINE F == [lo .. hi -> V]
           To(f, m) == \A j \in m .. hi : f[j] = G[j][f]
           Bad == {m \in lo .. hi : ~ \E f \in F : To(f, m)}
<1>1. SUFFICES Bad = {}
  <2>1. lo \in lo .. hi
    OBVIOUS
  <2>2. PICK f \in F : To(f, lo)
    BY <1>1, <2>1
  <2> QED
    BY <2>2 DEF Fixed
<1>2. SUFFICES ASSUME Bad # {} PROVE FALSE
  OBVIOUS
<1>3. PICK m \in Bad : \A k \in m + 1 .. hi : k \notin Bad
  <2>1. Bad \in SUBSET (lo .. hi)
    OBVIOUS
  <2> HIDE DEF Bad
  <2> QED
    <3>1. HasLast(Bad, lo, hi)
      BY <2>1, <1>2, LastBad
    <3> QED
      BY <3>1, Zenon DEF HasLast
<1>4. PICK h \in F : To(h, m + 1)
  <2>1. CASE m = hi
    <3>1. PICK v \in V : TRUE
      OBVIOUS
    <3>2. [j \in lo .. hi |-> v] \in F
      BY <3>1
    <3>3. m + 1 .. hi = {}
      BY <2>1, <1>3
    <3> QED
      BY <3>2, <3>3
  <2>2. CASE m # hi
    <3>1. m + 1 \in lo .. hi /\ m + 1 \in m + 1 .. hi
      BY <2>2, <1>3
    <3> QED
      BY <3>1, <1>3
  <2> QED
    BY <2>1, <2>2
<1>5. m \in lo .. hi
  BY <1>3
<1>6. PICK v \in V : v = G[m][h]
  BY <1>4, <1>5 DEF AsksLater
<1>7. PICK f \in F : f = [h EXCEPT ![m] = v]
  BY <1>4, <1>5, <1>6
<1>8. f[m] = v /\ \A k \in m + 1 .. hi : f[k] = h[k]
  BY <1>4, <1>5, <1>7
<1>9. ASSUME NEW j \in m .. hi PROVE f[j] = G[j][f]
  <2>1. j \in lo .. hi
    BY <1>5
  <2>2. Agree(h, f, j + 1, hi)
    <3>1. \A k \in j + 1 .. hi : k \in m + 1 .. hi
      BY <1>5
    <3> QED
      BY <3>1, <1>8 DEF Agree
  <2>3. G[j][h] = G[j][f]
    <3>1. \A g \in F : Agree(h, g, j + 1, hi) => G[j][h] = G[j][g]
      BY <2>1, <1>4, Zenon DEF AsksLater
    <3>2. f \in F
      BY <1>7
    <3> QED
      BY <3>1, <3>2, <2>2, Zenon
  <2>4. CASE j = m
    BY <2>3, <2>4, <1>6, <1>8
  <2>5. CASE j # m
    <3>1. j \in m + 1 .. hi
      BY <2>5, <1>5
    <3> QED
      BY <3>1, <2>3, <1>4, <1>8
  <2> QED
    BY <2>4, <2>5
<1>10. m \notin Bad
  BY <1>7, <1>9
<1> QED
  BY <1>3, <1>10

LEMMA DownUnique ==
    ASSUME NEW lo \in Nat, NEW hi \in Nat, NEW V, NEW G, AsksLater(G, V, lo, hi),
           NEW f \in [lo .. hi -> V], Fixed(f, G, lo, hi),
           NEW h \in [lo .. hi -> V], Fixed(h, G, lo, hi)
    PROVE  f = h
<1> DEFINE Bad == {j \in lo .. hi : f[j] # h[j]}
<1>1. SUFFICES Bad = {}
  <2>1. \A j \in lo .. hi : f[j] = h[j]
    BY <1>1
  <2> QED
    BY <2>1
<1>2. SUFFICES ASSUME Bad # {} PROVE FALSE
  OBVIOUS
<1>3. PICK m \in Bad : \A k \in m + 1 .. hi : k \notin Bad
  <2>1. Bad \in SUBSET (lo .. hi)
    OBVIOUS
  <2> HIDE DEF Bad
  <2> QED
    <3>1. HasLast(Bad, lo, hi)
      BY <2>1, <1>2, LastBad
    <3> QED
      BY <3>1, Zenon DEF HasLast
<1>4. m \in lo .. hi
  BY <1>3
<1>5. Agree(f, h, m + 1, hi)
  <2>1. \A k \in m + 1 .. hi : k \in lo .. hi
    BY <1>4
  <2> QED
    BY <2>1, <1>3 DEF Agree
<1>6. f[m] = h[m]
  <2>1. G[m][f] = G[m][h]
    <3>1. \A v \in [lo .. hi -> V] : Agree(f, v, m + 1, hi) => G[m][f] = G[m][v]
      BY <1>4, Zenon DEF AsksLater
    <3> QED
      BY <3>1, <1>5, Zenon
  <2> QED
    BY <2>1, <1>4 DEF Fixed
<1> QED
  BY <1>3, <1>6

-----------------------------------------------------------------------------
(* A set is read to its end *)

Reading == [ends : BOOLEAN, found : BOOLEAN, at : Nat]

ReadsOn(c, p, q, n, f) ==
    /\ (\A k \in q + 1 .. n : f[k] \in Reading) => ReadTwo(c, p, q, f) \in Reading
    /\ \A h : Agree(f, h, q + 1, n) => ReadTwo(c, p, q, f) = ReadTwo(c, p, q, h)
    /\ (\A k \in q + 1 .. n : f[k].ends => f[k].at \in k + 1 .. Len(p)) =>
          (ReadTwo(c, p, q, f).ends => ReadTwo(c, p, q, f).at \in q + 1 .. Len(p))

LEMMA ReadTwoIs ==
    ASSUME NEW c \in Nat, NEW p \in Seq(Nat), NEW n \in Nat, n = Len(p) + 1,
           NEW q \in 1 .. n, q < Len(p), NEW f
    PROVE  ReadsOn(c, p, q, n, f)
<1> DEFINE range == p[q + 1] = Minus
           next == IF range THEN q + 2 ELSE q + 1
           found == IF p[next] = CloseSet THEN IF range THEN c >= p[q] ELSE c = p[q]
                 ELSE c = p[q] \/ c = p[next] \/ (range /\ p[q] < c /\ c < p[next])
           R(h) == IF next > Len(p) THEN NoEnd
                   ELSE IF found \/ p[next] = CloseSet THEN End(found, next) ELSE h[next]
<1>1. \A h : ReadTwo(c, p, q, h) = R(h)
  BY Zenon DEF ReadTwo
<1>2. found \in BOOLEAN
  <2>1. CASE p[next] = CloseSet /\ range
    <3>1. found = (c >= p[q])
      BY <2>1, Zenon
    <3>2. ASSUME NEW x, NEW y PROVE (x >= y) \in BOOLEAN
      OBVIOUS
    <3> QED
      BY <3>1, <3>2, Zenon
  <2>2. CASE p[next] = CloseSet /\ ~ range
    <3>1. found = (c = p[q])
      BY <2>2, Zenon
    <3> QED
      BY <3>1
  <2>3. CASE p[next] # CloseSet
    <3>1. found = (c = p[q] \/ c = p[next] \/ (range /\ p[q] < c /\ c < p[next]))
      BY <2>3, Zenon
    <3> QED
      BY <3>1
  <2> QED
    BY <2>1, <2>2, <2>3, Zenon
<1>3. next \in {q + 1, q + 2} /\ Len(p) \in Nat
  OBVIOUS
<1> HIDE DEF found, next
<1>4. NoEnd \in Reading /\ NoEnd.ends = FALSE
  BY DEF NoEnd, Reading
<1>5. next <= Len(p) => /\ End(found, next) \in Reading
                        /\ End(found, next).ends = TRUE /\ End(found, next).at = next
  BY <1>2, <1>3 DEF End, Reading
<1>6. next <= Len(p) => next \in q + 1 .. n /\ next \in 1 .. n
  BY <1>3
<1>7. ASSUME \A k \in q + 1 .. n : f[k] \in Reading PROVE R(f) \in Reading
  BY <1>3, <1>4, <1>5, <1>6, <1>7
<1>8. ASSUME NEW h, Agree(f, h, q + 1, n) PROVE R(f) = R(h)
  BY <1>3, <1>6, <1>8 DEF Agree
<1>9. ASSUME \A k \in q + 1 .. n : f[k].ends => f[k].at \in k + 1 .. Len(p), R(f).ends
      PROVE  R(f).at \in q + 1 .. Len(p)
  <2>1. next <= Len(p)
    BY <1>3, <1>4, <1>9
  <2>2. next \in q + 1 .. Len(p) /\ next + 1 .. Len(p) \subseteq q + 1 .. Len(p)
    BY <2>1, <1>3
  <2>3. CASE found \/ p[next] = CloseSet
    BY <2>1, <2>2, <2>3, <1>3, <1>5
  <2>4. CASE ~ (found \/ p[next] = CloseSet)
    <3>1. R(f) = f[next]
      BY <2>1, <2>4, <1>3
    <3> QED
      BY <3>1, <2>1, <2>2, <1>6, <1>9
  <2> QED
    BY <2>3, <2>4
<1> HIDE DEF R
<1> QED
  BY <1>1, <1>7, <1>8, <1>9 DEF ReadsOn

\* How a set is read, as a function of the place where the reading begins.
Reads(f, c, p, n) ==
    /\ \A j \in 1 .. n : InSet(c, p, j) = f[j]
    /\ \A q \in 1 .. n : f[q] = IF q >= Len(p) THEN NoEnd ELSE ReadTwo(c, p, q, f)
    /\ \A q \in 1 .. n : f[q].ends => f[q].at \in q + 1 .. Len(p)

LEMMA InSetIs ==
    ASSUME NEW c \in Nat, NEW p \in Seq(Nat), NEW n \in Nat, n = Len(p) + 1
    PROVE  \E f \in [1 .. n -> Reading] : Reads(f, c, p, n)
<1> DEFINE D == 1 .. n
           F == [D -> Reading]
           Step(q, f) == IF q >= Len(p) THEN NoEnd ELSE ReadTwo(c, p, q, f)
           G == [q \in D |-> [f \in F |-> Step(q, f)]]
           Is(f) == f = [q \in D |-> Step(q, f)]
<1>0. Len(p) \in Nat /\ 1 <= n /\ 1 \in Nat
  OBVIOUS
<1>1. NoEnd \in Reading /\ NoEnd.ends = FALSE
  BY DEF NoEnd, Reading
<1>2. ASSUME NEW q \in D, NEW f
      PROVE  /\ (\A k \in q + 1 .. n : f[k] \in Reading) => Step(q, f) \in Reading
             /\ \A h : Agree(f, h, q + 1, n) => Step(q, f) = Step(q, h)
             /\ (\A k \in q + 1 .. n : f[k].ends => f[k].at \in k + 1 .. Len(p)) =>
                   (Step(q, f).ends => Step(q, f).at \in q + 1 .. Len(p))
  <2>1. CASE q >= Len(p)
    BY <2>1, <1>1
  <2>2. CASE q < Len(p)
    <3>1. ReadsOn(c, p, q, n, f)
      BY <2>2, ReadTwoIs
    <3>2. \A h : Step(q, h) = ReadTwo(c, p, q, h)
      BY <2>2, <1>0
    <3> HIDE DEF Step
    <3> QED
      BY <3>1, <3>2 DEF ReadsOn
  <2> QED
    BY <2>1, <2>2, <1>0
<1>3. \A q \in D : \A f \in F : G[q][f] = Step(q, f)
  BY Zenon
<1> HIDE DEF Step
<1>4. AsksLater(G, Reading, 1, n)
  <2>1. ASSUME NEW q \in D, NEW f \in F
        PROVE  G[q][f] \in Reading /\ \A h \in F : Agree(f, h, q + 1, n) => G[q][f] = G[q][h]
    <3>1. \A k \in q + 1 .. n : k \in D
      BY <1>0
    <3>2. Step(q, f) \in Reading
      BY <3>1, <1>2
    <3> QED
      BY <3>2, <1>2, <1>3
  <2> HIDE DEF G
  <2> QED
    BY <2>1 DEF AsksLater
<1>5. PICK f0 \in F : Fixed(f0, G, 1, n)
  <2> HIDE DEF G
  <2> QED
    BY <1>0, <1>1, <1>4, DownExists
<1>6. Is(f0)
  <2>1. \A q \in D : f0[q] = Step(q, f0)
    BY <1>3, <1>5 DEF Fixed
  <2> QED
    BY <2>1
<1>7. PICK f : f = CHOOSE h : Is(h)
  OBVIOUS
<1>8. Is(f)
  BY <1>6, <1>7, Zenon
<1>9. \A j \in D : InSet(c, p, j) = f[j]
  BY <1>7, Zenon DEF InSet, Step
<1>10. \A q \in D : f[q] = Step(q, f)
  BY <1>8
<1>11. ASSUME NEW q \in D PROVE f[q] \in Reading /\ (f[q].ends => f[q].at \in q + 1 .. Len(p))
  <2> DEFINE Good(k) == f[k] \in Reading /\ (f[k].ends => f[k].at \in k + 1 .. Len(p))
             Bad == {k \in D : ~ Good(k)}
  <2>1. SUFFICES ASSUME Bad # {} PROVE FALSE
    OBVIOUS
  <2>2. PICK m \in Bad : \A k \in m + 1 .. n : k \notin Bad
    <3>1. Bad \in SUBSET D
      OBVIOUS
    <3> HIDE DEF Bad
    <3> QED
      <4>1. HasLast(Bad, 1, n)
        BY <3>1, <2>1, <1>0, LastBad
      <4> QED
        BY <4>1, Zenon DEF HasLast
  <2>3. m \in D /\ ~ Good(m)
    BY <2>2
  <2>4. \A k \in m + 1 .. n : Good(k)
    <3>1. \A k \in m + 1 .. n : k \in D
      BY <2>3
    <3> QED
      BY <3>1, <2>2
  <2>5. Step(m, f) \in Reading /\ (Step(m, f).ends => Step(m, f).at \in m + 1 .. Len(p))
    BY <2>3, <2>4, <1>2
  <2> QED
    BY <2>3, <2>5, <1>10
<1>12. f \in F
  <2>1. f = [q \in D |-> f[q]]
    BY <1>8, <1>10
  <2>2. \A q \in D : f[q] \in Reading
    BY <1>11
  <2> QED
    BY <2>1, <2>2
<1> QED
  BY <1>9, <1>10, <1>11, <1>12 DEF Reads, Step

-----------------------------------------------------------------------------
(* A list in braces is read as a function of the place in it *)

Tails(s) == SUBSET (1 .. Len(s) + 1)
Stop(p, q) == Find(p, q + 1, {ListComma, CloseBrace})

AtComma(s, place, p, q, rest, match, alt) ==
    {a \in 1 .. Len(s) + 1 : a \in match[rest] \/ (q < Len(p) /\ place \in alt[q + 2])}
AtChar(s, place, p, q, rest, alt) ==
    {a \in 1 .. Len(s) + 1 :
        IF a <= Len(s) /\ p[q] = s[a]
        THEN (a < Len(s) \/ rest > Len(p)) /\ a + 1 \in alt[q + 1]
        ELSE Stop(p, q) <= Len(p) /\ p[Stop(p, q)] = ListComma /\ place \in alt[Stop(p, q) + 1]}

\* The four cases of a turn of the loop, whose outcome is A.
AltCases(A, s, place, p, q, rest, match, alt) ==
    /\ q > Len(p) => A = {}
    /\ q <= Len(p) /\ p[q] = ListComma => A = AtComma(s, place, p, q, rest, match, alt)
    /\ q <= Len(p) /\ p[q] = CloseBrace => A = match[q + 1]
    /\ q <= Len(p) /\ p[q] \notin {ListComma, CloseBrace} => A = AtChar(s, place, p, q, rest, alt)

LEMMA AlternativesAre ==
    ASSUME NEW s, NEW place, NEW p, NEW q \in Nat, NEW rest, NEW match, NEW alt, Len(p) \in Nat
    PROVE  AltCases(Alternatives(s, place, p, q, rest, match, alt), s, place, p, q, rest, match, alt)
<1>1. PICK A : A = Alternatives(s, place, p, q, rest, match, alt)
  OBVIOUS
<1>2. PICK comma : comma = AtComma(s, place, p, q, rest, match, alt)
  OBVIOUS
<1>3. PICK other : other = AtChar(s, place, p, q, rest, alt)
  OBVIOUS
<1>4. PICK brace : brace = match[q + 1]
  OBVIOUS
<1>5. A = CASE q > Len(p) -> {}
            [] q <= Len(p) /\ p[q] = ListComma -> comma
            [] q <= Len(p) /\ p[q] = CloseBrace -> brace
            [] q <= Len(p) /\ p[q] \notin {ListComma, CloseBrace} -> other
  BY <1>1, <1>2, <1>3, <1>4 DEF Alternatives, AtComma, AtChar, Stop
<1>6. (q > Len(p) \/ q <= Len(p)) /\ ~ (q > Len(p) /\ q <= Len(p)) /\ ListComma # CloseBrace
  BY DEF ListComma, CloseBrace
<1>7. q > Len(p) => A = {}
  BY <1>5, <1>6
<1>8. q <= Len(p) /\ p[q] = ListComma => A = comma
  BY <1>5, <1>6
<1>9. q <= Len(p) /\ p[q] = CloseBrace => A = brace
  BY <1>5, <1>6
<1>10. q <= Len(p) /\ p[q] \notin {ListComma, CloseBrace} => A = other
  BY <1>5, <1>6
<1> QED
  BY <1>1, <1>2, <1>3, <1>4, <1>7, <1>8, <1>9, <1>10, Zenon DEF AltCases

\* A turn of the loop over a list asks for later places only.
AsksOn(s, place, p, rest, lo, n, q, match, alt) ==
    /\ Alternatives(s, place, p, q, rest, match, alt) \in Tails(s)
    /\ \A h : Agree(alt, h, q + 1, n) =>
          Alternatives(s, place, p, q, rest, match, alt) = Alternatives(s, place, p, q, rest, match, h)
    /\ \A m : Agree(match, m, lo + 1, n) =>
          Alternatives(s, place, p, q, rest, match, alt) = Alternatives(s, place, p, q, rest, m, alt)

LEMMA AlternativesAsk ==
    ASSUME NEW s \in Seq(Nat), NEW p \in Seq(Nat), NEW n \in Nat, n = Len(p) + 1, NEW place,
           NEW lo \in 1 .. n, NEW rest \in lo + 1 .. n, NEW q \in lo .. n,
           NEW match \in [1 .. n -> Tails(s)], NEW alt
    PROVE  AsksOn(s, place, p, rest, lo, n, q, match, alt)
<1> DEFINE A(m, h) == Alternatives(s, place, p, q, rest, m, h)
<1>0. Len(p) \in Nat /\ q \in Nat /\ lo \in Nat
  OBVIOUS
<1>1. \A m, h : AltCases(A(m, h), s, place, p, q, rest, m, h)
  BY <1>0, AlternativesAre
<1> HIDE DEF A
<1>2. \/ q > Len(p)
      \/ q <= Len(p) /\ p[q] = ListComma
      \/ q <= Len(p) /\ p[q] = CloseBrace
      \/ q <= Len(p) /\ p[q] \notin {ListComma, CloseBrace}
  BY <1>0
<1>3. CASE q > Len(p)
  <2>1. \A m, h : A(m, h) = {}
    BY <1>1, <1>3 DEF AltCases
  <2>2. {} \in Tails(s)
    BY DEF Tails
  <2> QED
    BY <2>1, <2>2, Zenon DEF AsksOn, A
<1>4. CASE q <= Len(p) /\ p[q] = ListComma
  <2>1. \A m, h : A(m, h) = AtComma(s, place, p, q, rest, m, h)
    BY <1>1, <1>4 DEF AltCases
  <2>2. \A m, h : AtComma(s, place, p, q, rest, m, h) \in Tails(s)
    BY DEF Tails, AtComma
  <2>3. \A h : Agree(alt, h, q + 1, n) =>
            AtComma(s, place, p, q, rest, match, alt) = AtComma(s, place, p, q, rest, match, h)
    <3>1. q < Len(p) => q + 2 \in q + 1 .. n
      BY <1>0
    <3> QED
      BY <3>1 DEF Agree, AtComma
  <2>4. \A m : Agree(match, m, lo + 1, n) =>
            AtComma(s, place, p, q, rest, match, alt) = AtComma(s, place, p, q, rest, m, alt)
    BY DEF Agree, AtComma
  <2> QED
    BY <2>1, <2>2, <2>3, <2>4, Zenon DEF AsksOn, A
<1>5. CASE q <= Len(p) /\ p[q] = CloseBrace
  <2>1. \A m, h : A(m, h) = m[q + 1]
    BY <1>1, <1>5 DEF AltCases
  <2>2. q + 1 \in lo + 1 .. n /\ q + 1 \in 1 .. n
    BY <1>0, <1>5
  <2>3. match[q + 1] \in Tails(s)
    BY <2>2
  <2>4. \A m : Agree(match, m, lo + 1, n) => match[q + 1] = m[q + 1]
    BY <2>2 DEF Agree
  <2> QED
    BY <2>1, <2>3, <2>4, Zenon DEF AsksOn, A
<1>6. CASE q <= Len(p) /\ p[q] \notin {ListComma, CloseBrace}
  <2>1. \A m, h : A(m, h) = AtChar(s, place, p, q, rest, h)
    BY <1>1, <1>6 DEF AltCases
  <2>2. \A h : AtChar(s, place, p, q, rest, h) \in Tails(s)
    BY DEF Tails, AtChar
  <2>3. \A h : Agree(alt, h, q + 1, n) =>
            AtChar(s, place, p, q, rest, alt) = AtChar(s, place, p, q, rest, h)
    <3>0. q + 1 \in 1 .. Len(p) + 1
      BY <1>0, <1>6
    <3>1. PICK x : x = Stop(p, q)
      OBVIOUS
    <3>2. Finds(p, Len(p), q + 1, {ListComma, CloseBrace}, x)
      BY <3>0, <3>1, <1>0, FindIs DEF Stop
    <3>3. x <= Len(p) => x + 1 \in q + 1 .. n
      BY <3>2, <1>0 DEF Finds
    <3>4. q + 1 \in q + 1 .. n
      BY <1>0, <1>6
    <3> QED
      BY <3>1, <3>3, <3>4 DEF Agree, AtChar
  <2> QED
    BY <2>1, <2>2, <2>3, Zenon DEF AsksOn, A
<1> QED
  BY <1>2, <1>3, <1>4, <1>5, <1>6

\* The function that MatchList defines, and that it is the only one.
ListSteps(s, place, p, j, rest, match) ==
    [q \in j .. Len(p) + 1 |-> [alt \in [j .. Len(p) + 1 -> Tails(s)] |->
        Alternatives(s, place, p, q, rest, match, alt)]]

Lists(alt, s, place, p, j, n, rest, match) ==
    /\ Fixed(alt, ListSteps(s, place, p, j, rest, match), j, n)
    /\ MatchList(s, place, p, j, rest, match) = (place \in alt[j])
    /\ \A q \in j .. n : alt[q] = Alternatives(s, place, p, q, rest, match, alt)

ListsAsk(G, s, place, p, j, n, rest, match) ==
    /\ AsksLater(G, Tails(s), j, n)
    /\ \A q \in j .. n : \A alt \in [j .. n -> Tails(s)] :
          G[q][alt] = Alternatives(s, place, p, q, rest, match, alt)

LEMMA ListAsks ==
    ASSUME NEW s \in Seq(Nat), NEW p \in Seq(Nat), NEW n \in Nat, n = Len(p) + 1, NEW place,
           NEW j \in 1 .. n, NEW rest \in j + 1 .. n, NEW match \in [1 .. n -> Tails(s)]
    PROVE  ListsAsk(ListSteps(s, place, p, j, rest, match), s, place, p, j, n, rest, match)
<1> DEFINE F == [j .. n -> Tails(s)]
<1>1. PICK G : G = ListSteps(s, place, p, j, rest, match)
  OBVIOUS
<1>2. \A q \in j .. n : \A alt \in F : G[q][alt] = Alternatives(s, place, p, q, rest, match, alt)
  BY <1>1, Zenon DEF ListSteps
<1>3. ASSUME NEW q \in j .. n, NEW alt \in F
      PROVE  G[q][alt] \in Tails(s) /\ \A h \in F : Agree(alt, h, q + 1, n) => G[q][alt] = G[q][h]
  <2>1. AsksOn(s, place, p, rest, j, n, q, match, alt)
    BY AlternativesAsk
  <2> QED
    <3>1. G[q][alt] = Alternatives(s, place, p, q, rest, match, alt)
      BY <1>2
    <3>2. \A h \in F : G[q][h] = Alternatives(s, place, p, q, rest, match, h)
      BY <1>2
    <3>3. /\ Alternatives(s, place, p, q, rest, match, alt) \in Tails(s)
          /\ \A h : Agree(alt, h, q + 1, n) =>
                Alternatives(s, place, p, q, rest, match, alt) = Alternatives(s, place, p, q, rest, match, h)
      BY <2>1, Zenon DEF AsksOn
    <3> QED
      BY <3>1, <3>2, <3>3, Zenon
<1>4. AsksLater(G, Tails(s), j, n)
  BY <1>3, Zenon DEF AsksLater
<1> QED
  BY <1>1, <1>2, <1>4 DEF ListsAsk

LEMMA MatchListIs ==
    ASSUME NEW s \in Seq(Nat), NEW p \in Seq(Nat), NEW n \in Nat, n = Len(p) + 1, NEW place,
           NEW j \in 1 .. n, NEW rest \in j + 1 .. n, NEW match \in [1 .. n -> Tails(s)]
    PROVE  \E alt \in [j .. n -> Tails(s)] : Lists(alt, s, place, p, j, n, rest, match)
<1> DEFINE F == [j .. n -> Tails(s)]
           A(q, f) == Alternatives(s, place, p, q, rest, match, f)
           Is(f) == f = [q \in j .. n |-> A(q, f)]
<1>0. PICK G : G = ListSteps(s, place, p, j, rest, match) /\ ListsAsk(G, s, place, p, j, n, rest, match)
  BY ListAsks
<1>1. /\ G = ListSteps(s, place, p, j, rest, match) /\ AsksLater(G, Tails(s), j, n)
      /\ \A q \in j .. n : \A f \in F : G[q][f] = A(q, f)
  BY <1>0 DEF ListsAsk
<1>2. j \in Nat /\ j <= n /\ Tails(s) # {}
  <2>1. {} \in Tails(s)
    BY DEF Tails
  <2> QED
    BY <2>1
<1>3. PICK f0 \in F : Fixed(f0, G, j, n)
  BY <1>1, <1>2, DownExists
<1> HIDE DEF A
<1>4. Is(f0)
  <2>1. \A q \in j .. n : f0[q] = A(q, f0)
    BY <1>1, <1>3 DEF Fixed
  <2> QED
    BY <2>1
<1>5. PICK f : f = CHOOSE h : Is(h)
  OBVIOUS
<1>6. Is(f)
  BY <1>4, <1>5, Zenon
<1>7. MatchList(s, place, p, j, rest, match) = (place \in f[j])
  BY <1>5, Zenon DEF MatchList, A
<1>8. \A q \in j .. n : f[q] = A(q, f)
  BY <1>6
<1>9. \A q \in j .. n : A(q, f) \in Tails(s)
  BY AlternativesAsk DEF AsksOn, A
<1>10. f \in F
  BY <1>6, <1>9
<1>11. Fixed(f, G, j, n)
  BY <1>1, <1>8, <1>10 DEF Fixed
<1> QED
  BY <1>1, <1>7, <1>8, <1>10, <1>11 DEF A, Lists

ListsSame(s, p, n, place, j, rest, match, m) ==
    MatchList(s, place, p, j, rest, match) = MatchList(s, place, p, j, rest, m)

LEMMA MatchListAgrees ==
    ASSUME NEW s \in Seq(Nat), NEW p \in Seq(Nat), NEW n \in Nat, n = Len(p) + 1, NEW place,
           NEW j \in 1 .. n, NEW rest \in j + 1 .. n, NEW match \in [1 .. n -> Tails(s)],
           NEW m \in [1 .. n -> Tails(s)], Agree(match, m, j + 1, n)
    PROVE  ListsSame(s, p, n, place, j, rest, match, m)
<1> DEFINE F == [j .. n -> Tails(s)]
<1>0. PICK G : G = ListSteps(s, place, p, j, rest, match) /\ ListsAsk(G, s, place, p, j, n, rest, match)
  BY ListAsks
<1>1. /\ G = ListSteps(s, place, p, j, rest, match) /\ AsksLater(G, Tails(s), j, n)
      /\ \A q \in j .. n : \A f \in F : G[q][f] = Alternatives(s, place, p, q, rest, match, f)
  BY <1>0 DEF ListsAsk
<1>3. PICK f \in F : Lists(f, s, place, p, j, n, rest, match)
  BY MatchListIs
<1>4. PICK h \in F : Lists(h, s, place, p, j, n, rest, m)
  BY MatchListIs
<1>5. ASSUME NEW q \in j .. n PROVE h[q] = G[q][h]
  <2>1. h[q] = Alternatives(s, place, p, q, rest, m, h)
    BY <1>4 DEF Lists
  <2>2. AsksOn(s, place, p, rest, j, n, q, match, h)
    BY AlternativesAsk
  <2>3. Alternatives(s, place, p, q, rest, match, h) = Alternatives(s, place, p, q, rest, m, h)
    BY <2>2 DEF AsksOn
  <2> QED
    BY <2>1, <2>3, <1>1
<1>6. Fixed(h, G, j, n)
  BY <1>5 DEF Fixed
<1>7. f = h
  <2>1. j \in Nat
    OBVIOUS
  <2>2. Fixed(f, G, j, n)
    BY <1>1, <1>3 DEF Lists
  <2> QED
    BY <2>1, <2>2, <1>1, <1>6, DownUnique
<1> QED
  BY <1>3, <1>4, <1>7 DEF Lists, ListsSame

-----------------------------------------------------------------------------
(* A pattern is matched as a function of the place in it *)

AtFree(s, j, match) == {i \in 1 .. Len(s) : i + 1 \in match[j + 1]}
AtPlain(s, p, j, match) == {i \in 1 .. Len(s) : s[i] = p[j] /\ i + 1 \in match[j + 1]}

\* The cases of a turn of the loop, whose outcome is M.
MatchCases(M, s, p, j, match) ==
    /\ j > Len(p) => M = {Len(s) + 1}
    /\ j <= Len(p) /\ p[j] = Star => M = MatchStar(s, p, j + 1, match)
    /\ j <= Len(p) /\ p[j] = Question => M = AtFree(s, j, match)
    /\ j <= Len(p) /\ p[j] = OpenSet => M = MatchSet(s, p, j + 1, match)
    /\ j <= Len(p) /\ p[j] = OpenBrace => M = MatchBrace(s, p, j + 1, match)
    /\ j <= Len(p) /\ p[j] \notin Special => M = AtPlain(s, p, j, match)

LEMMA MatchFromIs ==
    ASSUME NEW s, NEW p, NEW j \in Nat, NEW match, Len(p) \in Nat
    PROVE  MatchCases(MatchFrom(s, p, j, match), s, p, j, match)
<1>1. PICK M : M = MatchFrom(s, p, j, match)
  OBVIOUS
<1>2. PICK end : end = {Len(s) + 1}
  OBVIOUS
<1>3. PICK star : star = MatchStar(s, p, j + 1, match)
  OBVIOUS
<1>4. PICK free : free = AtFree(s, j, match)
  OBVIOUS
<1>5. PICK set : set = MatchSet(s, p, j + 1, match)
  OBVIOUS
<1>6. PICK brace : brace = MatchBrace(s, p, j + 1, match)
  OBVIOUS
<1>7. PICK plain : plain = AtPlain(s, p, j, match)
  OBVIOUS
<1>8. M = CASE j > Len(p) -> end
            [] j <= Len(p) /\ p[j] = Star -> star
            [] j <= Len(p) /\ p[j] = Question -> free
            [] j <= Len(p) /\ p[j] = OpenSet -> set
            [] j <= Len(p) /\ p[j] = OpenBrace -> brace
            [] j <= Len(p) /\ p[j] \notin Special -> plain
  BY <1>1, <1>2, <1>3, <1>4, <1>5, <1>6, <1>7 DEF MatchFrom, AtFree, AtPlain
<1>9. /\ ~ (j > Len(p) /\ j <= Len(p))
      /\ p[j] \in Special <=> p[j] \in {Star, Question, OpenSet, OpenBrace}
      /\ Star = 42 /\ Question = 63 /\ OpenSet = 91 /\ OpenBrace = 123
  BY DEF Special, Star, Question, OpenSet, OpenBrace
<1>10. j > Len(p) => M = end
  BY <1>8, <1>9
<1>11. j <= Len(p) /\ p[j] = Star => M = star
  BY <1>8, <1>9
<1>12. j <= Len(p) /\ p[j] = Question => M = free
  BY <1>8, <1>9
<1>13. j <= Len(p) /\ p[j] = OpenSet => M = set
  BY <1>8, <1>9
<1>14. j <= Len(p) /\ p[j] = OpenBrace => M = brace
  BY <1>8, <1>9
<1>15. j <= Len(p) /\ p[j] \notin Special => M = plain
  BY <1>8, <1>9
<1> QED
  BY <1>1, <1>2, <1>3, <1>4, <1>5, <1>6, <1>7, <1>10, <1>11, <1>12, <1>13, <1>14, <1>15, Zenon DEF MatchCases

LEMMA MatchFromCase ==
    ASSUME NEW p \in Seq(Nat), NEW j \in 1 .. Len(p) + 1
    PROVE  \/ j > Len(p)
           \/ j <= Len(p) /\ p[j] = Star
           \/ j <= Len(p) /\ p[j] = Question
           \/ j <= Len(p) /\ p[j] = OpenSet
           \/ j <= Len(p) /\ p[j] = OpenBrace
           \/ j <= Len(p) /\ p[j] \notin Special
BY DEF Special

LEMMA MatchFromIn ==
    ASSUME NEW s \in Seq(Nat), NEW p \in Seq(Nat), NEW j \in 1 .. Len(p) + 1, NEW match
    PROVE  MatchFrom(s, p, j, match) \in Tails(s)
<1>0. Len(p) \in Nat /\ j \in Nat /\ Len(s) \in Nat
  OBVIOUS
<1>1. MatchCases(MatchFrom(s, p, j, match), s, p, j, match)
  BY <1>0, MatchFromIs
<1>2. {Len(s) + 1} \in Tails(s)
  BY <1>0 DEF Tails
<1>3. MatchStar(s, p, j + 1, match) \in Tails(s)
  BY DEF MatchStar, Tails
<1>4. AtFree(s, j, match) \in Tails(s) /\ AtPlain(s, p, j, match) \in Tails(s)
  BY DEF AtFree, AtPlain, Tails
<1>5. MatchSet(s, p, j + 1, match) \in Tails(s)
  BY DEF MatchSet, Tails
<1>6. MatchBrace(s, p, j + 1, match) \in Tails(s)
  BY DEF MatchBrace, Tails
<1> QED
  BY <1>1, <1>2, <1>3, <1>4, <1>5, <1>6, MatchFromCase, Zenon DEF MatchCases

\* What is asked for are later places.
StarAsks(s, p, n, j, match) ==
    \A m : Agree(match, m, j, n) => MatchStar(s, p, j, match) = MatchStar(s, p, j, m)
SetAsks(s, p, n, j, match) ==
    \A m : Agree(match, m, j, n) => MatchSet(s, p, j, match) = MatchSet(s, p, j, m)
BraceAsks(s, p, n, j, match) ==
    \A m \in [1 .. n -> Tails(s)] : Agree(match, m, j, n) => MatchBrace(s, p, j, match) = MatchBrace(s, p, j, m)

LEMMA StarAsksOn ==
    ASSUME NEW s \in Seq(Nat), NEW p \in Seq(Nat), NEW n \in Nat, n = Len(p) + 1,
           NEW j \in 1 .. n, NEW match
    PROVE  StarAsks(s, p, n, j, match)
<1>1. PICK k : k = SkipStars(p, j)
  OBVIOUS
<1>2. Skips(p, Len(p), j, k)
  BY <1>1, SkipIs
<1>3. k \in j .. n
  BY <1>2 DEF Skips
<1>4. ASSUME NEW m, Agree(match, m, j, n) PROVE match[k] = m[k]
  BY <1>3, <1>4 DEF Agree
<1> QED
  BY <1>1, <1>4 DEF StarAsks, MatchStar

LEMMA SetAsksOn ==
    ASSUME NEW s \in Seq(Nat), NEW p \in Seq(Nat), NEW n \in Nat, n = Len(p) + 1,
           NEW j \in 1 .. n, NEW match
    PROVE  SetAsks(s, p, n, j, match)
<1> DEFINE negate == j <= Len(p) /\ p[j] = Negate
           from == IF negate THEN j + 1 ELSE j
           set(i) == InSet(s[i], p, from)
           close(i) == Find(p, set(i).at, {CloseSet})
           Set(m) == {i \in 1 .. Len(s) : /\ set(i).ends /\ set(i).found # negate
                                          /\ close(i) <= Len(p) /\ i + 1 \in m[close(i) + 1]}
<1>1. \A m : MatchSet(s, p, j, m) = Set(m)
  BY DEF MatchSet
<1>2. from \in j .. n /\ from \in 1 .. n /\ Len(p) \in Nat
  OBVIOUS
<1> HIDE DEF negate, from
<1>3. ASSUME NEW i \in 1 .. Len(s), set(i).ends, close(i) <= Len(p) PROVE close(i) + 1 \in j .. n
  <2>1. s[i] \in Nat
    OBVIOUS
  <2>2. PICK f \in [1 .. n -> Reading] : Reads(f, s[i], p, n)
    BY <2>1, InSetIs
  <2>3. set(i) = f[from]
    BY <2>2, <1>2 DEF Reads
  <2>4. PICK at : at = set(i).at
    OBVIOUS
  <2>5. at \in from + 1 .. Len(p)
    BY <2>2, <2>3, <2>4, <1>2, <1>3 DEF Reads
  <2>6. at \in 1 .. Len(p) + 1 /\ at >= j
    BY <2>5, <1>2
  <2>7. PICK c : c = Find(p, at, {CloseSet})
    OBVIOUS
  <2>8. Finds(p, Len(p), at, {CloseSet}, c)
    BY <2>6, <2>7, <1>2, FindIs
  <2>9. c = close(i)
    BY <2>4, <2>7
  <2>10. c + 1 \in j .. n
    <3>1. c \in at .. Len(p) + 1 /\ c <= Len(p)
      BY <2>8, <2>9, <1>3 DEF Finds
    <3> QED
      BY <3>1, <2>6, <1>2
  <2> QED
    BY <2>9, <2>10
<1> HIDE DEF set, close
<1>4. ASSUME NEW m, Agree(match, m, j, n) PROVE Set(match) = Set(m)
  BY <1>3, <1>4 DEF Agree
<1> QED
  BY <1>1, <1>4 DEF SetAsks

LEMMA BraceAsksOn ==
    ASSUME NEW s \in Seq(Nat), NEW p \in Seq(Nat), NEW n \in Nat, n = Len(p) + 1,
           NEW j \in 1 .. n, NEW match \in [1 .. n -> Tails(s)]
    PROVE  BraceAsks(s, p, n, j, match)
<1>1. PICK close : close = Find(p, j, {CloseBrace})
  OBVIOUS
<1> DEFINE Set(m) == {i \in 1 .. Len(s) : close <= Len(p) /\ MatchList(s, i, p, j, close + 1, m)}
<1>2. \A m : MatchBrace(s, p, j, m) = Set(m)
  BY <1>1 DEF MatchBrace
<1>3. ASSUME NEW m \in [1 .. n -> Tails(s)], Agree(match, m, j, n) PROVE Set(match) = Set(m)
  <2>1. CASE close > Len(p)
    <3>1. ~ close <= Len(p)
      <4>1. Finds(p, Len(p), j, {CloseBrace}, close)
        BY <1>1, FindIs
      <4> QED
        BY <4>1, <2>1 DEF Finds
    <3> QED
      BY <3>1
  <2>2. CASE ~ close > Len(p)
    <3>1. close + 1 \in j + 1 .. n
      <4>1. Finds(p, Len(p), j, {CloseBrace}, close)
        BY <1>1, FindIs
      <4> QED
        BY <4>1, <2>2 DEF Finds
    <3>2. Agree(match, m, j + 1, n)
      BY <1>3 DEF Agree
    <3>3. ASSUME NEW i \in 1 .. Len(s) PROVE ListsSame(s, p, n, i, j, close + 1, match, m)
      BY <3>1, <3>2, MatchListAgrees
    <3> QED
      BY <3>3 DEF ListsSame
  <2> QED
    BY <2>1, <2>2
<1> QED
  BY <1>2, <1>3 DEF BraceAsks

MatchAsks(s, p, n, j, match) ==
    \A m \in [1 .. n -> Tails(s)] :
        Agree(match, m, j + 1, n) => MatchFrom(s, p, j, match) = MatchFrom(s, p, j, m)

LEMMA MatchAsksOn ==
    ASSUME NEW s \in Seq(Nat), NEW p \in Seq(Nat), NEW n \in Nat, n = Len(p) + 1,
           NEW j \in 1 .. n, NEW match \in [1 .. n -> Tails(s)]
    PROVE  MatchAsks(s, p, n, j, match)
<1>1. SUFFICES ASSUME NEW m \in [1 .. n -> Tails(s)], Agree(match, m, j + 1, n)
               PROVE  MatchFrom(s, p, j, match) = MatchFrom(s, p, j, m)
  BY DEF MatchAsks
<1>0. Len(p) \in Nat /\ j \in Nat /\ j \in 1 .. Len(p) + 1
  OBVIOUS
<1>2. MatchCases(MatchFrom(s, p, j, match), s, p, j, match)
  BY <1>0, MatchFromIs
<1>3. MatchCases(MatchFrom(s, p, j, m), s, p, j, m)
  BY <1>0, MatchFromIs
<1>4. CASE j > Len(p)
  BY <1>2, <1>3, <1>4 DEF MatchCases
<1>5. CASE j <= Len(p)
  <2>0. j + 1 \in 1 .. n /\ j + 1 \in j + 1 .. n
    BY <1>0, <1>5
  <2>1. MatchStar(s, p, j + 1, match) = MatchStar(s, p, j + 1, m)
    <3>1. StarAsks(s, p, n, j + 1, match)
      BY <2>0, StarAsksOn
    <3> QED
      BY <3>1, <1>1, Zenon DEF StarAsks
  <2>2. MatchSet(s, p, j + 1, match) = MatchSet(s, p, j + 1, m)
    <3>1. SetAsks(s, p, n, j + 1, match)
      BY <2>0, SetAsksOn
    <3> QED
      BY <3>1, <1>1, Zenon DEF SetAsks
  <2>3. MatchBrace(s, p, j + 1, match) = MatchBrace(s, p, j + 1, m)
    <3>1. BraceAsks(s, p, n, j + 1, match)
      BY <2>0, BraceAsksOn
    <3> QED
      BY <3>1, <1>1, Zenon DEF BraceAsks
  <2>4. AtFree(s, j, match) = AtFree(s, j, m) /\ AtPlain(s, p, j, match) = AtPlain(s, p, j, m)
    BY <2>0, <1>1 DEF AtFree, AtPlain, Agree
  <2> QED
    BY <2>1, <2>2, <2>3, <2>4, <1>0, <1>2, <1>3, <1>5, MatchFromCase, Zenon DEF MatchCases
<1> QED
  BY <1>0, <1>4, <1>5

Follows(match, s, p, n) == \A j \in 1 .. n : match[j] = MatchFrom(s, p, j, match)

LEMMA MatchIs ==
    ASSUME NEW s \in Seq(Nat), NEW p \in Seq(Nat), NEW n \in Nat, n = Len(p) + 1
    PROVE  \E match \in [1 .. n -> Tails(s)] :
              lo_pattern_match(s, p) = (1 \in match[1]) /\ Follows(match, s, p, n)
<1> DEFINE D == 1 .. n
           F == [D -> Tails(s)]
           M(j, f) == MatchFrom(s, p, j, f)
           G == [j \in D |-> [f \in F |-> M(j, f)]]
           Is(f) == f = [j \in D |-> M(j, f)]
<1>0. 1 <= n /\ 1 \in Nat /\ Tails(s) # {}
  <2>1. {} \in Tails(s)
    BY DEF Tails
  <2> QED
    BY <2>1
<1>1. \A j \in D : \A f \in F : G[j][f] = M(j, f)
  BY Zenon
<1>2. \A j \in D : \A f : M(j, f) \in Tails(s)
  BY MatchFromIn
<1>3. ASSUME NEW j \in D, NEW f \in F
      PROVE  G[j][f] \in Tails(s) /\ \A h \in F : Agree(f, h, j + 1, n) => G[j][f] = G[j][h]
  <2>1. MatchAsks(s, p, n, j, f)
    BY MatchAsksOn
  <2>2. \A h \in F : Agree(f, h, j + 1, n) => M(j, f) = M(j, h)
    BY <2>1 DEF MatchAsks
  <2> HIDE DEF M, G
  <2> QED
    <3>1. G[j][f] = M(j, f) /\ \A h \in F : G[j][h] = M(j, h)
      BY <1>1, Zenon
    <3>2. M(j, f) \in Tails(s)
      BY <1>2, Zenon
    <3> QED
      BY <2>2, <3>1, <3>2, Zenon
<1> HIDE DEF M
<1>4. AsksLater(G, Tails(s), 1, n)
  <2> HIDE DEF G
  <2> QED
    BY <1>3, Zenon DEF AsksLater
<1>5. PICK f0 \in F : Fixed(f0, G, 1, n)
  <2> HIDE DEF G
  <2> QED
    BY <1>0, <1>4, DownExists
<1>6. Is(f0)
  <2>1. \A j \in D : f0[j] = M(j, f0)
    BY <1>1, <1>5 DEF Fixed
  <2> QED
    BY <2>1
<1>7. PICK f : f = CHOOSE h : Is(h)
  OBVIOUS
<1>8. Is(f)
  BY <1>6, <1>7, Zenon
<1>9. lo_pattern_match(s, p) = (1 \in f[1])
  BY <1>7, Zenon DEF lo_pattern_match, M
<1>10. \A j \in D : f[j] = M(j, f)
  BY <1>8
<1>11. f \in F
  BY <1>2, <1>8
<1> QED
  BY <1>9, <1>10, <1>11 DEF Follows, M

-----------------------------------------------------------------------------
(* What the pattern's tokens mean *)

Interval == [from : Nat \ {Minus, CloseSet}, to : Nat \ {Minus, CloseSet}]
IsSet(token) ==
    /\ token.is = "set" /\ token.negated \in BOOLEAN /\ token.ranges \in Seq(Interval) /\ token.ranges # <<>>
    /\ \A k \in 1 .. Len(token.ranges) : token.ranges[k].from <= token.ranges[k].to
    /\ ~ token.negated => token.ranges[1].from # Negate
IsList(list) ==
    /\ list \in Seq(Seq(Nat \ {ListComma, CloseBrace})) /\ list # <<>>
    /\ \A k \in 1 .. Len(list) : list[k] # <<>>

LEMMA TokenIs ==
    ASSUME NEW token \in Token
    PROVE  \/ token.is = "char" /\ token.char \in Nat \ Special
           \/ token.is = "any"
           \/ token.is = "many"
           \/ IsSet(token)
           \/ token.is = "brace" /\ IsList(token.list)
<1>1. CASE token \in {Char(c) : c \in Alphabet \ Special}
  BY <1>1, PatternAssumption DEF Char
<1>2. CASE token \in {[is |-> "any"], [is |-> "many"]}
  BY <1>2
<1>3. CASE token \in {[is |-> "set", negated |-> s.negated, ranges |-> s.ranges] : s \in Sets}
  <2>1. PICK s \in Sets : token = [is |-> "set", negated |-> s.negated, ranges |-> s.ranges]
    BY <1>3
  <2>2. token.is = "set" /\ token.negated = s.negated /\ token.ranges = s.ranges
    BY <2>1
  <2>3. /\ s.negated \in BOOLEAN /\ s.ranges \in Seq(Interval) /\ s.ranges # <<>>
        /\ \A k \in DOMAIN s.ranges : s.ranges[k].from <= s.ranges[k].to
        /\ ~ s.negated => s.ranges[1].from # Negate
    BY PatternAssumption DEF Interval
  <2> QED
    BY <2>2, <2>3 DEF IsSet
<1>4. CASE token \in {[is |-> "brace", list |-> l] : l \in Braces}
  <2>1. PICK l \in Braces : token = [is |-> "brace", list |-> l]
    BY <1>4
  <2>2. token.is = "brace" /\ token.list = l
    BY <2>1
  <2>3. l \in Seq(Seq(Nat \ {ListComma, CloseBrace})) /\ l # <<>> /\ \A k \in DOMAIN l : l[k] # <<>>
    BY PatternAssumption
  <2> QED
    BY <2>2, <2>3 DEF IsList
<1> QED
  BY <1>1, <1>2, <1>3, <1>4 DEF Token

LEMMA BeginsIn ==
    ASSUME NEW token, NEW s, NEW next
    PROVE  Begins(token, s, next) \in Tails(s)
BY DEF Begins, Tails

Cuts(fits, ts, s) ==
    /\ fits[Len(ts) + 1] = {Len(s) + 1}
    /\ \A t \in 1 .. Len(ts) : fits[t] = Begins(ts[t], s, fits[t + 1])

LEMMA MatchesIs ==
    ASSUME NEW ts \in Seq(Token), NEW s \in Seq(Nat), NEW n \in Nat, n = Len(ts) + 1
    PROVE  \E fits \in [1 .. n -> Tails(s)] : Matches(ts, s) = (1 \in fits[1]) /\ Cuts(fits, ts, s)
<1> DEFINE D == 1 .. n
           F == [D -> Tails(s)]
           B(t, f) == IF t > Len(ts) THEN {Len(s) + 1} ELSE Begins(ts[t], s, f[t + 1])
           G == [t \in D |-> [f \in F |-> B(t, f)]]
           Is(f) == f = [t \in D |-> B(t, f)]
<1>0. 1 <= n /\ 1 \in Nat /\ Len(ts) \in Nat /\ Tails(s) # {}
  <2>1. {} \in Tails(s)
    BY DEF Tails
  <2> QED
    BY <2>1
<1>1. \A t \in D : \A f \in F : G[t][f] = B(t, f)
  BY Zenon
<1>2. \A t \in D : \A f : B(t, f) \in Tails(s)
  <2>1. {Len(s) + 1} \in Tails(s)
    BY DEF Tails
  <2> QED
    BY <2>1, BeginsIn
<1>3. ASSUME NEW t \in D, NEW f, NEW h, Agree(f, h, t + 1, n) PROVE B(t, f) = B(t, h)
  <2>1. t <= Len(ts) => t + 1 \in t + 1 .. n
    BY <1>0
  <2> QED
    BY <2>1, <1>3 DEF Agree
<1>4. \A f : B(n, f) = {Len(s) + 1}
  BY <1>0
<1>5. \A t \in 1 .. Len(ts) : t \in D /\ \A f : B(t, f) = Begins(ts[t], s, f[t + 1])
  BY <1>0
<1> HIDE DEF B
<1>6. AsksLater(G, Tails(s), 1, n)
  <2>1. ASSUME NEW t \in D, NEW f \in F
        PROVE  G[t][f] \in Tails(s) /\ \A h \in F : Agree(f, h, t + 1, n) => G[t][f] = G[t][h]
    <3>1. \A h \in F : G[t][h] = B(t, h)
      BY <1>1
    <3>2. G[t][f] \in Tails(s)
      BY <3>1, <1>2, Zenon
    <3>3. \A h \in F : Agree(f, h, t + 1, n) => B(t, f) = B(t, h)
      BY <1>3, Zenon
    <3> QED
      BY <3>1, <3>2, <3>3, Zenon
  <2> HIDE DEF G
  <2> QED
    <3>1. \A t \in D : \A f \in F : G[t][f] \in Tails(s) /\ \A h \in F : Agree(f, h, t + 1, n) => G[t][f] = G[t][h]
      BY <2>1, Zenon
    <3> QED
      BY <3>1, Zenon DEF AsksLater
<1>7. PICK f0 \in F : Fixed(f0, G, 1, n)
  <2> HIDE DEF G
  <2> QED
    BY <1>0, <1>6, DownExists
<1>8. Is(f0)
  <2>1. \A t \in D : f0[t] = B(t, f0)
    BY <1>1, <1>7 DEF Fixed
  <2> QED
    BY <2>1
<1>9. PICK f : f = CHOOSE h : Is(h)
  OBVIOUS
<1>10. Is(f)
  BY <1>8, <1>9, Zenon
<1>11. Matches(ts, s) = (1 \in f[1])
  BY <1>9, Zenon DEF Matches, B
<1>12. \A t \in D : f[t] = B(t, f)
  BY <1>10
<1>13. f \in F
  BY <1>2, <1>10
<1>14. n \in D /\ f[n] = {Len(s) + 1}
  BY <1>0, <1>4, <1>12
<1> QED
  BY <1>5, <1>11, <1>12, <1>13, <1>14 DEF Cuts

LEMMA SubIs ==
    ASSUME NEW s \in Seq(Nat), NEW i \in 1 .. Len(s) + 1, NEW k \in 1 .. Len(s) + 1, k >= i
    PROVE  /\ SubSeq(s, i, k - 1) \in Seq(Nat) /\ Len(SubSeq(s, i, k - 1)) = k - i
           /\ \A d \in 1 .. k - i : SubSeq(s, i, k - 1)[d] = s[i + d - 1]
OBVIOUS

LEMMA OneIs ==
    ASSUME NEW s \in Seq(Nat), NEW i \in 1 .. Len(s) + 1, NEW next \in Tails(s), NEW k \in next, k >= i,
           Len(SubSeq(s, i, k - 1)) = 1
    PROVE  i \in 1 .. Len(s) /\ k = i + 1 /\ SubSeq(s, i, k - 1)[1] = s[i]
<1>1. k \in 1 .. Len(s) + 1
  BY DEF Tails
<1>2. PICK z : z = SubSeq(s, i, k - 1)
  OBVIOUS
<1>3. Len(z) = k - i /\ \A d \in 1 .. k - i : z[d] = s[i + d - 1]
  BY <1>1, <1>2, SubIs
<1>4. k - i = 1 /\ Len(s) \in Nat
  <2>1. Len(z) = 1
    BY <1>2, Zenon
  <2>2. Len(s) \in Nat
    OBVIOUS
  <2> QED
    BY <2>1, <2>2, <1>3, Zenon
<1>5. 1 \in 1 .. k - i /\ i + 1 - 1 = i
  BY <1>1, <1>4
<1>6. i \in 1 .. Len(s) /\ k = i + 1
  BY <1>1, <1>4
<1>7. z[1] = s[i]
  BY <1>3, <1>5, Zenon
<1> QED
  BY <1>2, <1>6, <1>7, Zenon

LEMMA OneAt ==
    ASSUME NEW s \in Seq(Nat), NEW i \in 1 .. Len(s)
    PROVE  /\ SubSeq(s, i, i + 1 - 1) \in Seq(Nat) /\ Len(SubSeq(s, i, i + 1 - 1)) = 1
           /\ SubSeq(s, i, i + 1 - 1)[1] = s[i] /\ SubSeq(s, i, i + 1 - 1) = <<s[i]>>
<1>1. PICK z : z = SubSeq(s, i, i + 1 - 1)
  OBVIOUS
<1>2. Len(s) \in Nat /\ i \in Nat /\ i + 1 - i = 1
  OBVIOUS
<1>3. /\ z \in Seq(Nat) /\ Len(z) = 1 /\ \A d \in 1 .. 1 : z[d] = s[i + d - 1]
  BY <1>1, <1>2, SubIs
<1>4. z[1] = s[i]
  BY <1>2, <1>3
<1>5. \A x \in Seq(Nat) : Len(x) = 1 => x = <<x[1]>>
  OBVIOUS
<1> QED
  BY <1>1, <1>3, <1>4, <1>5

LEMMA BeginsChar ==
    ASSUME NEW s \in Seq(Nat), NEW next \in Tails(s), NEW token, token.is = "char", token.char \in Nat
    PROVE  Begins(token, s, next) = {i \in 1 .. Len(s) : s[i] = token.char /\ i + 1 \in next}
<1>1. \A z : Piece(token, z) <=> z = <<token.char>>
  BY DEF Piece
<1>2. ASSUME NEW i \in 1 .. Len(s) + 1, NEW k \in next, k >= i, Piece(token, SubSeq(s, i, k - 1))
      PROVE  i \in 1 .. Len(s) /\ s[i] = token.char /\ i + 1 \in next
  <2>1. SubSeq(s, i, k - 1) = <<token.char>>
    BY <1>1, <1>2
  <2>0. ASSUME NEW c PROVE Len(<<c>>) = 1 /\ <<c>>[1] = c
    OBVIOUS
  <2>2. Len(SubSeq(s, i, k - 1)) = 1 /\ SubSeq(s, i, k - 1)[1] = token.char
    BY <2>0, <2>1, Zenon
  <2>3. i \in 1 .. Len(s) /\ k = i + 1 /\ SubSeq(s, i, k - 1)[1] = s[i]
    BY <2>2, <1>2, OneIs
  <2> QED
    BY <2>2, <2>3
<1>3. ASSUME NEW i \in 1 .. Len(s), s[i] = token.char, i + 1 \in next
      PROVE  i \in 1 .. Len(s) + 1 /\ \E k \in next : k >= i /\ Piece(token, SubSeq(s, i, k - 1))
  <2>1. i \in 1 .. Len(s) + 1 /\ i + 1 >= i
    OBVIOUS
  <2>2. SubSeq(s, i, i + 1 - 1) = <<s[i]>>
    BY OneAt
  <2>3. PICK k : k = i + 1
    OBVIOUS
  <2>4. Piece(token, SubSeq(s, i, i + 1 - 1))
    BY <2>2, <1>1, <1>3, Zenon
  <2>5. k \in next /\ k >= i /\ Piece(token, SubSeq(s, i, k - 1))
    BY <2>1, <2>3, <2>4, <1>3
  <2> QED
    BY <2>1, <2>5, Zenon
<1> QED
  BY <1>2, <1>3 DEF Begins

LEMMA BeginsAny ==
    ASSUME NEW s \in Seq(Nat), NEW next \in Tails(s), NEW token, token.is = "any"
    PROVE  Begins(token, s, next) = {i \in 1 .. Len(s) : i + 1 \in next}
<1>1. \A z : Piece(token, z) <=> Len(z) = 1
  BY DEF Piece
<1>2. ASSUME NEW i \in 1 .. Len(s) + 1, NEW k \in next, k >= i, Piece(token, SubSeq(s, i, k - 1))
      PROVE  i \in 1 .. Len(s) /\ i + 1 \in next
  BY <1>1, <1>2, OneIs
<1>3. ASSUME NEW i \in 1 .. Len(s), i + 1 \in next
      PROVE  i \in 1 .. Len(s) + 1 /\ \E k \in next : k >= i /\ Piece(token, SubSeq(s, i, k - 1))
  <2>1. i \in 1 .. Len(s) + 1 /\ i + 1 >= i
    OBVIOUS
  <2>2. Len(SubSeq(s, i, i + 1 - 1)) = 1
    BY OneAt
  <2>3. PICK k : k = i + 1
    OBVIOUS
  <2>4. Piece(token, SubSeq(s, i, i + 1 - 1))
    BY <2>2, <1>1, <1>3, Zenon
  <2>5. k \in next /\ k >= i /\ Piece(token, SubSeq(s, i, k - 1))
    BY <2>1, <2>3, <2>4, <1>3
  <2> QED
    BY <2>1, <2>5, Zenon
<1> QED
  BY <1>2, <1>3 DEF Begins

LEMMA BeginsMany ==
    ASSUME NEW s \in Seq(Nat), NEW next \in Tails(s), NEW token, token.is = "many"
    PROVE  Begins(token, s, next) = {i \in 1 .. Len(s) + 1 : \E k \in next : k >= i}
<1>1. \A z : Piece(token, z)
  BY DEF Piece
<1> QED
  BY <1>1 DEF Begins

Within(token, c) == \E k \in 1 .. Len(token.ranges) : c \in token.ranges[k].from .. token.ranges[k].to

LEMMA BeginsSet ==
    ASSUME NEW s \in Seq(Nat), NEW next \in Tails(s), NEW token, IsSet(token)
    PROVE  Begins(token, s, next) =
              {i \in 1 .. Len(s) : token.negated # Within(token, s[i]) /\ i + 1 \in next}
<1>0. token.is = "set" /\ DOMAIN token.ranges = 1 .. Len(token.ranges)
  BY DEF IsSet
<1>1. \A z : Piece(token, z) <=> (Len(z) = 1 /\ token.negated # Within(token, z[1]))
  <2>1. token.is # "char" /\ token.is # "any" /\ token.is # "many"
    BY <1>0
  <2>2. \A z : Piece(token, z) <=> (Len(z) = 1 /\ (token.negated #
            \E k \in DOMAIN token.ranges : z[1] \in token.ranges[k].from .. token.ranges[k].to))
    BY <2>1, <1>0 DEF Piece
  <2> QED
    BY <2>2, <1>0, Zenon DEF Within
<1>2. ASSUME NEW i \in 1 .. Len(s) + 1, NEW k \in next, k >= i, Piece(token, SubSeq(s, i, k - 1))
      PROVE  i \in 1 .. Len(s) /\ token.negated # Within(token, s[i]) /\ i + 1 \in next
  <2>1. Len(SubSeq(s, i, k - 1)) = 1 /\ token.negated # Within(token, SubSeq(s, i, k - 1)[1])
    BY <1>1, <1>2, Zenon
  <2>2. i \in 1 .. Len(s) /\ k = i + 1 /\ SubSeq(s, i, k - 1)[1] = s[i]
    BY <2>1, <1>2, OneIs
  <2> QED
    BY <2>1, <2>2, Zenon
<1>3. ASSUME NEW i \in 1 .. Len(s), token.negated # Within(token, s[i]), i + 1 \in next
      PROVE  i \in 1 .. Len(s) + 1 /\ \E k \in next : k >= i /\ Piece(token, SubSeq(s, i, k - 1))
  <2>1. i \in 1 .. Len(s) + 1 /\ i + 1 >= i
    OBVIOUS
  <2>2. Len(SubSeq(s, i, i + 1 - 1)) = 1 /\ SubSeq(s, i, i + 1 - 1)[1] = s[i]
    BY OneAt
  <2>3. PICK k : k = i + 1
    OBVIOUS
  <2>4. Piece(token, SubSeq(s, i, i + 1 - 1))
    BY <2>2, <1>1, <1>3, Zenon
  <2>5. k \in next /\ k >= i /\ Piece(token, SubSeq(s, i, k - 1))
    BY <2>1, <2>3, <2>4, <1>3
  <2> QED
    BY <2>1, <2>5, Zenon
<1> DEFINE B == {i \in 1 .. Len(s) + 1 : \E k \in next : k >= i /\ Piece(token, SubSeq(s, i, k - 1))}
           C == {i \in 1 .. Len(s) : token.negated # Within(token, s[i]) /\ i + 1 \in next}
<1>4. ASSUME NEW i \in B PROVE i \in C
  BY <1>2, Zenon
<1>5. ASSUME NEW i \in C PROVE i \in B
  <2>1. i \in 1 .. Len(s) /\ token.negated # Within(token, s[i]) /\ i + 1 \in next
    BY Zenon
  <2> QED
    BY <2>1, <1>3, Zenon
<1>6. B = C
  BY <1>4, <1>5, Zenon
<1> QED
  BY <1>6 DEF Begins

-----------------------------------------------------------------------------
(* Sets: the ranges are read one after the other. *)

ReadsPlain(c, p, q, f) ==
    ReadTwo(c, p, q, f) = IF c = p[q] \/ c = p[q + 1] THEN End(TRUE, q + 1) ELSE f[q + 1]
ReadsRange(c, p, q, f) ==
    ReadTwo(c, p, q, f) = IF c \in p[q] .. p[q + 2] THEN End(TRUE, q + 2) ELSE f[q + 2]

LEMMA ReadPlain ==
    ASSUME NEW c \in Nat, NEW p \in Seq(Nat), NEW q \in Nat, q > 0, q + 1 <= Len(p), NEW f,
           p[q + 1] # Minus, p[q + 1] # CloseSet
    PROVE  ReadsPlain(c, p, q, f)
<1> DEFINE found == c = p[q] \/ c = p[q + 1]
<1>1. ReadTwo(c, p, q, f) = IF found THEN End(found, q + 1) ELSE f[q + 1]
  BY DEF ReadTwo
<1>2. found => found = TRUE
  OBVIOUS
<1> HIDE DEF found
<1>3. ReadTwo(c, p, q, f) = IF found THEN End(TRUE, q + 1) ELSE f[q + 1]
  BY <1>1, <1>2
<1> QED
  BY <1>3 DEF ReadsPlain, found

LEMMA ReadLast ==
    ASSUME NEW c \in Nat, NEW p \in Seq(Nat), NEW q \in Nat, q > 0, q + 1 <= Len(p), NEW f,
           p[q + 1] = CloseSet
    PROVE  ReadTwo(c, p, q, f) = End(c = p[q], q + 1)
BY DEF ReadTwo, Minus, CloseSet

LEMMA ReadRange ==
    ASSUME NEW c \in Nat, NEW p \in Seq(Nat), NEW q \in Nat, q > 0, q + 2 <= Len(p), NEW f,
           p[q + 1] = Minus, p[q + 2] # CloseSet, p[q] <= p[q + 2]
    PROVE  ReadsRange(c, p, q, f)
<1> DEFINE found == c = p[q] \/ c = p[q + 2] \/ (p[q] < c /\ c < p[q + 2])
<1>1. ReadTwo(c, p, q, f) = IF found THEN End(found, q + 2) ELSE f[q + 2]
  BY DEF ReadTwo
<1>2. found => found = TRUE
  OBVIOUS
<1>3. found <=> c \in p[q] .. p[q + 2]
  <2>1. p[q] \in Nat /\ p[q + 2] \in Nat
    OBVIOUS
  <2> QED
    BY <2>1
<1> HIDE DEF found
<1> QED
  BY <1>1, <1>2, <1>3 DEF ReadsRange

RangeTexts(ranges) == [k \in DOMAIN ranges |-> RangeText(ranges[k])]

LEMMA RangeTextIs ==
    ASSUME NEW r \in Interval
    PROVE  LET w == RangeText(r)
           IN  /\ w \in Seq(Nat) /\ Len(w) \in {1, 3} /\ w[1] = r.from /\ w[Len(w)] = r.to
               /\ r.from \in Nat /\ r.to \in Nat
               /\ Len(w) = 1 => r.from = r.to
               /\ Len(w) = 3 => w[2] = Minus
               /\ \A k \in 1 .. Len(w) : w[k] # CloseSet
<1>1. r.from \in Nat \ {Minus, CloseSet} /\ r.to \in Nat \ {Minus, CloseSet}
  BY DEF Interval
<1>2. CASE r.from = r.to
  <2>1. RangeText(r) = <<r.from>>
    BY <1>2 DEF RangeText
  <2> QED
    BY <2>1, <1>1, <1>2
<1>3. CASE r.from # r.to
  <2>1. RangeText(r) = <<r.from, Minus, r.to>>
    BY <1>3 DEF RangeText
  <2>2. Minus \in Nat /\ Minus # CloseSet
    BY DEF Minus, CloseSet
  <2>3. PICK w : w = RangeText(r)
    OBVIOUS
  <2>4. w \in Seq(Nat) /\ Len(w) = 3 /\ w[1] = r.from /\ w[2] = Minus /\ w[3] = r.to
    BY <2>1, <2>2, <2>3, <1>1
  <2>5. \A k \in 1 .. 3 : k = 1 \/ k = 2 \/ k = 3
    OBVIOUS
  <2> QED
    BY <2>2, <2>3, <2>4, <2>5, <1>1
<1> QED
  BY <1>2, <1>3

LEMMA RangesTextIs ==
    ASSUME NEW ranges \in Seq(Interval)
    PROVE  /\ RangeTexts(ranges) \in Seq(Seq(Nat)) /\ Len(RangeTexts(ranges)) = Len(ranges)
           /\ \A k \in 1 .. Len(ranges) : RangeTexts(ranges)[k] = RangeText(ranges[k])
           /\ RangesText(ranges) \in Seq(Nat)
           /\ \E r : Places(RangesText(ranges), RangeTexts(ranges), r)
<1>1. \A k \in 1 .. Len(ranges) : ranges[k] \in Interval /\ RangeText(ranges[k]) \in Seq(Nat)
  BY RangeTextIs
<1>2. /\ RangeTexts(ranges) \in Seq(Seq(Nat)) /\ Len(RangeTexts(ranges)) = Len(ranges)
      /\ \A k \in 1 .. Len(ranges) : RangeTexts(ranges)[k] = RangeText(ranges[k])
  BY <1>1 DEF RangeTexts
<1>3. RangesText(ranges) = FlattenSeq(RangeTexts(ranges))
  BY DEF RangesText, RangeTexts
<1> QED
  BY <1>2, <1>3, FlattenSeqPlaces

\* The ranges are written in p from place b + 1 on, and then the end of the set:
\* the x-th has its last character at b + r[x].
SetAt(p, b, ranges, r, close) ==
    /\ ranges \in Seq(Interval) /\ Len(ranges) \in Nat \ {0}
    /\ \A k \in 1 .. Len(ranges) : ranges[k].from <= ranges[k].to
    /\ b \in Nat /\ close \in b + 2 .. Len(p) /\ p[close] = CloseSet /\ b + r[Len(ranges)] + 1 = close
    /\ \A k \in b + 1 .. close - 1 : p[k] # CloseSet
    /\ \A x \in 0 .. Len(ranges) : r[x] \in Nat
    /\ r[0] = 0
    /\ \A x \in 1 .. Len(ranges) :
          /\ b + r[x] <= close - 1 /\ r[x - 1] < r[x]
          /\ p[b + r[x - 1] + 1] = ranges[x].from /\ p[b + r[x]] = ranges[x].to
          /\ \/ r[x] = r[x - 1] + 1
             \/ r[x] = r[x - 1] + 3 /\ p[b + r[x - 1] + 2] = Minus

ReadSet(c, p, b, ranges, close) ==
    /\ InSet(c, p, b + 1).ends /\ InSet(c, p, b + 1).at \in b + 1 .. close
    /\ InSet(c, p, b + 1).found = \E x \in 1 .. Len(ranges) : c \in ranges[x].from .. ranges[x].to

IsEnd(v, in, at) == v.ends = TRUE /\ v.found = in /\ v.at = at

LEMMA SetReadFrom ==
    ASSUME NEW c \in Nat, NEW p \in Seq(Nat), NEW b \in Nat, NEW ranges, NEW r, NEW close \in Nat,
           SetAt(p, b, ranges, r, close)
    PROVE  ReadSet(c, p, b, ranges, close)
<1>1. PICK n \in Nat : n = Len(p) + 1
  OBVIOUS
<1>2. PICK f \in [1 .. n -> Reading] : Reads(f, c, p, n)
  BY <1>1, InSetIs
<1>3. PICK X \in Nat : X = Len(ranges) /\ X # 0 /\ close \in Nat /\ b \in Nat /\ close <= Len(p)
                       /\ Len(p) \in Nat
  BY DEF SetAt
<1>30. close <= Len(p) /\ Len(p) \in Nat
  BY <1>3, Zenon
<1> DEFINE In(x) == c \in ranges[x].from .. ranges[x].to
           InLater(x) == \E y \in x .. X : In(y)
           B(x) == b + r[x - 1] + 1
           E(x) == b + r[x]
           Read(v, in) == v.ends = TRUE /\ v.at \in b + 1 .. close /\ v.found = in
           Good(x) == Read(f[B(x)], InLater(x))
           Late(x) == Read(f[E(x)], c = ranges[x].to \/ InLater(x + 1))
<1>4. ASSUME NEW x \in 1 .. X
      PROVE  /\ B(x) \in Nat /\ E(x) \in Nat /\ B(x) >= b + 1 /\ B(x) <= E(x) /\ E(x) <= close - 1
             /\ p[B(x)] = ranges[x].from /\ p[E(x)] = ranges[x].to
             /\ E(x) = B(x) \/ (E(x) = B(x) + 2 /\ p[B(x) + 1] = Minus)
             /\ ranges[x].from \in Nat /\ ranges[x].from # Minus /\ ranges[x].from # CloseSet
             /\ ranges[x].to \in Nat /\ ranges[x].to # CloseSet /\ ranges[x].from <= ranges[x].to
  <2>1. x - 1 \in 0 .. X /\ x \in 0 .. X /\ x \in 1 .. Len(ranges)
    BY <1>3
  <2>2. PICK u \in Nat, v \in Nat : u = r[x - 1] /\ v = r[x]
    BY <2>1, <1>3 DEF SetAt
  <2>3. /\ b + v <= close - 1 /\ u < v
        /\ p[b + u + 1] = ranges[x].from /\ p[b + v] = ranges[x].to
        /\ v = u + 1 \/ (v = u + 3 /\ p[b + u + 2] = Minus)
    BY <2>1, <2>2 DEF SetAt
  <2>4. ranges[x] \in Interval /\ ranges[x].from <= ranges[x].to
    <3>1. ranges \in Seq(Interval)
      BY Zenon DEF SetAt
    <3>2. ranges[x] \in Interval
      BY ONLY <2>1, <3>1
    <3>3. ranges[x].from <= ranges[x].to
      BY <2>1, Zenon DEF SetAt
    <3> QED
      BY <3>2, <3>3
  <2>5. B(x) = b + u + 1 /\ E(x) = b + v
    BY <2>2
  <2>6. b + u + 1 + 1 = b + u + 2
    BY <1>3, <2>2
  <2> HIDE DEF B, E
  <2>7. /\ ranges[x].from \in Nat /\ ranges[x].from # Minus /\ ranges[x].from # CloseSet
        /\ ranges[x].to \in Nat /\ ranges[x].to # CloseSet
    BY <2>4 DEF Interval
  <2>8. /\ B(x) \in Nat /\ E(x) \in Nat /\ B(x) >= b + 1 /\ B(x) <= E(x) /\ E(x) <= close - 1
        /\ E(x) = B(x) \/ (E(x) = B(x) + 2 /\ p[b + u + 2] = Minus)
    <3>1. PICK d \in Nat, k \in Nat : d = b /\ k = close
      BY <1>3
    <3>2. PICK y, z \in Nat : y = B(x) /\ y = d + u + 1 /\ z = E(x) /\ z = d + v
      BY <2>5, <3>1
    <3>3. d + v <= k - 1 /\ u < v /\ (v = u + 1 \/ v = u + 3)
      BY <2>3, <3>1
    <3>4. y \in Nat /\ y >= d + 1 /\ y <= z /\ z <= k - 1 /\ (v = u + 1 => z = y) /\ (v = u + 3 => z = y + 2)
      BY <3>2, <3>3
    <3> QED
      BY <2>3, <3>1, <3>2, <3>4
  <2> QED
    BY <2>3, <2>4, <2>5, <2>6, <2>7, <2>8
<1> HIDE DEF B, E
<1>41. ASSUME NEW x \in 1 .. X
       PROVE  /\ B(x) \in Nat /\ E(x) \in Nat /\ B(x) >= b + 1 /\ B(x) <= E(x) /\ E(x) <= close - 1
              /\ E(x) = B(x) \/ E(x) = B(x) + 2
  BY <1>4, Zenon
<1>42. ASSUME NEW x \in 1 .. X
       PROVE  /\ p[B(x)] = ranges[x].from /\ p[E(x)] = ranges[x].to
              /\ E(x) = B(x) \/ p[B(x) + 1] = Minus
  BY <1>4, Zenon
<1>43. ASSUME NEW x \in 1 .. X
       PROVE  /\ ranges[x].from \in Nat /\ ranges[x].from # Minus /\ ranges[x].from # CloseSet
              /\ ranges[x].to \in Nat /\ ranges[x].to # CloseSet /\ ranges[x].from <= ranges[x].to
  BY <1>4, Zenon
<1> USE DEF B, E
<1>5. ASSUME NEW x \in 1 .. X PROVE x # X => x + 1 \in 1 .. X /\ B(x + 1) = E(x) + 1
  <2>1. x + 1 - 1 = x
    OBVIOUS
  <2> QED
    BY <2>1, <1>3
<1>6. E(X) + 1 = close
  BY <1>3 DEF SetAt
<1>7. p[close] = CloseSet
  BY DEF SetAt
<1> HIDE DEF B, E
<1>8. ASSUME NEW q \in Nat, q > 0, q < Len(p) PROVE q \in 1 .. n /\ f[q] = ReadTwo(c, p, q, f)
  <2>1. q \in 1 .. n /\ ~ q >= Len(p)
    BY <1>1, <1>3, <1>8
  <2> QED
    BY <2>1, <1>2 DEF Reads
<1>9. ASSUME NEW in, NEW at, NEW v, v = End(in, at) PROVE IsEnd(v, in, at)
  BY <1>9 DEF End, IsEnd
<1>10. InLater(X + 1) = FALSE
  BY <1>3
<1>11. ASSUME NEW x \in 1 .. X PROVE InLater(x) = (In(x) \/ InLater(x + 1))
  <2>1. \A y : y \in x .. X <=> y = x \/ y \in x + 1 .. X
    OBVIOUS
  <2> HIDE DEF In
  <2> QED
    BY <2>1
<1>12. ASSUME NEW x \in 1 .. X, x # X => Good(x + 1) PROVE Late(x)
  <2>0. PICK q \in Nat : q = E(x)
    BY <1>41
  <2>1. q >= b + 1 /\ q <= close - 1
    BY <2>0, <1>41
  <2>11. q > 0 /\ q + 1 <= close /\ q < Len(p) /\ q + 1 <= Len(p) /\ q + 1 \in b + 1 .. close
    BY <2>1, <1>30
  <2>12. p[q] = ranges[x].to
    BY <2>0, <1>42
  <2>2. f[q] = ReadTwo(c, p, q, f)
    BY <2>11, <1>8
  <2>3. CASE x = X
    <3>1. p[q + 1] = CloseSet
      BY <2>0, <2>3, <1>6, <1>7
    <3>2. f[q] = End(c = p[q], q + 1)
      BY <2>11, <2>2, <3>1, ReadLast
    <3>4. (c = p[q]) = (c = ranges[x].to \/ InLater(x + 1))
      BY <2>12, <2>3, <1>10
    <3> HIDE DEF InLater
    <3>41. PICK in \in BOOLEAN : in = (c = p[q])
      OBVIOUS
    <3>42. f[q] = End(in, q + 1)
      BY <3>2, <3>41
    <3>5. f[q].ends = TRUE /\ f[q].at = q + 1 /\ f[q].found = in
      <4>1. CASE in = TRUE
        <5>1. f[q] = End(TRUE, q + 1)
          BY <3>42, <4>1
        <5> QED
          <6>1. IsEnd(f[q], TRUE, q + 1)
            BY <5>1, <1>9
          <6> QED
            BY <6>1, <4>1, Zenon DEF IsEnd
      <4>2. CASE in = FALSE
        <5>1. f[q] = End(FALSE, q + 1)
          BY <3>42, <4>2
        <5>2. f[q].ends = TRUE /\ f[q].at = q + 1 /\ f[q].found = FALSE
          <6>1. IsEnd(f[q], FALSE, q + 1)
            BY <5>1, <1>9
          <6> QED
            BY <6>1, Zenon DEF IsEnd
        <5> QED
          BY <5>2, <4>2
      <4>3. \A v \in BOOLEAN : v = TRUE \/ v = FALSE
        OBVIOUS
      <4>4. in = TRUE \/ in = FALSE
        BY <4>3, <3>41, Zenon
      <4> QED
        BY <4>1, <4>2, <4>4, Zenon
    <3> QED
      BY <2>0, <2>11, <3>4, <3>41, <3>5, Zenon
  <2>4. CASE x # X
    <3>1. x + 1 \in 1 .. X /\ B(x + 1) = q + 1
      BY <2>0, <2>4, <1>5
    <3>2. p[q + 1] = ranges[x + 1].from
      BY <3>1, <1>42
    <3>21. p[q + 1] # Minus /\ p[q + 1] # CloseSet
      BY <3>1, <3>2, <1>43
    <3>22. ReadsPlain(c, p, q, f)
      BY <2>11, <3>21, ReadPlain
    <3>3. f[q] = IF c = p[q] \/ c = p[q + 1] THEN End(TRUE, q + 1) ELSE f[q + 1]
      BY <2>2, <3>22, Zenon DEF ReadsPlain
    <3>4. Good(x + 1)
      BY <2>4, <1>12
    <3>5. Read(f[q + 1], InLater(x + 1))
      BY <3>1, <3>4
    <3>6. c = p[q + 1] => InLater(x + 1)
      <4>1. c = ranges[x + 1].from => In(x + 1)
        BY <3>1, <1>43
      <4>2. x + 1 \in x + 1 .. X
        BY <3>1
      <4> HIDE DEF In
      <4> QED
        BY <4>1, <4>2, <3>2
    <3>8. InLater(x + 1) \in BOOLEAN
      OBVIOUS
    <3> HIDE DEF InLater
    <3>9. CASE c = p[q] \/ c = p[q + 1]
      <4>0. f[q] = End(TRUE, q + 1)
        BY <3>3, <3>9, Zenon
      <4>1. f[q].ends = TRUE /\ f[q].at = q + 1 /\ f[q].found = TRUE
        <5>1. IsEnd(f[q], TRUE, q + 1)
          BY <4>0, <1>9
        <5> QED
          BY <5>1, Zenon DEF IsEnd
      <4>2. (c = ranges[x].to \/ InLater(x + 1)) = TRUE
        BY <3>6, <3>8, <3>9, <2>12
      <4> QED
        BY <4>1, <4>2, <2>0, <2>11, Zenon
    <3>10. CASE ~ (c = p[q] \/ c = p[q + 1])
      <4>1. f[q] = f[q + 1]
        BY <3>3, <3>10
      <4>2. (c = ranges[x].to \/ InLater(x + 1)) = InLater(x + 1)
        BY <3>8, <3>10, <2>12
      <4> QED
        BY <4>1, <4>2, <3>5, <2>0, Zenon
    <3> QED
      BY <3>9, <3>10
  <2> QED
    BY <2>3, <2>4
<1>13. ASSUME NEW x \in 1 .. X, Late(x) PROVE Good(x)
  <2>0. PICK q, e \in Nat : q = B(x) /\ e = E(x)
    BY <1>41
  <2>1. q \in Nat /\ q >= b + 1 /\ q <= e /\ e <= close - 1 /\ (e = q \/ e = q + 2)
    BY <2>0, <1>41
  <2>10. q > 0 /\ q < Len(p) /\ e <= Len(p) /\ e \in b + 1 .. close
    BY <2>1, <1>30
  <2>11. p[q] = ranges[x].from /\ p[e] = ranges[x].to
    BY <2>0, <1>42
  <2>2. p[q] \in Nat /\ p[e] \in Nat /\ p[e] # CloseSet /\ p[q] <= p[e]
    BY <2>11, <1>43
  <2>3. Read(f[e], c = p[e] \/ InLater(x + 1))
    BY <2>0, <2>11, <1>13
  <2>4. InLater(x) = (In(x) \/ InLater(x + 1)) /\ (In(x) <=> c \in p[q] .. p[e])
    BY <2>11, <1>11
  <2>5. InLater(x) \in BOOLEAN /\ InLater(x + 1) \in BOOLEAN
    OBVIOUS
  <2> HIDE DEF InLater, In
  <2>6. CASE e = q
    <3>1. (c = p[e] \/ InLater(x + 1)) = InLater(x)
      BY <2>2, <2>4, <2>5, <2>6
    <3> QED
      BY <3>1, <2>0, <2>3, <2>6, Zenon
  <2>7. CASE e = q + 2 /\ e # q
    <3>1. f[q] = ReadTwo(c, p, q, f)
      BY <2>1, <2>10, <1>8
    <3>2. p[q + 1] = Minus
      BY <2>0, <2>7, <1>42
    <3>21. q + 2 <= Len(p) /\ p[q + 2] # CloseSet /\ p[q] <= p[q + 2]
      BY <2>2, <2>7, <2>10
    <3>22. ReadsRange(c, p, q, f)
      BY <2>10, <3>2, <3>21, ReadRange
    <3>3. f[q] = IF c \in p[q] .. p[e] THEN End(TRUE, e) ELSE f[e]
      BY <2>7, <3>1, <3>22, Zenon DEF ReadsRange
    <3>4. CASE c \in p[q] .. p[e]
      <4>0. f[q] = End(TRUE, e)
        BY <3>3, <3>4, Zenon
      <4>1. f[q].ends = TRUE /\ f[q].at = e /\ f[q].found = TRUE
        <5>1. IsEnd(f[q], TRUE, e)
          BY <4>0, <1>9
        <5> QED
          BY <5>1, Zenon DEF IsEnd
      <4>2. InLater(x) = TRUE
        BY <2>4, <2>5, <3>4
      <4> QED
        BY <4>1, <4>2, <2>0, <2>10, Zenon
    <3>5. CASE c \notin p[q] .. p[e]
      <4>1. f[q] = f[e]
        BY <3>3, <3>5
      <4>2. (c = p[e] \/ InLater(x + 1)) = InLater(x)
        <5>1. c # p[e]
          BY <2>2, <3>5
        <5>2. ~In(x)
          BY <2>4, <3>5, Zenon
        <5> QED
          BY <2>4, <2>5, <5>1, <5>2, Zenon
      <4> QED
        BY <4>1, <4>2, <2>0, <2>3, Zenon
    <3> QED
      BY <3>4, <3>5
  <2> QED
    BY <2>1, <2>6, <2>7
<1> HIDE DEF Good, Late
<1>14. ASSUME NEW x \in 1 .. X PROVE Good(x)
  <2> DEFINE Bad == {y \in 1 .. X : ~ Good(y)}
  <2>1. SUFFICES ASSUME Bad # {} PROVE FALSE
    OBVIOUS
  <2>2. PICK m \in Bad : \A k \in m + 1 .. X : k \notin Bad
    <3>1. Bad \in SUBSET (1 .. X)
      OBVIOUS
    <3> HIDE DEF Bad
    <3> QED
      <4>1. HasLast(Bad, 1, X)
        BY <3>1, <2>1, LastBad
      <4> QED
        BY <4>1, Zenon DEF HasLast
  <2>3. m # X => m + 1 \in m + 1 .. X /\ m + 1 \in 1 .. X
    OBVIOUS
  <2>4. m # X => Good(m + 1)
    BY <2>2, <2>3
  <2> QED
    BY <2>2, <2>4, <1>12, <1>13
<1>15. Good(1)
  BY <1>3, <1>14
<1>16. B(1) = b + 1 /\ b + 1 \in 1 .. n
  <2>1. r[0] = 0 /\ 1 - 1 = 0
    BY DEF SetAt
  <2>2. close >= b + 2
    BY DEF SetAt
  <2> QED
    BY <2>1, <2>2, <1>1, <1>3 DEF B
<1>17. InSet(c, p, b + 1) = f[B(1)]
  BY <1>2, <1>16 DEF Reads
<1> QED
  BY <1>3, <1>15, <1>17 DEF Good, ReadSet

\* A text between brackets, with a sign behind the first one or not.
Encloses(w, open, g, R, close) ==
    /\ w \in Seq(Nat) /\ Len(w) = 1 + Len(g) + Len(R) + 1 /\ w[1] = open
    /\ \A y \in 1 .. Len(g) : w[1 + y] = g[y]
    /\ \A y \in 1 .. Len(R) : w[1 + Len(g) + y] = R[y]
    /\ w[1 + Len(g) + Len(R) + 1] = close

IsJoin(c, a, b) ==
    /\ c \in Seq(Nat) /\ Len(c) = Len(a) + Len(b) /\ Len(a) \in Nat /\ Len(b) \in Nat
    /\ \A y \in 1 .. Len(a) : c[y] = a[y]
    /\ \A y \in 1 .. Len(b) : c[Len(a) + y] = b[y]

LEMMA JoinIs ==
    ASSUME NEW a \in Seq(Nat), NEW b \in Seq(Nat)
    PROVE  IsJoin(a \o b, a, b)
<1>1. /\ a \o b \in Seq(Nat) /\ Len(a \o b) = Len(a) + Len(b) /\ Len(a) \in Nat /\ Len(b) \in Nat
      /\ \A y \in 1 .. Len(a) : (a \o b)[y] = a[y]
      /\ \A y \in 1 .. Len(b) : (a \o b)[Len(a) + y] = b[y]
  OBVIOUS
<1> QED
  BY <1>1, Zenon DEF IsJoin

LEMMA OneChar ==
    ASSUME NEW c \in Nat
    PROVE  <<c>> \in Seq(Nat) /\ Len(<<c>>) = 1 /\ <<c>>[1] = c
OBVIOUS

LEMMA Enclosed ==
    ASSUME NEW open \in Nat, NEW g \in Seq(Nat), NEW R \in Seq(Nat), NEW close \in Nat
    PROVE  Encloses(<<open>> \o g \o R \o <<close>>, open, g, R, close)
<1>1. PICK o \in Seq(Nat) : o = <<open>> /\ Len(o) = 1 /\ o[1] = open
  BY OneChar
<1>2. PICK c \in Seq(Nat) : c = <<close>> /\ Len(c) = 1 /\ c[1] = close
  BY OneChar
<1>3. PICK a \in Seq(Nat) : /\ a = o \o g /\ Len(a) = 1 + Len(g) /\ a[1] = open
                            /\ \A y \in 1 .. Len(g) : a[1 + y] = g[y]
  <2>1. 1 \in 1 .. Len(o) /\ Len(o) = 1 /\ o[1] = open
    BY <1>1
  <2>2. PICK a : a = o \o g
    OBVIOUS
  <2>3. /\ a \in Seq(Nat) /\ Len(a) = Len(o) + Len(g)
        /\ \A y \in 1 .. Len(o) : a[y] = o[y]
        /\ \A y \in 1 .. Len(g) : a[Len(o) + y] = g[y]
    <3>1. IsJoin(a, o, g)
      BY <2>2, JoinIs
    <3> QED
      BY <3>1, Zenon DEF IsJoin
  <2>4. Len(a) = 1 + Len(g) /\ a[1] = open /\ \A y \in 1 .. Len(g) : a[1 + y] = g[y]
    BY <2>1, <2>3, Zenon
  <2> QED
    BY <2>2, <2>3, <2>4, Zenon
<1>4. PICK d \in Seq(Nat) : /\ d = a \o R /\ Len(d) = Len(a) + Len(R)
                            /\ \A y \in 1 .. Len(a) : d[y] = a[y]
                            /\ \A y \in 1 .. Len(R) : d[Len(a) + y] = R[y]
  <2>1. IsJoin(a \o R, a, R)
    BY JoinIs
  <2> QED
    BY <2>1, Zenon DEF IsJoin
<1>5. PICK w \in Seq(Nat) : /\ w = d \o c /\ Len(w) = Len(d) + 1
                            /\ \A y \in 1 .. Len(d) : w[y] = d[y]
                            /\ w[Len(d) + 1] = close
  <2>1. 1 \in 1 .. Len(c)
    BY <1>2
  <2> QED
    <3>1. IsJoin(d \o c, d, c)
      BY <1>2, JoinIs
    <3>2. Len(d) + Len(c) = Len(d) + 1
      BY <1>2
    <3>3. (d \o c)[Len(d) + 1] = close
      BY <3>1, <1>2, <2>1, Zenon DEF IsJoin
    <3> QED
      BY <3>1, <3>2, <3>3, Zenon DEF IsJoin
<1>6. w = <<open>> \o g \o R \o <<close>>
  BY <1>1, <1>2, <1>3, <1>4, <1>5
<1>7. Len(g) \in Nat /\ Len(R) \in Nat
  OBVIOUS
<1>8. PICK G \in Nat, r \in Nat : G = Len(g) /\ r = Len(R)
  BY <1>7
<1>9. Len(a) = 1 + G /\ Len(d) = 1 + G + r /\ Len(w) = 1 + G + r + 1
  BY <1>3, <1>4, <1>5, <1>8
<1>10. \A y \in 1 .. 1 + G : w[y] = a[y]
  <2>1. \A y \in 1 .. 1 + G : y \in 1 .. Len(a) /\ y \in 1 .. Len(d)
    BY <1>9
  <2> QED
    BY <2>1, <1>4, <1>5
<1>11. w[1] = open
  BY <1>3, <1>10
<1>12. \A y \in 1 .. G : w[1 + y] = g[y]
  <2>1. \A y \in 1 .. G : 1 + y \in 1 .. 1 + G
    OBVIOUS
  <2> QED
    BY <2>1, <1>3, <1>8, <1>10
<1>13. \A y \in 1 .. r : w[1 + G + y] = R[y]
  <2>1. \A y \in 1 .. r : 1 + G + y \in 1 .. Len(d)
    BY <1>9
  <2>2. \A y \in 1 .. r : d[1 + G + y] = R[y]
    BY <1>4, <1>8, <1>9
  <2> QED
    BY <2>1, <2>2, <1>5
<1>14. w[1 + G + r + 1] = close
  BY <1>5, <1>9
<1>15. Encloses(w, open, g, R, close)
  BY <1>8, <1>9, <1>11, <1>12, <1>13, <1>14 DEF Encloses
<1> QED
  BY <1>6, <1>15

LEMMA WrittenSet ==
    ASSUME NEW token, IsSet(token)
    PROVE  LET w == Written(token)
               R == RangesText(token.ranges)
               h == IF token.negated THEN 2 ELSE 1
           IN  /\ w \in Seq(Nat) /\ Len(w) = h + Len(R) + 1 /\ w[1] = OpenSet
               /\ token.negated => w[2] = Negate
               /\ \A y \in 1 .. Len(R) : w[h + y] = R[y]
               /\ w[h + Len(R) + 1] = CloseSet
<1>1. PICK R \in Seq(Nat) : R = RangesText(token.ranges)
  BY RangesTextIs DEF IsSet
<1>2. token.is = "set" /\ token.negated \in BOOLEAN
  BY DEF IsSet
<1>3. OpenSet \in Nat /\ CloseSet \in Nat /\ Negate \in Nat
  BY DEF OpenSet, CloseSet, Negate
<1>4. CASE token.negated
  <2>1. PICK g \in Seq(Nat) : g = <<Negate>> /\ Len(g) = 1 /\ g[1] = Negate
    BY <1>3, OneChar
  <2>2. Written(token) = <<OpenSet>> \o g \o R \o <<CloseSet>>
    BY <1>1, <1>2, <1>4, <2>1 DEF Written
  <2>3. PICK w : w = Written(token) /\ Encloses(w, OpenSet, g, R, CloseSet)
    BY <2>2, <1>3, Enclosed
  <2>4. 1 \in 1 .. Len(g) /\ 1 + 1 = 2 /\ Len(R) \in Nat
    BY <2>1
  <2>5. w[2] = Negate
    BY <2>1, <2>3, <2>4 DEF Encloses
  <2>6. Len(w) = 2 + Len(R) + 1 /\ w[2 + Len(R) + 1] = CloseSet /\ \A y \in 1 .. Len(R) : w[2 + y] = R[y]
    BY <2>1, <2>3, <2>4 DEF Encloses
  <2>7. w \in Seq(Nat) /\ w[1] = OpenSet
    BY <2>3 DEF Encloses
  <2> QED
    BY <1>1, <1>4, <2>3, <2>5, <2>6, <2>7, Zenon
<1>5. CASE ~ token.negated
  <2>0. <<>> \in Seq(Nat) /\ Len(<<>>) = 0
    OBVIOUS
  <2>1. PICK g \in Seq(Nat) : g = <<>> /\ Len(g) = 0
    BY <2>0, Zenon
  <2>2. Written(token) = <<OpenSet>> \o g \o R \o <<CloseSet>>
    BY <1>1, <1>2, <1>5, <2>1 DEF Written
  <2>3. PICK w : w = Written(token) /\ Encloses(w, OpenSet, g, R, CloseSet)
    BY <2>2, <1>3, Enclosed
  <2>4. Len(R) \in Nat
    OBVIOUS
  <2>6. Len(w) = 1 + Len(R) + 1 /\ w[1 + Len(R) + 1] = CloseSet /\ \A y \in 1 .. Len(R) : w[1 + y] = R[y]
    BY <2>1, <2>3, <2>4 DEF Encloses
  <2>7. w \in Seq(Nat) /\ w[1] = OpenSet
    BY <2>3 DEF Encloses
  <2> QED
    BY <1>1, <1>5, <2>3, <2>6, <2>7, Zenon
<1> QED
  BY <1>4, <1>5

\* A text that is written in p after place e.
WrittenAt(p, e, w) == /\ e \in Nat /\ e + Len(w) <= Len(p)
                      /\ \A x \in 1 .. Len(w) : p[e + x] = w[x]

LEMMA SetPlaced ==
    ASSUME NEW token, IsSet(token), NEW p \in Seq(Nat), NEW e \in Nat, WrittenAt(p, e, Written(token))
    PROVE  /\ p[e + 1] = OpenSet /\ (token.negated => p[e + 2] = Negate)
           /\ e + Len(Written(token)) \in Nat
           /\ \E r : SetAt(p, IF token.negated THEN e + 2 ELSE e + 1, token.ranges, r, e + Len(Written(token)))
<1> DEFINE RT == RangeTexts(token.ranges)
<1>0. PICK h \in Nat : (h = IF token.negated THEN 2 ELSE 1) /\ (h = 1 \/ h = 2)
  OBVIOUS
<1>1. PICK w, R \in Seq(Nat) :
         /\ w = Written(token) /\ R = RangesText(token.ranges)
         /\ w \in Seq(Nat) /\ Len(w) = h + Len(R) + 1 /\ w[1] = OpenSet
         /\ token.negated => w[2] = Negate
         /\ \A y \in 1 .. Len(R) : w[h + y] = R[y]
         /\ w[h + Len(R) + 1] = CloseSet
  <2>1. RangesText(token.ranges) \in Seq(Nat)
    BY RangesTextIs DEF IsSet
  <2>2. LET w == Written(token)
            R == RangesText(token.ranges)
        IN  /\ w \in Seq(Nat) /\ Len(w) = h + Len(R) + 1 /\ w[1] = OpenSet
            /\ token.negated => w[2] = Negate
            /\ \A y \in 1 .. Len(R) : w[h + y] = R[y]
            /\ w[h + Len(R) + 1] = CloseSet
    <3>1. h = IF token.negated THEN 2 ELSE 1
      BY <1>0, Zenon
    <3> QED
      BY <3>1, WrittenSet, Zenon
  <2> QED
    BY <2>1, <2>2, Zenon
<1>2. PICK X \in Nat : /\ X = Len(token.ranges) /\ X # 0 /\ token.ranges \in Seq(Interval)
                       /\ \A k \in 1 .. X : token.ranges[k].from <= token.ranges[k].to
  <2>1. token.ranges \in Seq(Interval) /\ token.ranges # <<>>
    BY Zenon DEF IsSet
  <2>2. Len(token.ranges) \in Nat /\ Len(token.ranges) # 0
    BY <2>1
  <2>3. \A k \in 1 .. Len(token.ranges) : token.ranges[k].from <= token.ranges[k].to
    BY Zenon DEF IsSet
  <2> QED
    BY <2>1, <2>2, <2>3, Zenon
<1>3. PICK r : Places(R, RT, r)
  BY <1>1, <1>2, RangesTextIs
<1>4. RT \in Seq(Seq(Nat)) /\ Len(RT) = X /\ \A k \in 1 .. X : RT[k] = RangeText(token.ranges[k])
  BY <1>2, RangesTextIs
<1>5. PICK L, N \in Nat : L = Len(R) /\ N = Len(p)
  OBVIOUS
<1>6. PICK b, close \in Nat : b = e + h /\ close = e + Len(w) /\ close = b + L + 1 /\ close <= N
  <2>1. Len(w) = h + L + 1 /\ e + Len(w) <= N
    BY <1>1, <1>5 DEF WrittenAt
  <2>2. PICK M \in Nat : M = Len(w) /\ M = h + L + 1 /\ e + M <= N
    BY <2>1
  <2>3. e + h \in Nat /\ e + M \in Nat /\ e + M = (e + h) + L + 1
    BY <2>2
  <2> QED
    BY <2>2, <2>3
<1>60. b = e + h /\ close = b + L + 1
  BY <1>6, Zenon
<1>61. \A x \in 1 .. h + L + 1 : p[e + x] = w[x]
  BY <1>1, <1>5 DEF WrittenAt
<1>7. p[close] = CloseSet
  <2>1. h + L + 1 \in 1 .. h + L + 1 /\ e + (h + L + 1) = close
    BY <1>60, <1>0
  <2>2. w[h + L + 1] = CloseSet
    BY <1>1, <1>5, Zenon
  <2> QED
    BY <2>1, <2>2, <1>61
<1>8. ASSUME NEW y \in 1 .. L PROVE p[b + y] = R[y]
  <2>1. h + y \in 1 .. h + L + 1 /\ e + (h + y) = b + y
    BY <1>60, <1>0
  <2>2. w[h + y] = R[y]
    BY <1>1, <1>5, Zenon
  <2> QED
    BY <2>1, <2>2, <1>61
<1>9. p[e + 1] = OpenSet /\ (token.negated => p[e + 2] = Negate)
  <2>1. 1 \in 1 .. h + L + 1 /\ (token.negated => 2 \in 1 .. h + L + 1)
    BY <1>0
  <2>2. w[1] = OpenSet /\ (token.negated => w[2] = Negate)
    BY <1>1, Zenon
  <2> QED
    BY <2>1, <2>2, <1>61
<1>10. /\ r \in [0 .. X -> Nat] /\ r[0] = 0 /\ r[X] = L
       /\ \A x \in 1 .. X : /\ r[x] = r[x - 1] + Len(RT[x])
                            /\ \A k \in 1 .. Len(RT[x]) : R[r[x - 1] + k] = RT[x][k]
  BY <1>3, <1>4, <1>5 DEF Places
<1>11. /\ \A x \in 0 .. X : r[x] \in Nat /\ r[x] <= L
       /\ \A y \in 1 .. L : \E x \in 1 .. X : y - r[x - 1] \in 1 .. Len(RT[x])
  <2>1. /\ \A j \in 0 .. X : \A i \in 0 .. j : r[i] <= r[j]
        /\ \A y \in 1 .. L : \E x \in 1 .. X :
              r[x - 1] < y /\ y <= r[x] /\ y - r[x - 1] \in 1 .. Len(RT[x])
    BY <1>3, <1>4, <1>5, PlacesCover
  <2>2. X \in 0 .. X /\ \A x \in 0 .. X : x \in 0 .. X
    OBVIOUS
  <2> QED
    BY <2>1, <2>2, <1>10
<1> HIDE DEF RT
<1>12. ASSUME NEW x \in 1 .. X
       PROVE  /\ b + r[x] <= close - 1 /\ r[x - 1] < r[x]
              /\ p[b + r[x - 1] + 1] = token.ranges[x].from /\ p[b + r[x]] = token.ranges[x].to
              /\ \/ r[x] = r[x - 1] + 1
                 \/ r[x] = r[x - 1] + 3 /\ p[b + r[x - 1] + 2] = Minus
  <2>1. x - 1 \in 0 .. X /\ x \in 0 .. X
    OBVIOUS
  <2>2. PICK u, v \in Nat : u = r[x - 1] /\ v = r[x] /\ v <= L
    BY <2>1, <1>11
  <2>3. PICK z : z = RT[x]
    OBVIOUS
  <2>4. token.ranges[x] \in Interval
    BY <1>2
  <2>5. /\ z \in Seq(Nat) /\ Len(z) \in {1, 3} /\ z[1] = token.ranges[x].from /\ z[Len(z)] = token.ranges[x].to
        /\ Len(z) = 3 => z[2] = Minus
    BY <2>3, <2>4, <1>4, RangeTextIs
  <2>51. PICK l \in Nat : l = Len(z) /\ (l = 1 \/ l = 3)
    BY <2>5
  <2>52. v <= L
    BY <2>2, Zenon
  <2>6. v = u + l /\ \A k \in 1 .. l : R[u + k] = z[k]
    BY <1>10, <2>2, <2>3, <2>51
  <2>7. ASSUME NEW k \in 1 .. l PROVE p[b + u + k] = z[k]
    <3>0. v = u + l
      BY <2>6, Zenon
    <3>1. u + k \in 1 .. L /\ b + (u + k) = b + u + k
      BY <3>0, <2>52
    <3> QED
      BY <3>1, <2>6, <1>8
  <2>8. 1 \in 1 .. l /\ l \in 1 .. l /\ (l = 3 => 2 \in 1 .. l)
    BY <2>51
  <2>9. p[b + u + 1] = token.ranges[x].from /\ p[b + u + l] = token.ranges[x].to
        /\ (l = 3 => p[b + u + 2] = Minus)
    BY <2>5, <2>51, <2>7, <2>8
  <2>10. b + u + l = b + v /\ u < v /\ b + v <= close - 1 /\ (v = u + 1 \/ v = u + 3)
         /\ (v = u + 3 => l = 3)
    <3>0. v = u + l
      BY <2>6, Zenon
    <3>1. close = b + L + 1
      BY <1>6, Zenon
    <3>2. l = 1 \/ l = 3
      BY <2>51, Zenon
    <3> QED
      BY <3>0, <3>1, <3>2, <2>52
  <2> QED
    BY <2>2, <2>9, <2>10
<1>13. ASSUME NEW k \in b + 1 .. close - 1 PROVE p[k] # CloseSet
  <2>0. close = b + L + 1
    BY <1>6, Zenon
  <2>1. PICK y \in 1 .. L : k = b + y
    <3>3. k - b \in 1 .. L /\ k = b + (k - b)
      BY <2>0
    <3> QED
      BY <3>3
  <2>2. PICK x \in 1 .. X : y - r[x - 1] \in 1 .. Len(RT[x])
    BY <1>11
  <2>3. PICK u \in Nat : u = r[x - 1]
    <3>1. x - 1 \in 0 .. X
      OBVIOUS
    <3> QED
      BY <3>1, <1>11
  <2>4. R[u + (y - u)] = RT[x][y - u]
    BY <1>10, <2>2, <2>3
  <2>5. u + (y - u) = y
    BY <2>3
  <2>6. token.ranges[x] \in Interval
    BY <1>2
  <2>61. RT[x] = RangeText(token.ranges[x])
    BY <1>4, Zenon
  <2>7. RT[x][y - u] # CloseSet
    BY <2>2, <2>3, <2>6, <2>61, RangeTextIs
  <2> QED
    BY <2>1, <2>4, <2>5, <2>7, <1>8
<1>14. b + r[X] + 1 = close /\ close \in b + 2 .. N
  <2>1. 1 \in 1 .. X /\ 1 - 1 = 0 /\ 1 \in 0 .. X
    BY <1>2
  <2>2. r[0] < r[1] /\ r[1] \in Nat /\ r[1] <= L
    BY <2>1, <1>11, <1>12
  <2>3. r[0] = 0 /\ r[X] = L
    BY <1>10, Zenon
  <2>4. close = b + L + 1 /\ close <= N
    BY <1>6, Zenon
  <2>5. L >= 1
    BY <2>2, <2>3
  <2> QED
    BY <2>3, <2>4, <2>5
<1>15. SetAt(p, b, token.ranges, r, close)
  BY <1>2, <1>5, <1>6, <1>7, <1>10, <1>11, <1>12, <1>13, <1>14 DEF SetAt
<1>16. b = IF token.negated THEN e + 2 ELSE e + 1
  BY <1>0, <1>6
<1> QED
  BY <1>1, <1>6, <1>9, <1>15, <1>16

SetMatches(s, token, p, e, match) ==
    MatchSet(s, p, e + 2, match) =
        {i \in 1 .. Len(s) : token.negated # Within(token, s[i])
                             /\ i + 1 \in match[e + Len(Written(token)) + 1]}

LEMMA MatchSetIs ==
    ASSUME NEW s \in Seq(Nat), NEW token, IsSet(token), NEW p \in Seq(Nat), NEW e \in Nat,
           WrittenAt(p, e, Written(token)), NEW match
    PROVE  SetMatches(s, token, p, e, match)
<1> DEFINE negate == e + 2 <= Len(p) /\ p[e + 2] = Negate
<1>01. PICK b, close \in Nat :
         /\ b = (IF token.negated THEN e + 2 ELSE e + 1) /\ close = e + Len(Written(token))
         /\ \E r : SetAt(p, b, token.ranges, r, close)
  <2>1. (IF token.negated THEN e + 2 ELSE e + 1) \in Nat
    OBVIOUS
  <2> QED
    BY <2>1, SetPlaced
<1>1. PICK r :
         /\ b = (IF token.negated THEN e + 2 ELSE e + 1) /\ close = e + Len(Written(token))
         /\ SetAt(p, b, token.ranges, r, close)
  BY <1>01, Zenon
<1>2. token.negated => p[e + 2] = Negate
  BY SetPlaced
<1>3. token.negated \in BOOLEAN /\ (~ token.negated => token.ranges[1].from # Negate)
  BY DEF IsSet
<1>4. /\ b + 2 <= close /\ close <= Len(p) /\ Len(p) \in Nat /\ p[b + 1] = token.ranges[1].from
      /\ p[close] = CloseSet /\ \A k \in b + 1 .. close - 1 : p[k] # CloseSet
  <2>2. 1 \in 1 .. Len(token.ranges) /\ 1 - 1 = 0 /\ b + 0 + 1 = b + 1
    BY <1>1 DEF SetAt
  <2>3. r[0] = 0 /\ p[b + r[1 - 1] + 1] = token.ranges[1].from
    BY <2>2, <1>1 DEF SetAt
  <2>4. p[b + 1] = token.ranges[1].from
    BY <2>2, <2>3, Zenon
  <2>5. close \in b + 2 .. Len(p) /\ p[close] = CloseSet /\ \A k \in b + 1 .. close - 1 : p[k] # CloseSet
    BY <1>1, Zenon DEF SetAt
  <2>6. Len(p) \in Nat
    OBVIOUS
  <2>7. b + 2 <= close /\ close <= Len(p)
    BY <2>5, <2>6
  <2> QED
    BY <2>4, <2>5, <2>6, <2>7, Zenon
<1>41. PICK N \in Nat : N = Len(p) /\ b + 2 <= close /\ close <= N
  BY <1>4, Zenon
<1>5. negate = token.negated
  <2>1. CASE token.negated
    <3>0. b = e + 2
      BY <2>1, <1>1
    <3>1. e + 2 <= N
      BY <3>0, <1>41
    <3> QED
      BY <2>1, <3>1, <1>2, <1>3, <1>41
  <2>2. CASE ~ token.negated
    <3>1. b + 1 = e + 2
      BY <2>2, <1>1
    <3>2. p[e + 2] # Negate
      BY <2>2, <3>1, <1>3, <1>4
    <3> QED
      BY <2>2, <3>2, <1>3
  <2> QED
    BY <2>1, <2>2
<1> HIDE DEF negate
<1>6. (IF negate THEN e + 2 + 1 ELSE e + 2) = b + 1
  <2>1. CASE token.negated
    BY <2>1, <1>1, <1>3, <1>5
  <2>2. CASE ~ token.negated
    <3>1. b = e + 1 /\ ~ negate
      BY <2>2, <1>1, <1>3, <1>5
    <3> QED
      BY <3>1
  <2> QED
    BY <2>1, <2>2
<1> HIDE DEF negate
<1> DEFINE set(i) == InSet(s[i], p, b + 1)
           end(i) == Find(p, set(i).at, {CloseSet})
<1>8. MatchSet(s, p, e + 2, match) =
        {i \in 1 .. Len(s) : /\ set(i).ends /\ set(i).found # negate
                             /\ end(i) <= Len(p) /\ i + 1 \in match[end(i) + 1]}
  BY <1>6 DEF MatchSet, negate
<1>9. ASSUME NEW i \in 1 .. Len(s)
      PROVE  /\ set(i).ends /\ set(i).found = Within(token, s[i])
             /\ end(i) = close /\ end(i) <= Len(p)
  <2>1. s[i] \in Nat
    OBVIOUS
  <2>0. ReadSet(s[i], p, b, token.ranges, close)
    BY <2>1, <1>1, SetReadFrom
  <2>2. set(i).ends /\ set(i).at \in b + 1 .. close /\ set(i).found = Within(token, s[i])
    BY <2>0 DEF Within, ReadSet
  <2>3. PICK at : at = set(i).at
    OBVIOUS
  <2>31. at \in b + 1 .. close
    BY <2>2, <2>3
  <2>4. at \in 1 .. N + 1 /\ close \in at .. N + 1 /\ at .. close - 1 \subseteq b + 1 .. close - 1
    BY <2>31, <1>41
  <2>41. Finds(p, N, at, {CloseSet}, close)
    BY <2>4, <1>4 DEF Finds
  <2>5. Find(p, at, {CloseSet}) = close
    BY <2>4, <2>41, <1>41, FindAt
  <2> HIDE DEF set
  <2> QED
    BY <2>2, <2>3, <2>5, <1>4
<1> HIDE DEF set, end
<1>10. \A i \in 1 .. Len(s) : (set(i).found # negate) = (token.negated # Within(token, s[i]))
  BY <1>5, <1>9
<1> QED
  BY <1>1, <1>8, <1>9, <1>10 DEF SetMatches

-----------------------------------------------------------------------------
(* A list in braces at the end of the pattern, with alternatives of one length *)

\* The list is written in p from place b + 1 on.  All alternatives have m characters;
\* what follows the k-th one is at t[k].
ListAt(p, b, list, m, t) ==
    /\ Len(list) \in Nat \ {0} /\ m \in Nat \ {0}
    /\ \A k \in 1 .. Len(list) : list[k] \in Seq(Nat) /\ Len(list[k]) = m
    /\ \A k \in 1 .. Len(list) : t[k] \in Nat /\ t[k] >= b + m + 1 /\ t[k] <= Len(p)
    /\ t[1] = b + m + 1 /\ t[Len(list)] = Len(p) /\ p[t[Len(list)]] = CloseBrace
    /\ \A k \in 1 .. Len(list) : k # Len(list) => t[k + 1] = t[k] + m + 1 /\ p[t[k]] = ListComma
    /\ \A k \in 1 .. Len(list) : \A d \in 1 .. m :
          p[t[k] - m - 1 + d] = list[k][d] /\ list[k][d] \notin {ListComma, CloseBrace}
    /\ \A x \in b + 1 .. Len(p) - 1 : p[x] # CloseBrace

ListTexts(list) == [k \in DOMAIN list |-> IF k = 1 THEN list[1] ELSE <<ListComma>> \o list[k]]

\* The k-th piece of a list's text.
ListPiece(z, list, k, m) ==
    /\ z \in Seq(Nat) /\ Len(z) = (IF k = 1 THEN m ELSE m + 1)
    /\ k # 1 => z[1] = ListComma
    /\ \A d \in 1 .. m : z[Len(z) - m + d] = list[k][d]
    /\ \A x \in 1 .. Len(z) : z[x] # CloseBrace

LEMMA ListTextIs ==
    ASSUME NEW list, IsList(list), NEW m \in Nat, \A k \in 1 .. Len(list) : Len(list[k]) = m
    PROVE  /\ ListTexts(list) \in Seq(Seq(Nat)) /\ Len(ListTexts(list)) = Len(list)
           /\ \A k \in 1 .. Len(list) : ListPiece(ListTexts(list)[k], list, k, m)
           /\ ListText(list) \in Seq(Nat) /\ \E o : Places(ListText(list), ListTexts(list), o)
<1>1. PICK K \in Nat : K = Len(list) /\ DOMAIN list = 1 .. K
  BY DEF IsList
<1>2. ASSUME NEW k \in 1 .. K
      PROVE  list[k] \in Seq(Nat) /\ Len(list[k]) = m /\ \A d \in 1 .. m : list[k][d] # CloseBrace
  <2>1. list[k] \in Seq(Nat \ {ListComma, CloseBrace}) /\ Len(list[k]) = m
    BY <1>1 DEF IsList
  <2>2. PICK z \in Seq(Nat \ {ListComma, CloseBrace}) : z = list[k]
    BY <2>1
  <2> QED
    BY <2>1, <2>2
<1>3. PICK Q : Q = ListTexts(list)
  OBVIOUS
<1>4. ASSUME NEW k \in 1 .. K PROVE Q[k] = IF k = 1 THEN list[1] ELSE <<ListComma>> \o list[k]
  BY <1>1, <1>3 DEF ListTexts
<1>5. ListComma \in Nat /\ ListComma # CloseBrace
  BY DEF ListComma, CloseBrace
<1>6. ASSUME NEW k \in 1 .. K PROVE ListPiece(Q[k], list, k, m)
  <2>1. PICK l \in Seq(Nat) : l = list[k] /\ Len(l) = m /\ \A d \in 1 .. m : l[d] # CloseBrace
    BY <1>2
  <2>2. CASE k = 1
    <3>1. Q[k] = l
      BY <2>1, <2>2, <1>4
    <3>2. \A d \in 1 .. m : m - m + d = d
      OBVIOUS
    <3>3. \A d \in 1 .. m : l[Len(l) - m + d] = l[d]
      BY <2>1, <3>2
    <3> QED
      BY <2>1, <2>2, <3>1, <3>3 DEF ListPiece
  <2>3. CASE k # 1
    <3>1. PICK c \in Seq(Nat) : c = <<ListComma>> /\ Len(c) = 1 /\ c[1] = ListComma
      BY <1>5, OneChar
    <3>2. PICK z : z = c \o l
      OBVIOUS
    <3>3. /\ z \in Seq(Nat) /\ Len(z) = Len(c) + Len(l)
          /\ \A y \in 1 .. Len(c) : z[y] = c[y]
          /\ \A y \in 1 .. Len(l) : z[Len(c) + y] = l[y]
      <4>1. IsJoin(z, c, l)
        BY <3>2, JoinIs
      <4> QED
        BY <4>1, Zenon DEF IsJoin
    <3>4. Len(z) = 1 + m /\ 1 \in 1 .. Len(c)
      BY <2>1, <3>1, <3>3
    <3>5. z[1] = ListComma /\ \A d \in 1 .. m : z[1 + d] = l[d]
      BY <2>1, <3>1, <3>3, <3>4, Zenon
    <3>6. \A d \in 1 .. m : Len(z) - m + d = 1 + d
      BY <3>4
    <3>7. ASSUME NEW x \in 1 .. Len(z) PROVE z[x] # CloseBrace
      <4>1. CASE x = 1
        BY <4>1, <3>5, <1>5
      <4>2. CASE x # 1
        <5>1. x - 1 \in 1 .. m /\ 1 + (x - 1) = x
          BY <4>2, <3>4
        <5> QED
          BY <5>1, <3>5, <2>1
      <4> QED
        BY <4>1, <4>2
    <3>8. Q[k] = z
      BY <2>1, <2>3, <3>1, <3>2, <1>4
    <3>9. Len(z) = m + 1
      BY <3>4
    <3>10. Len(z) = (IF k = 1 THEN m ELSE m + 1)
      BY <2>3, <3>9
    <3>11. \A d \in 1 .. m : z[Len(z) - m + d] = list[k][d]
      BY <2>1, <3>5, <3>6
    <3>12. ListPiece(z, list, k, m)
      BY <3>3, <3>5, <3>7, <3>10, <3>11, Zenon DEF ListPiece
    <3> QED
      BY <3>8, <3>12, Zenon
  <2> QED
    BY <2>2, <2>3
<1>7. Q \in Seq(Seq(Nat)) /\ Len(Q) = K
  <2>1. \A k \in 1 .. K : (IF k = 1 THEN list[1] ELSE <<ListComma>> \o list[k]) \in Seq(Nat)
    BY <1>4, <1>6 DEF ListPiece
  <2>2. Q = [k \in 1 .. K |-> IF k = 1 THEN list[1] ELSE <<ListComma>> \o list[k]]
    BY <1>1, <1>3, Zenon DEF ListTexts
  <2> DEFINE g(k) == IF k = 1 THEN list[1] ELSE <<ListComma>> \o list[k]
  <2>3. \A k \in 1 .. K : g(k) \in Seq(Nat)
    BY <2>1
  <2>4. Q = [k \in 1 .. K |-> g(k)]
    BY <2>2
  <2> HIDE DEF g
  <2> QED
    BY <2>3, <2>4
<1>8. ListText(list) = FlattenSeq(Q)
  BY <1>3, Zenon DEF ListText, ListTexts
<1> QED
  BY <1>1, <1>3, <1>6, <1>7, <1>8, FlattenSeqPlaces

LEMMA WrittenList ==
    ASSUME NEW token, token.is = "brace", NEW T \in Seq(Nat), T = ListText(token.list)
    PROVE  LET w == Written(token)
           IN  /\ w \in Seq(Nat) /\ Len(w) = Len(T) + 2 /\ w[1] = OpenBrace
               /\ \A y \in 1 .. Len(T) : w[1 + y] = T[y]
               /\ w[Len(T) + 2] = CloseBrace
<1>1. OpenBrace \in Nat /\ CloseBrace \in Nat
  BY DEF OpenBrace, CloseBrace
<1>2. PICK o \in Seq(Nat) : o = <<OpenBrace>> /\ Len(o) = 1 /\ o[1] = OpenBrace
  BY <1>1, OneChar
<1>3. PICK c \in Seq(Nat) : c = <<CloseBrace>> /\ Len(c) = 1 /\ c[1] = CloseBrace
  BY <1>1, OneChar
<1>4. PICK a : a = o \o T
  OBVIOUS
<1>5. /\ a \in Seq(Nat) /\ Len(a) = Len(o) + Len(T) /\ Len(T) \in Nat
      /\ \A y \in 1 .. Len(o) : a[y] = o[y]
      /\ \A y \in 1 .. Len(T) : a[Len(o) + y] = T[y]
  <2>1. IsJoin(a, o, T)
    BY <1>4, JoinIs
  <2> QED
    BY <2>1, Zenon DEF IsJoin
<1>6. PICK w : w = a \o c
  OBVIOUS
<1>7. /\ w \in Seq(Nat) /\ Len(w) = Len(a) + Len(c)
      /\ \A y \in 1 .. Len(a) : w[y] = a[y]
      /\ \A y \in 1 .. Len(c) : w[Len(a) + y] = c[y]
  <2>1. a \in Seq(Nat)
    BY <1>5, Zenon
  <2> QED
    <3>1. IsJoin(w, a, c)
      BY <2>1, <1>6, JoinIs
    <3> QED
      BY <3>1, Zenon DEF IsJoin
<1>8. Written(token) = w
  BY <1>2, <1>3, <1>4, <1>6 DEF Written
<1>9. PICK L \in Nat : L = Len(T) /\ Len(a) = 1 + L /\ Len(w) = L + 2
  BY <1>2, <1>3, <1>5, <1>7
<1>10. 1 \in 1 .. Len(o) /\ 1 \in 1 .. Len(c) /\ 1 \in 1 .. Len(a) /\ Len(a) + 1 = L + 2
       /\ \A y \in 1 .. L : 1 + y \in 1 .. Len(a)
  BY <1>2, <1>3, <1>9
<1>11. w[1] = OpenBrace
  BY <1>2, <1>5, <1>7, <1>10, Zenon
<1>12. \A y \in 1 .. L : w[1 + y] = T[y]
  BY <1>2, <1>5, <1>7, <1>9, <1>10, Zenon
<1>13. w[L + 2] = CloseBrace
  BY <1>3, <1>7, <1>10, Zenon
<1> QED
  BY <1>7, <1>8, <1>9, <1>11, <1>12, <1>13

ListIn(p, e, list, m) == p[e + 1] = OpenBrace /\ \E t : ListAt(p, e + 1, list, m, t)

LEMMA ListPlaced ==
    ASSUME NEW token, token.is = "brace", NEW list, list = token.list, IsList(list),
           NEW m \in Nat, \A k \in 1 .. Len(list) : Len(list[k]) = m,
           NEW p \in Seq(Nat), NEW e \in Nat, WrittenAt(p, e, Written(token)), e + Len(Written(token)) = Len(p)
    PROVE  ListIn(p, e, list, m)
<1>1. PICK K \in Nat : K = Len(list) /\ K # 0
  BY DEF IsList
<1>2. m # 0
  <2>1. list[1] \in Seq(Nat \ {ListComma, CloseBrace}) /\ list[1] # <<>> /\ 1 \in 1 .. Len(list)
    BY <1>1 DEF IsList
  <2> QED
    BY <2>1
<1>3. PICK Q, T, o :
         /\ Q \in Seq(Seq(Nat)) /\ Len(Q) = K /\ \A k \in 1 .. K : ListPiece(Q[k], list, k, m)
         /\ T = ListText(list) /\ T \in Seq(Nat) /\ Places(T, Q, o)
  BY <1>1, ListTextIs
<1>4. PICK w : /\ w = Written(token) /\ w \in Seq(Nat) /\ Len(w) = Len(T) + 2 /\ w[1] = OpenBrace
               /\ \A y \in 1 .. Len(T) : w[1 + y] = T[y]
               /\ w[Len(T) + 2] = CloseBrace
  BY <1>3, WrittenList
<1>5. PICK L, N, b \in Nat : L = Len(T) /\ N = Len(p) /\ b = e + 1 /\ Len(w) = L + 2
  <2>1. T \in Seq(Nat) /\ Len(w) = Len(T) + 2
    BY <1>3, <1>4, Zenon
  <2>2. Len(T) \in Nat /\ Len(p) \in Nat /\ e + 1 \in Nat
    BY <2>1
  <2> QED
    BY <2>1, <2>2, Zenon
<1>6. N = b + L + 1 /\ \A x \in 1 .. L + 2 : p[e + x] = w[x]
  <2>1. e + Len(w) = N /\ \A x \in 1 .. Len(w) : p[e + x] = w[x]
    BY <1>4, <1>5, Zenon DEF WrittenAt
  <2>2. Len(w) = L + 2 /\ b = e + 1
    BY <1>5, Zenon
  <2>3. N = e + (L + 2)
    BY <2>1, <2>2, Zenon
  <2>4. N = e + 1 + L + 1
    BY <2>3
  <2> QED
    BY <2>1, <2>2, <2>4, Zenon
<1>61. N = b + L + 1 /\ b = e + 1
  BY <1>5, <1>6, Zenon
<1>7. p[e + 1] = OpenBrace
  <2>1. 1 \in 1 .. L + 2
    OBVIOUS
  <2> QED
    BY <2>1, <1>4, <1>6, Zenon
<1>8. p[N] = CloseBrace
  <2>1. L + 2 \in 1 .. L + 2 /\ e + (L + 2) = N
    BY <1>61
  <2>2. w[L + 2] = CloseBrace
    BY <1>4, <1>5, Zenon
  <2> QED
    BY <2>1, <2>2, <1>6
<1>9. ASSUME NEW y \in 1 .. L PROVE p[b + y] = T[y]
  <2>1. 1 + y \in 1 .. L + 2 /\ e + (1 + y) = b + y
    BY <1>61
  <2>2. w[1 + y] = T[y]
    BY <1>4, <1>5, Zenon
  <2> QED
    BY <2>1, <2>2, <1>6
<1>10. /\ o \in [0 .. K -> Nat] /\ o[0] = 0 /\ o[K] = L
       /\ \A k \in 1 .. K : /\ o[k] = o[k - 1] + Len(Q[k])
                            /\ \A x \in 1 .. Len(Q[k]) : T[o[k - 1] + x] = Q[k][x]
  BY <1>3, <1>5 DEF Places
<1>11. /\ \A k \in 0 .. K : o[k] \in Nat /\ o[k] <= L
       /\ \A y \in 1 .. L : \E k \in 1 .. K : y - o[k - 1] \in 1 .. Len(Q[k])
  <2>1. /\ \A j \in 0 .. K : \A i \in 0 .. j : o[i] <= o[j]
        /\ \A y \in 1 .. L : \E k \in 1 .. K :
              o[k - 1] < y /\ y <= o[k] /\ y - o[k - 1] \in 1 .. Len(Q[k])
    BY <1>3, <1>5, PlacesCover
  <2>2. K \in 0 .. K /\ \A k \in 0 .. K : k \in 0 .. K
    OBVIOUS
  <2> QED
    BY <2>1, <2>2, <1>10
<1>12. PICK t : t = [k \in 1 .. K |-> b + o[k] + 1]
  OBVIOUS
<1>13. ASSUME NEW k \in 1 .. K
       PROVE  /\ t[k] = b + o[k] + 1 /\ t[k] \in Nat /\ t[k] >= b + m + 1 /\ t[k] <= N
              /\ \A d \in 1 .. m : p[t[k] - m - 1 + d] = list[k][d]
  <2>1. k - 1 \in 0 .. K /\ k \in 0 .. K
    OBVIOUS
  <2>2. PICK u, v \in Nat : u = o[k - 1] /\ v = o[k]
    BY <2>1, <1>11
  <2>21. v <= L
    BY <2>1, <2>2, <1>11
  <2>3. PICK z \in Seq(Nat) : z = Q[k] /\ ListPiece(z, list, k, m)
    BY <1>3 DEF ListPiece
  <2>4. PICK l \in Nat : l = Len(z)
    OBVIOUS
  <2>41. l = m \/ l = m + 1
    BY <2>3, <2>4 DEF ListPiece
  <2>5. v = u + l
    BY <1>10, <2>2, <2>3, <2>4
  <2>6. \A x \in 1 .. l : T[u + x] = z[x]
    BY <1>10, <2>2, <2>3, <2>4
  <2>7. t[k] = b + v + 1
    BY <2>2, <1>12
  <2>8. b + v + 1 \in Nat /\ b + v + 1 >= b + m + 1 /\ b + v + 1 <= N
    BY <2>21, <2>41, <2>5, <1>61
  <2>10. PICK q \in Nat : q = b + v + 1
    BY <2>8
  <2>9. ASSUME NEW d \in 1 .. m PROVE p[q - m - 1 + d] = list[k][d]
    <3>1. PICK x \in 1 .. l : x = l - m + d
      BY <2>41
    <3>2. PICK y \in 1 .. L : y = u + x
      BY <2>21, <2>5, <3>1
    <3>3. q - m - 1 + d = b + y
      BY <2>5, <2>10, <3>1, <3>2
    <3>4. z[x] = list[k][d]
      BY <2>3, <2>4, <3>1 DEF ListPiece
    <3> QED
      BY <3>2, <3>3, <3>4, <2>6, <1>9
  <2>11. \A d \in 1 .. m : p[q - m - 1 + d] = list[k][d]
    BY <2>9, Zenon
  <2>12. t[k] = q /\ q \in Nat /\ q >= b + m + 1 /\ q <= N
    BY <2>7, <2>8, <2>10, Zenon
  <2>13. t[k] = b + o[k] + 1
    BY <2>2, <2>7, Zenon
  <2> QED
    BY <2>11, <2>12, <2>13, Zenon
<1>14. ASSUME NEW k \in 1 .. K, k # K PROVE t[k + 1] = t[k] + m + 1 /\ p[t[k]] = ListComma
  <2>1. k + 1 \in 1 .. K /\ k \in 0 .. K /\ k + 1 - 1 = k /\ k + 1 # 1 /\ k + 1 \in 0 .. K
    BY <1>14
  <2>2. PICK u, v \in Nat : u = o[k] /\ v = o[k + 1] /\ v <= L
    BY <2>1, <1>11
  <2>3. PICK z \in Seq(Nat) : z = Q[k + 1] /\ ListPiece(z, list, k + 1, m)
    BY <2>1, <1>3 DEF ListPiece
  <2>4. Len(z) = m + 1 /\ z[1] = ListComma
    BY <2>1, <2>3 DEF ListPiece
  <2>50. /\ o[k + 1] = o[k + 1 - 1] + Len(Q[k + 1])
         /\ \A x \in 1 .. Len(Q[k + 1]) : T[o[k + 1 - 1] + x] = Q[k + 1][x]
    <3>1. \A x \in 1 .. K : /\ o[x] = o[x - 1] + Len(Q[x])
                            /\ \A y \in 1 .. Len(Q[x]) : T[o[x - 1] + y] = Q[x][y]
      BY <1>10, Zenon
    <3>2. k + 1 \in 1 .. K
      BY <2>1, Zenon
    <3> HIDE <1>10
    <3> QED
      BY <3>1, <3>2
  <2>5. v = u + (m + 1) /\ \A x \in 1 .. m + 1 : T[u + x] = z[x]
    BY <2>50, <2>1, <2>2, <2>3, <2>4, Zenon
  <2>6. v = u + (m + 1) /\ v <= L
    BY <2>2, <2>5, Zenon
  <2>7. u + 1 \in 1 .. L /\ 1 \in 1 .. m + 1
    BY <2>6
  <2>8. p[b + (u + 1)] = ListComma
    BY <2>4, <2>5, <2>7, <1>9
  <2>9. t[k] = b + u + 1 /\ t[k + 1] = b + v + 1
    BY <2>1, <2>2, <1>13
  <2>10. b + (u + 1) = b + u + 1 /\ b + v + 1 = b + u + 1 + m + 1
    BY <2>6
  <2> QED
    BY <2>8, <2>9, <2>10
<1>15. t[1] = b + m + 1 /\ t[K] = N
  <2>1. 1 \in 1 .. K /\ K \in 1 .. K /\ 1 - 1 = 0
    BY <1>1
  <2>2. Len(Q[1]) = m
    BY <2>1, <1>3 DEF ListPiece
  <2>3. o[1] = o[0] + Len(Q[1]) /\ o[0] = 0 /\ o[K] = L
    BY <2>1, <1>10
  <2>4. o[1] = m
    BY <2>2, <2>3
  <2>5. t[1] = b + o[1] + 1 /\ t[K] = b + o[K] + 1
    BY <2>1, <1>13
  <2> QED
    BY <2>3, <2>4, <2>5, <1>61
<1>16. ASSUME NEW x \in b + 1 .. N - 1 PROVE p[x] # CloseBrace
  <2>1. PICK y \in 1 .. L : x = b + y
    <3>3. x - b \in 1 .. L /\ x = b + (x - b)
      BY <1>61
    <3> QED
      BY <3>3
  <2>2. PICK k \in 1 .. K : y - o[k - 1] \in 1 .. Len(Q[k])
    BY <1>11
  <2>3. PICK u \in Nat : u = o[k - 1]
    <3>1. k - 1 \in 0 .. K
      OBVIOUS
    <3> QED
      BY <3>1, <1>11
  <2>4. T[u + (y - u)] = Q[k][y - u]
    BY <1>10, <2>2, <2>3
  <2>5. u + (y - u) = y
    BY <2>3
  <2>6. Q[k][y - u] # CloseBrace
    BY <2>2, <2>3, <1>3 DEF ListPiece
  <2> QED
    BY <2>1, <2>4, <2>5, <2>6, <1>9
<1>17. ASSUME NEW k \in 1 .. K
       PROVE  /\ list[k] \in Seq(Nat) /\ Len(list[k]) = m
              /\ \A d \in 1 .. m : list[k][d] \notin {ListComma, CloseBrace}
  <2>1. list[k] \in Seq(Nat \ {ListComma, CloseBrace}) /\ Len(list[k]) = m
    BY <1>1 DEF IsList
  <2>2. PICK z \in Seq(Nat \ {ListComma, CloseBrace}) : z = list[k]
    BY <2>1
  <2> QED
    BY <2>1, <2>2
<1>18. ListAt(p, b, list, m, t)
  <2>1. Len(list) \in Nat \ {0} /\ m \in Nat \ {0}
    BY <1>1, <1>2
  <2>2. \A k \in 1 .. K : list[k] \in Seq(Nat) /\ Len(list[k]) = m
    BY <1>17, Zenon
  <2>3. \A k \in 1 .. K : t[k] \in Nat /\ t[k] >= b + m + 1 /\ t[k] <= N
    BY <1>13, Zenon
  <2>4. \A k \in 1 .. K : k # K => t[k + 1] = t[k] + m + 1 /\ p[t[k]] = ListComma
    BY <1>14, Zenon
  <2>5. \A k \in 1 .. K : \A d \in 1 .. m :
          p[t[k] - m - 1 + d] = list[k][d] /\ list[k][d] \notin {ListComma, CloseBrace}
    BY <1>13, <1>17, Zenon
  <2>6. p[t[K]] = CloseBrace
    BY <1>8, <1>15, Zenon
  <2>7. K = Len(list) /\ N = Len(p)
    BY <1>1, <1>5, Zenon
  <2>8. \A x \in b + 1 .. N - 1 : p[x] # CloseBrace
    BY <1>16, Zenon
  <2> DEFINE Body(X, Y) ==
               /\ X \in Nat \ {0} /\ m \in Nat \ {0}
               /\ \A k \in 1 .. X : list[k] \in Seq(Nat) /\ Len(list[k]) = m
               /\ \A k \in 1 .. X : t[k] \in Nat /\ t[k] >= b + m + 1 /\ t[k] <= Y
               /\ t[1] = b + m + 1 /\ t[X] = Y /\ p[t[X]] = CloseBrace
               /\ \A k \in 1 .. X : k # X => t[k + 1] = t[k] + m + 1 /\ p[t[k]] = ListComma
               /\ \A k \in 1 .. X : \A d \in 1 .. m :
                     p[t[k] - m - 1 + d] = list[k][d] /\ list[k][d] \notin {ListComma, CloseBrace}
               /\ \A x \in b + 1 .. Y - 1 : p[x] # CloseBrace
  <2>9. K \in Nat \ {0} /\ m \in Nat \ {0}
    BY <2>1, <2>7, Zenon
  <2>10. Body(K, N)
    BY <2>9, <2>2, <2>3, <2>4, <2>5, <2>6, <2>8, <1>15, Zenon
  <2> HIDE DEF Body
  <2>11. Body(Len(list), Len(p))
    BY <2>7, <2>10, Zenon
  <2> QED
    BY <2>11, Zenon DEF ListAt, Body
<1>19. p[e + 1] = OpenBrace
  BY <1>5, <1>7, <1>18
<1>20. \E u : ListAt(p, e + 1, list, m, u)
  BY <1>5, <1>7, <1>18
<1> QED
  BY <1>19, <1>20, Zenon DEF ListIn

\* What the loop over a list finds, with the string at place i at its beginning:
\* V[k][d] is where the string may be before character d of alternative k, and
\* V[k][m + 1] where it may be behind that alternative.
Goes(V, s, i, list, K, m) ==
    /\ \A k \in 1 .. K : \A d \in 1 .. m : \A a \in 1 .. Len(s) + 1 :
          a \in V[k][d] <=> IF a <= Len(s) /\ s[a] = list[k][d] THEN a + 1 \in V[k][d + 1]
                            ELSE k # K /\ i \in V[k + 1][1]
    /\ \A k \in 1 .. K : k # K => \A a \in 1 .. Len(s) + 1 :
          a \in V[k][m + 1] <=> a = Len(s) + 1 \/ i \in V[k + 1][2]
    /\ \A a \in 1 .. Len(s) + 1 : a \in V[K][m + 1] <=> a = Len(s) + 1

\* The string goes on at place i with the characters from d on.
Spells(s, i, w, d, m) == \A y \in d .. m : s[i + y - 1] = w[y]

\* Too much of the string is left for an alternative.
LEMMA ListTooShort ==
    ASSUME NEW s \in Seq(Nat), NEW list, NEW K \in Nat, NEW m \in Nat \ {0}, K # 0,
           NEW i \in 1 .. Len(s), NEW V, Goes(V, s, i, list, K, m), i + m <= Len(s)
    PROVE  i \notin V[1][1]
<1> DEFINE L == Len(s)
           Out(k, d) == \A a \in 1 .. L : a + (m + 1 - d) <= L => a \notin V[k][d]
           Bad == {k \in 1 .. K : \E d \in 1 .. m + 1 : ~ Out(k, d)}
<1>1. L \in Nat /\ i \in Nat
  OBVIOUS
<1>2. ASSUME NEW k \in 1 .. K, \A x \in k + 1 .. K : \A d \in 1 .. m + 1 : Out(x, d)
      PROVE  k # K => i \notin V[k + 1][1] /\ i \notin V[k + 1][2]
  <2>1. ASSUME k # K PROVE k + 1 \in k + 1 .. K
    BY <2>1
  <2>2. 1 \in 1 .. m + 1 /\ 2 \in 1 .. m + 1 /\ i \in 1 .. L /\ i + (m + 1 - 1) <= L /\ i + (m + 1 - 2) <= L
    BY <1>1
  <2> HIDE DEF L
  <2> QED
    BY <2>1, <2>2, <1>2
<1>3. ASSUME NEW k \in 1 .. K, \A x \in k + 1 .. K : \A d \in 1 .. m + 1 : Out(x, d),
             NEW d \in 1 .. m + 1, \A x \in d + 1 .. m + 1 : Out(k, x)
      PROVE  Out(k, d)
  <2> SUFFICES ASSUME NEW a \in 1 .. L, a + (m + 1 - d) <= L PROVE a \notin V[k][d]
    OBVIOUS
  <2>0. k # K => i \notin V[k + 1][1] /\ i \notin V[k + 1][2]
    BY <1>2, <1>3
  <2>1. CASE d = m + 1
    <3>1. a \in 1 .. L + 1 /\ a # L + 1
      BY <1>1
    <3> HIDE DEF L
    <3>2. CASE k # K
      <4>1. a \in V[k][m + 1] <=> a = L + 1 \/ i \in V[k + 1][2]
        BY <3>1, <3>2 DEF Goes, L
      <4> QED
        BY <4>1, <3>1, <3>2, <2>0, <2>1
    <3>3. CASE k = K
      <4>1. a \in V[K][m + 1] <=> a = L + 1
        BY <3>1 DEF Goes, L
      <4> QED
        BY <4>1, <3>1, <3>3, <2>1
    <3> QED
      BY <3>2, <3>3
  <2>2. CASE d # m + 1
    <3>1. a \in 1 .. L + 1 /\ a + 1 \in 1 .. L /\ d \in 1 .. m /\ d + 1 \in d + 1 .. m + 1
          /\ a + 1 + (m + 1 - (d + 1)) <= L
      BY <2>2, <1>1
    <3> HIDE DEF L
    <3>2. a + 1 \notin V[k][d + 1]
      BY <3>1, <1>3
    <3>3. a \in V[k][d] <=> IF a <= L /\ s[a] = list[k][d] THEN a + 1 \in V[k][d + 1]
                            ELSE k # K /\ i \in V[k + 1][1]
      BY <3>1 DEF Goes, L
    <3> QED
      BY <3>2, <3>3, <2>0
  <2> QED
    BY <2>1, <2>2
<1> HIDE DEF Out
<1>4. Bad = {}
  <2> SUFFICES ASSUME Bad # {} PROVE FALSE
    OBVIOUS
  <2>1. PICK k \in Bad : \A x \in k + 1 .. K : x \notin Bad
    <3>1. Bad \in SUBSET (1 .. K) /\ 1 \in Nat
      OBVIOUS
    <3> HIDE DEF Bad
    <3> QED
      <4>1. HasLast(Bad, 1, K)
        BY <3>1, LastBad
      <4> QED
        BY <4>1, Zenon DEF HasLast
  <2>2. k \in 1 .. K /\ \A x \in k + 1 .. K : x \in 1 .. K
    BY <2>1
  <2>3. \A x \in k + 1 .. K : \A d \in 1 .. m + 1 : Out(x, d)
    BY <2>1, <2>2
  <2> DEFINE T == {d \in 1 .. m + 1 : ~ Out(k, d)}
  <2>4. PICK d \in T : \A x \in d + 1 .. m + 1 : x \notin T
    <3>1. T \in SUBSET (1 .. m + 1) /\ T # {} /\ 1 \in Nat /\ m + 1 \in Nat
      <4>1. \E d \in 1 .. m + 1 : ~ Out(k, d)
        BY <2>1
      <4>2. T # {}
        BY <4>1
      <4> QED
        BY <4>2
    <3> HIDE DEF T
    <3> QED
      <4>1. HasLast(T, 1, m + 1)
        BY <3>1, LastBad
      <4> QED
        BY <4>1, Zenon DEF HasLast
  <2>5. d \in 1 .. m + 1 /\ \A x \in d + 1 .. m + 1 : x \in 1 .. m + 1
    BY <2>4
  <2>6. \A x \in d + 1 .. m + 1 : Out(k, x)
    BY <2>4, <2>5
  <2>7. Out(k, d)
    BY <2>2, <2>3, <2>5, <2>6, <1>3
  <2> QED
    BY <2>4, <2>7
<1>5. 1 \in 1 .. K /\ 1 \in 1 .. m + 1 /\ i \in 1 .. L /\ i + (m + 1 - 1) <= L
  BY <1>1
<1>6. Out(1, 1)
  BY <1>4, <1>5
<1> QED
  BY <1>5, <1>6 DEF Out

ListEnds(s, i, V, list, K, m) ==
    i \in V[1][1] <=> i + m = Len(s) + 1 /\ \E x \in 1 .. K : Spells(s, i, list[x], 1, m)

\* What is left of the string is not longer than an alternative.
LEMMA ListShort ==
    ASSUME NEW s \in Seq(Nat), NEW list, NEW K \in Nat, NEW m \in Nat \ {0}, K # 0,
           NEW i \in 1 .. Len(s), NEW V, Goes(V, s, i, list, K, m), i + m >= Len(s) + 1
    PROVE  ListEnds(s, i, V, list, K, m)
<1> DEFINE L == Len(s)
           Full(x) == Spells(s, i, list[x], 1, m)
           Later(k) == \E x \in k + 1 .. K : Full(x)
           All(k, d) == i + d - 1 <= L + 1 =>
                  (i + d - 1 \in V[k][d] <=> i + m = L + 1 /\ (Spells(s, i, list[k], d, m) \/ Later(k)))
           Bad == {k \in 1 .. K : \E d \in 1 .. m + 1 : ~ All(k, d)}
<1>1. L \in Nat /\ i \in Nat
  OBVIOUS
<1>10. ASSUME NEW k \in 1 .. K PROVE (k # K => Later(k) = (Full(k + 1) \/ Later(k + 1))) /\ (k = K => ~ Later(k))
  <2>1. k # K => \A x : x \in k + 1 .. K <=> x = k + 1 \/ x \in k + 1 + 1 .. K
    OBVIOUS
  <2>2. k = K => k + 1 .. K = {}
    OBVIOUS
  <2> HIDE DEF Full
  <2> QED
    BY <2>1, <2>2
<1> HIDE DEF Later
<1>2. ASSUME NEW k \in 1 .. K, \A x \in k + 1 .. K : \A d \in 1 .. m + 1 : All(x, d)
      PROVE  (k # K /\ i \in V[k + 1][1]) <=> i + m = L + 1 /\ Later(k)
  <2>1. CASE k # K
    <3>1. k + 1 \in k + 1 .. K /\ 1 \in 1 .. m + 1 /\ i + 1 - 1 = i /\ i <= L + 1
      BY <2>1, <1>1
    <3>2. i \in V[k + 1][1] <=> i + m = L + 1 /\ (Full(k + 1) \/ Later(k + 1))
      <4>1. All(k + 1, 1)
        BY <3>1, <1>2
      <4> QED
        BY <3>1, <4>1
    <3> QED
      BY <2>1, <3>2, <1>10
  <2>2. CASE k = K
    BY <2>2, <1>10
  <2> QED
    BY <2>1, <2>2
<1>3. ASSUME NEW k \in 1 .. K, \A x \in k + 1 .. K : \A d \in 1 .. m + 1 : All(x, d),
             NEW d \in 1 .. m + 1, \A x \in d + 1 .. m + 1 : All(k, x)
      PROVE  All(k, d)
  <2> SUFFICES ASSUME i + d - 1 <= L + 1
               PROVE  i + d - 1 \in V[k][d] <=> i + m = L + 1 /\ (Spells(s, i, list[k], d, m) \/ Later(k))
    OBVIOUS
  <2>0. (k # K /\ i \in V[k + 1][1]) <=> i + m = L + 1 /\ Later(k)
    BY <1>2, <1>3
  <2>1. CASE d = m + 1
    <3>1. i + m = L + 1 /\ i + d - 1 = L + 1 /\ L + 1 \in 1 .. L + 1
      BY <2>1, <1>1
    <3>2. Spells(s, i, list[k], d, m)
      <4>1. d .. m = {}
        BY <2>1
      <4> QED
        BY <4>1 DEF Spells
    <3>3. L + 1 \in V[k][m + 1]
      <4>1. CASE k = K
        BY <4>1, <3>1 DEF Goes
      <4>2. CASE k # K
        BY <4>2, <3>1 DEF Goes
      <4> QED
        BY <4>1, <4>2
    <3> QED
      BY <2>1, <3>1, <3>2, <3>3
  <2>2. CASE d # m + 1
    <3>1. PICK a \in Nat : a = i + d - 1
      BY <1>1
    <3>2. a \in 1 .. L + 1 /\ d \in 1 .. m /\ d + 1 \in d + 1 .. m + 1 /\ i + (d + 1) - 1 = a + 1
          /\ (a <= L => a + 1 <= L + 1) /\ (i + m = L + 1 => a <= L)
      BY <2>2, <3>1, <1>1
    <3>3. a \in V[k][d] <=> IF a <= L /\ s[a] = list[k][d] THEN a + 1 \in V[k][d + 1]
                            ELSE k # K /\ i \in V[k + 1][1]
      BY <3>2 DEF Goes
    <3>4. Spells(s, i, list[k], d, m) <=> s[a] = list[k][d] /\ Spells(s, i, list[k], d + 1, m)
      <4>1. \A y : y \in d .. m <=> y = d \/ y \in d + 1 .. m
        BY <3>2
      <4> QED
        BY <4>1, <3>1 DEF Spells
    <3>5. a <= L => (a + 1 \in V[k][d + 1] <=> i + m = L + 1 /\ (Spells(s, i, list[k], d + 1, m) \/ Later(k)))
      <4>1. All(k, d + 1)
        BY <3>2, <1>3
      <4> QED
        BY <4>1, <3>2
    <3> HIDE DEF L
    <3>6. a \in V[k][d] <=> i + m = L + 1 /\ (Spells(s, i, list[k], d, m) \/ Later(k))
      BY <3>2, <3>3, <3>4, <3>5, <2>0
    <3> QED
      BY <3>1, <3>6
  <2> QED
    BY <2>1, <2>2
<1> HIDE DEF All
<1>4. Bad = {}
  <2> SUFFICES ASSUME Bad # {} PROVE FALSE
    OBVIOUS
  <2>1. PICK k \in Bad : \A x \in k + 1 .. K : x \notin Bad
    <3>1. Bad \in SUBSET (1 .. K) /\ 1 \in Nat
      OBVIOUS
    <3> HIDE DEF Bad
    <3> QED
      <4>1. HasLast(Bad, 1, K)
        BY <3>1, LastBad
      <4> QED
        BY <4>1, Zenon DEF HasLast
  <2>2. k \in 1 .. K /\ \A x \in k + 1 .. K : x \in 1 .. K
    BY <2>1
  <2>3. \A x \in k + 1 .. K : \A d \in 1 .. m + 1 : All(x, d)
    BY <2>1, <2>2
  <2> DEFINE T == {d \in 1 .. m + 1 : ~ All(k, d)}
  <2>4. PICK d \in T : \A x \in d + 1 .. m + 1 : x \notin T
    <3>1. T \in SUBSET (1 .. m + 1) /\ T # {} /\ 1 \in Nat /\ m + 1 \in Nat
      <4>1. \E d \in 1 .. m + 1 : ~ All(k, d)
        BY <2>1
      <4>2. T # {}
        BY <4>1
      <4> QED
        BY <4>2
    <3> HIDE DEF T
    <3> QED
      <4>1. HasLast(T, 1, m + 1)
        BY <3>1, LastBad
      <4> QED
        BY <4>1, Zenon DEF HasLast
  <2>5. d \in 1 .. m + 1 /\ \A x \in d + 1 .. m + 1 : x \in 1 .. m + 1
    BY <2>4
  <2>6. \A x \in d + 1 .. m + 1 : All(k, x)
    BY <2>4, <2>5
  <2>7. All(k, d)
    BY <2>2, <2>3, <2>5, <2>6, <1>3
  <2> QED
    BY <2>4, <2>7
<1>5. 1 \in 1 .. K /\ 1 \in 1 .. m + 1 /\ i + 1 - 1 = i /\ i <= L + 1
  BY <1>1
<1>6. All(1, 1)
  BY <1>4, <1>5
<1>7. i \in V[1][1] <=> i + m = L + 1 /\ (Full(1) \/ Later(1))
  BY <1>5, <1>6 DEF All
<1>8. (Full(1) \/ Later(1)) <=> \E x \in 1 .. K : Full(x)
  <2>1. \A x : x \in 1 .. K <=> x = 1 \/ x \in 1 + 1 .. K
    BY <1>5
  <2> HIDE DEF Full
  <2> QED
    BY <2>1 DEF Later
<1> QED
  BY <1>7, <1>8 DEF ListEnds

\* The place of character d of alternative k, and what the loop does there.
ListTurns(alt, s, i, p, n, list, m, t) ==
    /\ \A k \in 1 .. Len(list) : \A d \in 1 .. m :
          alt[t[k] - m - 1 + d] =
             {a \in 1 .. Len(s) + 1 :
                 IF a <= Len(s) /\ list[k][d] = s[a] THEN a + 1 \in alt[t[k] - m + d]
                 ELSE k # Len(list) /\ i \in alt[t[k] + 1]}
    /\ \A k \in 1 .. Len(list) : k # Len(list) =>
          alt[t[k]] = {a \in 1 .. Len(s) + 1 : a = Len(s) + 1 \/ i \in alt[t[k] + 2]}
    /\ alt[t[Len(list)]] = {Len(s) + 1}

LEMMA ListTurnsAre ==
    ASSUME NEW s \in Seq(Nat), NEW p \in Seq(Nat), NEW n \in Nat, n = Len(p) + 1, NEW b \in Nat,
           NEW list, NEW m, NEW t, ListAt(p, b, list, m, t), NEW i,
           NEW match \in [1 .. n -> Tails(s)], match[n] = {Len(s) + 1},
           NEW alt, Lists(alt, s, i, p, b + 1, n, n, match)
    PROVE  ListTurns(alt, s, i, p, n, list, m, t)
<1> DEFINE Signs == {ListComma, CloseBrace}
<1>1. PICK K, N \in Nat : K = Len(list) /\ K # 0 /\ N = Len(p) /\ m \in Nat /\ m # 0 /\ n = N + 1
  BY DEF ListAt
<1>2. n = N + 1 /\ m \in Nat /\ m # 0 /\ K # 0
  BY <1>1, Zenon
<1>3. ASSUME NEW k \in 1 .. K
      PROVE  /\ t[k] \in Nat /\ t[k] >= b + m + 1 /\ t[k] <= N
             /\ p[t[k]] = IF k = K THEN CloseBrace ELSE ListComma
             /\ \A d \in 1 .. m : p[t[k] - m - 1 + d] = list[k][d] /\ list[k][d] \notin Signs
  BY <1>1 DEF ListAt
<1>4. ASSUME NEW q \in b + 1 .. n
      PROVE  AltCases(alt[q], s, i, p, q, n, match, alt)
  <2>1. alt[q] = Alternatives(s, i, p, q, n, match, alt)
    BY DEF Lists
  <2>2. q \in Nat /\ Len(p) \in Nat
    BY <1>1
  <2> QED
    BY <2>1, <2>2, AlternativesAre
<1>5. ListComma # CloseBrace
  BY DEF ListComma, CloseBrace
<1>6. ASSUME NEW k \in 1 .. K, NEW d \in 1 .. m
      PROVE  alt[t[k] - m - 1 + d] =
             {a \in 1 .. Len(s) + 1 :
                 IF a <= Len(s) /\ list[k][d] = s[a] THEN a + 1 \in alt[t[k] - m + d]
                 ELSE k # K /\ i \in alt[t[k] + 1]}
  <2>1. PICK z \in Nat : z = t[k]
    BY <1>3
  <2>2. z >= b + m + 1 /\ z <= N
    BY <2>1, <1>3
  <2>3. PICK q \in Nat : q = z - m - 1 + d
    BY <2>2, <1>2
  <2>4. q \in b + 1 .. n /\ q + 1 \in 1 .. N + 1 /\ z \in q + 1 .. N + 1 /\ q <= N /\ q + 1 = z - m + d
    BY <2>2, <2>3, <1>2
  <2>5. p[q] = list[k][d] /\ list[k][d] \notin Signs
    BY <2>1, <2>3, <1>3
  <2>6. AltCases(alt[q], s, i, p, q, n, match, alt)
    BY <2>4, <1>4
  <2>7. alt[q] = AtChar(s, i, p, q, n, alt)
    BY <2>4, <2>5, <2>6, <1>1 DEF AltCases
  <2>8. ASSUME NEW x \in q + 1 .. z - 1 PROVE p[x] \notin Signs
    <3>1. PICK y \in 1 .. m : x = z - m - 1 + y
      <4>1. x - (z - m - 1) \in 1 .. m /\ x = z - m - 1 + (x - (z - m - 1))
        BY <2>2, <2>3, <1>2
      <4> QED
        BY <4>1
    <3> QED
      BY <3>1, <2>1, <1>3
  <2>9. p[z] \in Signs /\ (p[z] = ListComma <=> k # K)
    BY <2>1, <1>3, <1>5
  <2>10. Finds(p, N, q + 1, Signs, z)
    BY <2>4, <2>8, <2>9 DEF Finds
  <2>11. Stop(p, q) = z
    BY <2>4, <2>10, <1>1, FindAt DEF Stop
  <2>12. n > Len(p) /\ z <= Len(p)
    BY <2>2, <1>1
  <2>13. alt[q] = {a \in 1 .. Len(s) + 1 :
                 IF a <= Len(s) /\ list[k][d] = s[a] THEN a + 1 \in alt[q + 1]
                 ELSE k # K /\ i \in alt[z + 1]}
    BY <2>5, <2>7, <2>9, <2>11, <2>12 DEF AtChar
  <2> QED
    BY <2>1, <2>3, <2>4, <2>13
<1>7. ASSUME NEW k \in 1 .. K, k # K
      PROVE  alt[t[k]] = {a \in 1 .. Len(s) + 1 : a = Len(s) + 1 \/ i \in alt[t[k] + 2]}
  <2>1. PICK z \in Nat : z = t[k]
    BY <1>3
  <2>2. z >= b + m + 1 /\ z <= N /\ p[z] = ListComma
    BY <2>1, <1>3, <1>7
  <2>3. z < N
    <3>1. p[N] = CloseBrace
      BY <1>1 DEF ListAt
    <3> QED
      BY <2>2, <3>1, <1>5
  <2>4. z \in b + 1 .. n
    BY <2>2, <1>2
  <2>5. AltCases(alt[z], s, i, p, z, n, match, alt)
    BY <2>4, <1>4
  <2>6. alt[z] = AtComma(s, i, p, z, n, match, alt)
    BY <2>2, <2>5, <1>1 DEF AltCases
  <2>7. \A a : a \in match[n] <=> a = Len(s) + 1
    OBVIOUS
  <2>8. alt[z] = {a \in 1 .. Len(s) + 1 : a = Len(s) + 1 \/ i \in alt[z + 2]}
    BY <2>3, <2>6, <2>7, <1>1 DEF AtComma
  <2> QED
    BY <2>1, <2>8
<1>8. alt[t[K]] = {Len(s) + 1}
  <2>1. PICK z \in Nat : z = t[K] /\ z = N /\ p[z] = CloseBrace
    BY <1>1 DEF ListAt
  <2>2. K \in 1 .. K
    BY <1>2
  <2>3. z >= b + m + 1
    BY <2>1, <2>2, <1>3
  <2>30. z = N
    BY <2>1, Zenon
  <2>31. N >= b + m + 1 /\ m \in Nat /\ m # 0 /\ n = N + 1
    BY <2>3, <2>30, <1>2, Zenon
  <2>32. N \in b + 1 .. n /\ N + 1 = n /\ N <= N
    <3>1. PICK M \in Nat : M = m /\ M # 0
      BY <2>31, Zenon
    <3>2. N >= b + M + 1 /\ n = N + 1
      BY <2>31, <3>1, Zenon
    <3>3. \A B, X, Y, W \in Nat : W # 0 /\ X >= B + W + 1 /\ Y = X + 1
                                  => X \in B + 1 .. Y /\ X + 1 = Y /\ X <= X
      OBVIOUS
    <3> QED
      BY <3>1, <3>2, <3>3, Zenon
  <2>4. z \in b + 1 .. n /\ z + 1 = n /\ z <= N
    BY <2>30, <2>32, Zenon
  <2>5. AltCases(alt[z], s, i, p, z, n, match, alt)
    BY <2>4, <1>4
  <2>6. alt[z] = match[z + 1]
    BY <2>1, <2>4, <2>5, <1>1 DEF AltCases
  <2> QED
    BY <2>1, <2>4, <2>6
<1>9. K = Len(list)
  BY <1>1, Zenon
<1>10. /\ \A k \in 1 .. K : \A d \in 1 .. m :
          alt[t[k] - m - 1 + d] =
             {a \in 1 .. Len(s) + 1 :
                 IF a <= Len(s) /\ list[k][d] = s[a] THEN a + 1 \in alt[t[k] - m + d]
                 ELSE k # K /\ i \in alt[t[k] + 1]}
       /\ \A k \in 1 .. K : k # K =>
          alt[t[k]] = {a \in 1 .. Len(s) + 1 : a = Len(s) + 1 \/ i \in alt[t[k] + 2]}
       /\ alt[t[K]] = {Len(s) + 1}
  BY <1>6, <1>7, <1>8, Zenon
<1> QED
  BY <1>9, <1>10 DEF ListTurns

\* The list finds what it says.
ListFound(s, i, p, b, n, match, list, m) ==
    MatchList(s, i, p, b + 1, n, match) <=>
        i + m = Len(s) + 1 /\ \E x \in 1 .. Len(list) : Spells(s, i, list[x], 1, m)

LEMMA ListGoes ==
    ASSUME NEW s \in Seq(Nat), NEW p \in Seq(Nat), NEW n \in Nat, n = Len(p) + 1, NEW b \in Nat,
           NEW list, NEW m, NEW t, ListAt(p, b, list, m, t), NEW i \in 1 .. Len(s),
           NEW match \in [1 .. n -> Tails(s)], match[n] = {Len(s) + 1}
    PROVE  ListFound(s, i, p, b, n, match, list, m)
<1>1. PICK K, N \in Nat : K = Len(list) /\ K # 0 /\ N = Len(p) /\ m \in Nat /\ m # 0 /\ n = N + 1
  BY DEF ListAt
<1>2. n = N + 1 /\ m \in Nat \ {0} /\ K # 0 /\ K \in Nat
  BY <1>1, Zenon
<1>3. ASSUME NEW k \in 1 .. K
      PROVE  /\ t[k] \in Nat /\ t[k] >= b + m + 1 /\ t[k] <= N
             /\ k # K => t[k + 1] = t[k] + m + 1
  BY <1>1 DEF ListAt
<1>4. 1 \in 1 .. K /\ t[1] = b + m + 1
  BY <1>1 DEF ListAt
<1>5. b + 1 \in 1 .. n /\ n \in b + 1 + 1 .. n
  <2>1. b + m + 1 <= N
    BY <1>3, <1>4
  <2> QED
    BY <2>1, <1>2
<1>6. PICK alt \in [b + 1 .. n -> Tails(s)] : Lists(alt, s, i, p, b + 1, n, n, match)
  BY <1>5, MatchListIs
<1>7. MatchList(s, i, p, b + 1, n, match) = (i \in alt[b + 1])
  BY <1>6 DEF Lists
<1>8. ListTurns(alt, s, i, p, n, list, m, t)
  BY <1>6, ListTurnsAre
<1>9. PICK V : V = [k \in 1 .. K |-> [d \in 1 .. m + 1 |-> alt[t[k] - m - 1 + d]]]
  OBVIOUS
<1>10. ASSUME NEW k \in 1 .. K, NEW d \in 1 .. m + 1 PROVE V[k][d] = alt[t[k] - m - 1 + d]
  BY <1>9
<1>11. ASSUME NEW k \in 1 .. K
       PROVE  /\ V[k][m + 1] = alt[t[k]]
              /\ k # K => V[k + 1][1] = alt[t[k] + 1] /\ V[k + 1][2] = alt[t[k] + 2]
  <2>1. PICK z \in Nat : z = t[k]
    BY <1>3
  <2>2. m + 1 \in 1 .. m + 1 /\ 1 \in 1 .. m + 1 /\ 2 \in 1 .. m + 1
    BY <1>2
  <2>3. z - m - 1 + (m + 1) = z /\ (z + m + 1) - m - 1 + 1 = z + 1 /\ (z + m + 1) - m - 1 + 2 = z + 2
    BY <1>2
  <2>4. V[k][m + 1] = alt[z]
    BY <2>1, <2>2, <2>3, <1>10
  <2>5. ASSUME k # K PROVE V[k + 1][1] = alt[z + 1] /\ V[k + 1][2] = alt[z + 2]
    <3>1. k + 1 \in 1 .. K
      BY <2>5
    <3>2. PICK y : y = z + m + 1
      OBVIOUS
    <3>3. t[k + 1] = y
      BY <2>1, <2>5, <3>2, <1>3
    <3>4. y - m - 1 + 1 = z + 1 /\ y - m - 1 + 2 = z + 2
      BY <3>2, <2>3, Zenon
    <3>5. V[k + 1][1] = alt[t[k + 1] - m - 1 + 1] /\ V[k + 1][2] = alt[t[k + 1] - m - 1 + 2]
      BY <2>2, <3>1, <1>10, Zenon
    <3> QED
      BY <3>3, <3>4, <3>5, Zenon
  <2> QED
    BY <2>1, <2>4, <2>5
<1>12. ASSUME NEW k \in 1 .. K, NEW d \in 1 .. m
       PROVE  V[k][d] = {a \in 1 .. Len(s) + 1 :
                 IF a <= Len(s) /\ list[k][d] = s[a] THEN a + 1 \in V[k][d + 1]
                 ELSE k # K /\ i \in V[k + 1][1]}
  <2>1. PICK z \in Nat : z = t[k]
    BY <1>3
  <2>2. d \in 1 .. m + 1 /\ d + 1 \in 1 .. m + 1 /\ z - m - 1 + (d + 1) = z - m + d
    BY <1>2
  <2>3. V[k][d] = alt[z - m - 1 + d] /\ V[k][d + 1] = alt[z - m + d]
    BY <2>1, <2>2, <1>10
  <2>4. alt[z - m - 1 + d] =
             {a \in 1 .. Len(s) + 1 :
                 IF a <= Len(s) /\ list[k][d] = s[a] THEN a + 1 \in alt[z - m + d]
                 ELSE k # K /\ i \in alt[z + 1]}
    <3>1. K = Len(list)
      BY <1>1, Zenon
    <3>2. alt[t[k] - m - 1 + d] =
             {a \in 1 .. Len(s) + 1 :
                 IF a <= Len(s) /\ list[k][d] = s[a] THEN a + 1 \in alt[t[k] - m + d]
                 ELSE k # Len(list) /\ i \in alt[t[k] + 1]}
      <4>1. k \in 1 .. Len(list)
        BY <3>1
      <4> QED
        BY <4>1, <1>8, Zenon DEF ListTurns
    <3> QED
      BY <2>1, <3>1, <3>2, Zenon
  <2>5. k # K => V[k + 1][1] = alt[z + 1]
    BY <2>1, <1>11
  <2> QED
    BY <2>3, <2>4, <2>5
<1>13. ASSUME NEW k \in 1 .. K, k # K
       PROVE  V[k][m + 1] = {a \in 1 .. Len(s) + 1 : a = Len(s) + 1 \/ i \in V[k + 1][2]}
  <2>1. alt[t[k]] = {a \in 1 .. Len(s) + 1 : a = Len(s) + 1 \/ i \in alt[t[k] + 2]}
    BY <1>1, <1>8, <1>13 DEF ListTurns
  <2> QED
    BY <2>1, <1>11, <1>13
<1>14. V[K][m + 1] = {Len(s) + 1}
  <2>1. K \in 1 .. K
    BY <1>2
  <2>2. alt[t[K]] = {Len(s) + 1}
    BY <1>1, <1>8 DEF ListTurns
  <2> QED
    BY <2>1, <2>2, <1>11
<1>15. Goes(V, s, i, list, K, m)
  <2>1. ASSUME NEW k \in 1 .. K, NEW d \in 1 .. m, NEW a \in 1 .. Len(s) + 1
        PROVE  a \in V[k][d] <=> IF a <= Len(s) /\ s[a] = list[k][d] THEN a + 1 \in V[k][d + 1]
                                 ELSE k # K /\ i \in V[k + 1][1]
    <3>1. V[k][d] = {x \in 1 .. Len(s) + 1 :
                 IF x <= Len(s) /\ list[k][d] = s[x] THEN x + 1 \in V[k][d + 1]
                 ELSE k # K /\ i \in V[k + 1][1]}
      BY <1>12, Zenon
    <3> QED
      BY <3>1
  <2>2. ASSUME NEW k \in 1 .. K, k # K, NEW a \in 1 .. Len(s) + 1
        PROVE  a \in V[k][m + 1] <=> a = Len(s) + 1 \/ i \in V[k + 1][2]
    BY <2>2, <1>13
  <2>3. \A a \in 1 .. Len(s) + 1 : a \in V[K][m + 1] <=> a = Len(s) + 1
    BY <1>14
  <2> QED
    BY <2>1, <2>2, <2>3, Zenon DEF Goes
<1>16. i \in V[1][1] <=> i + m = Len(s) + 1 /\ \E x \in 1 .. K : Spells(s, i, list[x], 1, m)
  <2>1. CASE i + m <= Len(s)
    <3>1. i + m # Len(s) + 1
      BY <2>1, <1>2
    <3> QED
      BY <2>1, <3>1, <1>2, <1>15, ListTooShort
  <2>2. CASE i + m >= Len(s) + 1
    <3>1. ListEnds(s, i, V, list, K, m)
      BY <2>2, <1>2, <1>15, ListShort
    <3> QED
      BY <3>1, Zenon DEF ListEnds
  <2>3. i + m <= Len(s) \/ i + m >= Len(s) + 1
    BY <1>2
  <2> QED
    BY <2>1, <2>2, <2>3
<1>17. V[1][1] = alt[b + 1]
  <2>1. PICK z : z = b + m + 1
    OBVIOUS
  <2>2. 1 \in 1 .. m + 1 /\ z - m - 1 + 1 = b + 1
    BY <2>1, <1>2
  <2>3. V[1][1] = alt[t[1] - m - 1 + 1] /\ t[1] = z
    BY <2>1, <2>2, <1>4, <1>10, Zenon
  <2> QED
    BY <2>2, <2>3, Zenon
<1> QED
  BY <1>1, <1>7, <1>16, <1>17, Zenon DEF ListFound

ListMatches(s, p, b, list, m, match) ==
    MatchBrace(s, p, b + 1, match) =
        {i \in 1 .. Len(s) :
            i + m = Len(s) + 1 /\ \E x \in 1 .. Len(list) : Spells(s, i, list[x], 1, m)}

LEMMA MatchBraceIs ==
    ASSUME NEW s \in Seq(Nat), NEW p \in Seq(Nat), NEW n \in Nat, n = Len(p) + 1, NEW b \in Nat,
           NEW list, NEW m, NEW t, ListAt(p, b, list, m, t),
           NEW match \in [1 .. n -> Tails(s)], match[n] = {Len(s) + 1}
    PROVE  ListMatches(s, p, b, list, m, match)
<1>1. PICK K, N \in Nat : K = Len(list) /\ K # 0 /\ N = Len(p) /\ m \in Nat /\ m # 0 /\ n = N + 1
  BY DEF ListAt
<1>2. n = N + 1 /\ m \in Nat \ {0} /\ K # 0 /\ K \in Nat
  BY <1>1, Zenon
<1>3. b + m + 1 <= N /\ p[N] = CloseBrace /\ \A x \in b + 1 .. N - 1 : p[x] # CloseBrace
  <2>1. 1 \in 1 .. K
    BY <1>2
  <2>2. t[1] = b + m + 1 /\ t[1] <= N
    BY <2>1, <1>1 DEF ListAt
  <2> QED
    BY <2>2, <1>1 DEF ListAt
<1>4. b + m + 1 <= N
  BY <1>3, Zenon
<1>5. b + 1 \in 1 .. N + 1 /\ N \in b + 1 .. N + 1
  BY <1>4, <1>2
<1>6. Finds(p, N, b + 1, {CloseBrace}, N)
  BY <1>3, <1>5 DEF Finds
<1>7. Find(p, b + 1, {CloseBrace}) = N
  BY <1>1, <1>5, <1>6, FindAt
<1>8. N <= Len(p) /\ N + 1 = n
  BY <1>1
<1>9. MatchBrace(s, p, b + 1, match) = {i \in 1 .. Len(s) : MatchList(s, i, p, b + 1, n, match)}
  BY <1>7, <1>8 DEF MatchBrace
<1>10. ASSUME NEW i \in 1 .. Len(s)
       PROVE  MatchList(s, i, p, b + 1, n, match) <=>
                i + m = Len(s) + 1 /\ \E x \in 1 .. Len(list) : Spells(s, i, list[x], 1, m)
  <2>1. ListFound(s, i, p, b, n, match, list, m)
    BY ListGoes
  <2> QED
    BY <2>1, Zenon DEF ListFound
<1> QED
  BY <1>9, <1>10 DEF ListMatches

BraceBegins(token, s, m) ==
    Begins(token, s, {Len(s) + 1}) =
        {i \in 1 .. Len(s) :
            i + m = Len(s) + 1 /\ \E x \in 1 .. Len(token.list) : Spells(s, i, token.list[x], 1, m)}

LEMMA BeginsBrace ==
    ASSUME NEW s \in Seq(Nat), NEW token, token.is = "brace", IsList(token.list),
           NEW m \in Nat \ {0}, \A k \in 1 .. Len(token.list) : Len(token.list[k]) = m
    PROVE  BraceBegins(token, s, m)
<1>1. PICK L, K \in Nat : L = Len(s) /\ K = Len(token.list) /\ DOMAIN token.list = 1 .. K
  BY DEF IsList
<1>2. \A z : Piece(token, z) <=> \E x \in 1 .. K : z = token.list[x]
  <2>1. token.is # "char" /\ token.is # "any" /\ token.is # "many" /\ token.is # "set"
    OBVIOUS
  <2> QED
    BY <2>1, <1>1 DEF Piece
<1>3. ASSUME NEW x \in 1 .. K PROVE token.list[x] \in Seq(Nat) /\ Len(token.list[x]) = m
  <2>1. token.list[x] \in Seq(Nat \ {ListComma, CloseBrace})
    BY <1>1 DEF IsList
  <2> QED
    BY <2>1, <1>1
<1>4. ASSUME NEW i \in 1 .. L + 1
      PROVE  /\ SubSeq(s, i, L + 1 - 1) \in Seq(Nat) /\ Len(SubSeq(s, i, L + 1 - 1)) = L + 1 - i
             /\ \A d \in 1 .. L + 1 - i : SubSeq(s, i, L + 1 - 1)[d] = s[i + d - 1]
  <2>1. PICK k : k = L + 1
    OBVIOUS
  <2>2. i \in 1 .. Len(s) + 1 /\ k \in 1 .. Len(s) + 1 /\ k >= i
    BY <2>1, <1>1
  <2>3. /\ SubSeq(s, i, k - 1) \in Seq(Nat) /\ Len(SubSeq(s, i, k - 1)) = k - i
        /\ \A d \in 1 .. k - i : SubSeq(s, i, k - 1)[d] = s[i + d - 1]
    BY <2>2, SubIs
  <2>4. SubSeq(s, i, k - 1) = SubSeq(s, i, L + 1 - 1) /\ k - i = L + 1 - i
    BY <2>1
  <2> QED
    BY <2>3, <2>4, Zenon
<1>5. ASSUME NEW i \in 1 .. L + 1, NEW x \in 1 .. K
      PROVE  SubSeq(s, i, L + 1 - 1) = token.list[x] <=>
                i + m = L + 1 /\ Spells(s, i, token.list[x], 1, m)
  <2>1. PICK z \in Seq(Nat) : z = SubSeq(s, i, L + 1 - 1)
    BY <1>4
  <2>2. PICK w \in Seq(Nat) : w = token.list[x]
    BY <1>3
  <2>3. Len(z) = L + 1 - i /\ Len(w) = m /\ \A d \in 1 .. L + 1 - i : z[d] = s[i + d - 1]
    BY <2>1, <2>2, <1>3, <1>4
  <2>4. i + m = L + 1 <=> m = L + 1 - i
    OBVIOUS
  <2>5. ASSUME z = w PROVE i + m = L + 1 /\ Spells(s, i, w, 1, m)
    BY <2>3, <2>4, <2>5 DEF Spells
  <2>6. ASSUME i + m = L + 1, Spells(s, i, w, 1, m) PROVE z = w
    <3>1. Len(z) = m /\ Len(w) = m /\ \A d \in 1 .. m : z[d] = w[d]
      BY <2>3, <2>4, <2>6 DEF Spells
    <3> QED
      BY <3>1
  <2> QED
    BY <2>1, <2>2, <2>5, <2>6
<1>6. Begins(token, s, {L + 1}) =
        {i \in 1 .. L + 1 : \E x \in 1 .. K : SubSeq(s, i, L + 1 - 1) = token.list[x]}
  <2>1. \A i \in 1 .. L + 1 : L + 1 >= i
    OBVIOUS
  <2>2. ASSUME NEW i \in 1 .. L + 1
        PROVE  (\E k \in {L + 1} : k >= i /\ Piece(token, SubSeq(s, i, k - 1)))
                  <=> \E x \in 1 .. K : SubSeq(s, i, L + 1 - 1) = token.list[x]
    <3>1. (\E k \in {L + 1} : k >= i /\ Piece(token, SubSeq(s, i, k - 1)))
             <=> Piece(token, SubSeq(s, i, L + 1 - 1))
      BY <2>1
    <3> QED
      BY <3>1, <1>2, Zenon
  <2> QED
    BY <2>2, <1>1 DEF Begins
<1>7. \A i \in 1 .. L + 1 : i + m = L + 1 => i \in 1 .. L
  OBVIOUS
<1>8. Begins(token, s, {L + 1}) =
        {i \in 1 .. L : i + m = L + 1 /\ \E x \in 1 .. K : Spells(s, i, token.list[x], 1, m)}
  <2>1. ASSUME NEW i \in 1 .. L + 1
        PROVE  (\E x \in 1 .. K : SubSeq(s, i, L + 1 - 1) = token.list[x]) <=>
                  i \in 1 .. L /\ i + m = L + 1 /\ \E x \in 1 .. K : Spells(s, i, token.list[x], 1, m)
    BY <1>5, <1>7, Zenon
  <2>2. 1 .. L \subseteq 1 .. L + 1
    OBVIOUS
  <2> QED
    BY <2>1, <2>2, <1>6
<1>9. Begins(token, s, {Len(s) + 1}) =
        {i \in 1 .. Len(s) :
            i + m = Len(s) + 1 /\ \E x \in 1 .. Len(token.list) : Spells(s, i, token.list[x], 1, m)}
  BY <1>1, <1>8
<1> QED
  BY <1>9, Zenon DEF BraceBegins

-----------------------------------------------------------------------------
(* The pattern, token by token from its end *)

\* All alternatives of a list have m characters.
Even(list, m) == m \in Nat /\ \A k \in 1 .. Len(list) : Len(list[k]) = m
Regular(token) == token \in Token /\ (token.is = "brace" => \E m : Even(token.list, m))

\* How a token begins.
Opens(token, w) ==
    /\ w \in Seq(Nat) /\ Len(w) \in Nat \ {0}
    /\ token.is = "char" => Len(w) = 1 /\ w[1] = token.char
    /\ token.is = "any" => Len(w) = 1 /\ w[1] = Question
    /\ token.is = "many" => Len(w) = 1 /\ w[1] = Star
    /\ token.is = "set" => w[1] = OpenSet
    /\ token.is = "brace" => w[1] = OpenBrace

LEMMA TokenOpens ==
    ASSUME NEW token, Regular(token)
    PROVE  Opens(token, Written(token))
<1>1. CASE token.is = "char" /\ token.char \in Nat \ Special
  <2>1. Written(token) = <<token.char>>
    BY <1>1 DEF Written
  <2>2. PICK w \in Seq(Nat) : w = <<token.char>> /\ Len(w) = 1 /\ w[1] = token.char
    BY <1>1, OneChar
  <2> QED
    BY <1>1, <2>1, <2>2 DEF Opens
<1>2. CASE token.is = "any"
  <2>1. Written(token) = <<Question>>
    BY <1>2 DEF Written
  <2>0. Question \in Nat
    BY DEF Question
  <2>2. PICK w \in Seq(Nat) : w = <<Question>> /\ Len(w) = 1 /\ w[1] = Question
    BY <2>0, OneChar
  <2> QED
    BY <1>2, <2>1, <2>2 DEF Opens
<1>3. CASE token.is = "many"
  <2>1. Written(token) = <<Star>>
    BY <1>3 DEF Written
  <2>0. Star \in Nat
    BY DEF Star
  <2>2. PICK w \in Seq(Nat) : w = <<Star>> /\ Len(w) = 1 /\ w[1] = Star
    BY <2>0, OneChar
  <2> QED
    BY <1>3, <2>1, <2>2 DEF Opens
<1>4. CASE IsSet(token)
  <2>1. PICK R \in Seq(Nat) : R = RangesText(token.ranges)
    BY <1>4, RangesTextIs DEF IsSet
  <2>2. PICK w : w = Written(token)
    OBVIOUS
  <2>3. /\ w \in Seq(Nat) /\ Len(w) = (IF token.negated THEN 2 ELSE 1) + Len(R) + 1 /\ w[1] = OpenSet
    BY <1>4, <2>1, <2>2, WrittenSet
  <2>4. Len(w) \in Nat \ {0}
    <3>1. (IF token.negated THEN 2 ELSE 1) \in Nat /\ Len(R) \in Nat
      OBVIOUS
    <3> QED
      BY <2>3, <3>1
  <2>5. token.is = "set"
    BY <1>4 DEF IsSet
  <2> QED
    BY <2>2, <2>3, <2>4, <2>5 DEF Opens
<1>5. CASE token.is = "brace" /\ IsList(token.list)
  <2>1. PICK m \in Nat : \A k \in 1 .. Len(token.list) : Len(token.list[k]) = m
    BY <1>5 DEF Regular, Even
  <2>2. PICK T \in Seq(Nat) : T = ListText(token.list)
    BY <1>5, <2>1, ListTextIs
  <2>3. PICK w : w = Written(token)
    OBVIOUS
  <2>4. w \in Seq(Nat) /\ Len(w) = Len(T) + 2 /\ w[1] = OpenBrace
    BY <1>5, <2>2, <2>3, WrittenList
  <2>5. Len(w) \in Nat \ {0}
    <3>1. Len(T) \in Nat
      OBVIOUS
    <3> QED
      BY <2>4, <3>1
  <2> QED
    BY <1>5, <2>3, <2>4, <2>5 DEF Opens
<1>6. token \in Token
  BY DEF Regular
<1> QED
  BY <1>1, <1>2, <1>3, <1>4, <1>5, <1>6, TokenIs

\* A token other than a star takes at least one character.
LEMMA TokenTakes ==
    ASSUME NEW s \in Seq(Nat), NEW token, Regular(token), token.is # "many", NEW next \in Tails(s),
           token.is = "brace" => next = {Len(s) + 1}
    PROVE  /\ Begins(token, s, next) \subseteq 1 .. Len(s)
           /\ token.is = "char" => \A i \in Begins(token, s, next) : s[i] = token.char
<1>1. CASE token.is = "char" /\ token.char \in Nat \ Special
  <2>1. Begins(token, s, next) = {i \in 1 .. Len(s) : s[i] = token.char /\ i + 1 \in next}
    BY <1>1, BeginsChar
  <2> QED
    BY <2>1
<1>2. CASE token.is = "any"
  <2>1. Begins(token, s, next) = {i \in 1 .. Len(s) : i + 1 \in next}
    BY <1>2, BeginsAny
  <2> QED
    BY <2>1, <1>2
<1>3. CASE IsSet(token)
  <2>1. Begins(token, s, next) =
              {i \in 1 .. Len(s) : token.negated # Within(token, s[i]) /\ i + 1 \in next}
    BY <1>3, BeginsSet
  <2>2. token.is # "char"
    BY <1>3 DEF IsSet
  <2> QED
    BY <2>1, <2>2
<1>4. CASE token.is = "brace" /\ IsList(token.list)
  <2>1. PICK m \in Nat : \A k \in 1 .. Len(token.list) : Len(token.list[k]) = m
    BY <1>4 DEF Regular, Even
  <2>2. m # 0
    <3>1. /\ token.list[1] \in Seq(Nat \ {ListComma, CloseBrace}) /\ token.list[1] # <<>>
          /\ 1 \in 1 .. Len(token.list)
      BY <1>4 DEF IsList
    <3> QED
      BY <2>1, <3>1
  <2>3. Begins(token, s, {Len(s) + 1}) =
              {i \in 1 .. Len(s) :
                  i + m = Len(s) + 1 /\ \E x \in 1 .. Len(token.list) : Spells(s, i, token.list[x], 1, m)}
    <3>1. m \in Nat \ {0}
      BY <2>1, <2>2
    <3>2. BraceBegins(token, s, m)
      BY <1>4, <2>1, <3>1, BeginsBrace
    <3> QED
      BY <3>2, Zenon DEF BraceBegins
  <2>4. Begins(token, s, next) \subseteq 1 .. Len(s)
    BY <1>4, <2>3
  <2> QED
    BY <1>4, <2>4
<1>5. token \in Token
  BY DEF Regular
<1> QED
  BY <1>1, <1>2, <1>3, <1>4, <1>5, TokenIs

\* The pattern has tokens ts, the t-th of which ends at o[t].
Laid(ts, p, o, T, n) ==
    /\ ts \in Seq(Token) /\ T \in Nat /\ T = Len(ts) /\ p \in Seq(Nat) /\ n \in Nat /\ n = Len(p) + 1
    /\ o[0] = 0 /\ o[T] = Len(p)
    /\ \A t \in 0 .. T : o[t] \in Nat /\ o[t] <= Len(p)
    /\ \A t \in 1 .. T : /\ o[t] = o[t - 1] + Len(Written(ts[t])) /\ WrittenAt(p, o[t - 1], Written(ts[t]))
                         /\ Regular(ts[t]) /\ (ts[t].is = "brace" => t = T)

LEMMA PatternLaid ==
    ASSUME NEW ts \in Seq(Token), Simple(ts)
    PROVE  PatternText(ts) \in Seq(Nat)
           /\ \E o : Laid(ts, PatternText(ts), o, Len(ts), Len(PatternText(ts)) + 1)
<1>1. PICK T \in Nat : T = Len(ts) /\ DOMAIN ts = 1 .. T
  OBVIOUS
<1>2. ASSUME NEW t \in 1 .. T PROVE Regular(ts[t]) /\ (ts[t].is = "brace" => t = T)
  <2>1. ts[t] \in Token
    BY <1>1
  <2>2. ASSUME ts[t].is = "brace" PROVE t = T /\ \E m : Even(ts[t].list, m)
    <3>1. IsList(ts[t].list)
      BY <2>1, <2>2, TokenIs DEF IsSet
    <3>2. PICK list : list = ts[t].list
      OBVIOUS
    <3>3. t = T /\ \A j, k \in DOMAIN list : Len(list[j]) = Len(list[k])
      BY <2>2, <3>2, <1>1 DEF Simple
    <3>4. DOMAIN list = 1 .. Len(list) /\ 1 \in 1 .. Len(list) /\ list[1] \in Seq(Nat \ {ListComma, CloseBrace})
      BY <3>1, <3>2 DEF IsList
    <3>5. Len(list[1]) \in Nat
      BY <3>4
    <3>6. Even(list, Len(list[1]))
      BY <3>3, <3>4, <3>5 DEF Even
    <3> QED
      BY <3>2, <3>3, <3>6
  <2> QED
    BY <2>1, <2>2 DEF Regular
<1>3. PICK W : W = [t \in DOMAIN ts |-> Written(ts[t])]
  OBVIOUS
<1>4. \A t \in 1 .. T : W[t] = Written(ts[t]) /\ Opens(ts[t], Written(ts[t]))
  BY <1>1, <1>2, <1>3, TokenOpens
<1>5. W \in Seq(Seq(Nat)) /\ Len(W) = T
  <2>1. \A t \in 1 .. T : Written(ts[t]) \in Seq(Nat)
    BY <1>4 DEF Opens
  <2>2. W = [t \in 1 .. T |-> Written(ts[t])]
    BY <1>1, <1>3
  <2> QED
    BY <2>1, <2>2
<1>6. PICK p : p = PatternText(ts)
  OBVIOUS
<1>7. p = FlattenSeq(W)
  BY <1>3, <1>6 DEF PatternText
<1>8. p \in Seq(Nat) /\ \E o : Places(p, W, o)
  BY <1>5, <1>7, FlattenSeqPlaces
<1>9. PICK o : Places(p, W, o)
  BY <1>8
<1>10. /\ o \in [0 .. T -> Nat] /\ o[0] = 0 /\ o[T] = Len(p)
       /\ \A t \in 1 .. T : /\ o[t] = o[t - 1] + Len(W[t])
                            /\ \A k \in 1 .. Len(W[t]) : p[o[t - 1] + k] = W[t][k]
  BY <1>5, <1>9 DEF Places
<1>11. \A t \in 0 .. T : o[t] \in Nat /\ o[t] <= Len(p)
  <2>1. \A j \in 0 .. T : \A i \in 0 .. j : o[i] <= o[j]
    BY <1>5, <1>8, <1>9, PlacesCover
  <2>2. T \in 0 .. T /\ \A t \in 0 .. T : t \in 0 .. T
    OBVIOUS
  <2> QED
    BY <2>1, <2>2, <1>10
<1>12. ASSUME NEW t \in 1 .. T
       PROVE  o[t] = o[t - 1] + Len(Written(ts[t])) /\ WrittenAt(p, o[t - 1], Written(ts[t]))
  <2>1. t - 1 \in 0 .. T /\ t \in 0 .. T
    OBVIOUS
  <2>2. PICK w : w = Written(ts[t])
    OBVIOUS
  <2>3. W[t] = w
    BY <2>2, <1>4, Zenon
  <2>4. \A x \in 1 .. T : /\ o[x] = o[x - 1] + Len(W[x])
                          /\ \A k \in 1 .. Len(W[x]) : p[o[x - 1] + k] = W[x][k]
    BY <1>10, Zenon
  <2>5. o[t] = o[t - 1] + Len(w) /\ \A k \in 1 .. Len(w) : p[o[t - 1] + k] = w[k]
    BY <2>3, <2>4
  <2>6. o[t - 1] \in Nat /\ o[t - 1] + Len(w) <= Len(p)
    BY <2>1, <2>5, <1>11
  <2> QED
    BY <2>2, <2>5, <2>6, Zenon DEF WrittenAt
<1>13. PICK n : n = Len(p) + 1
  OBVIOUS
<1>14. n \in Nat /\ Len(p) \in Nat
  BY <1>8, <1>13
<1>15. Laid(ts, p, o, T, n)
  BY <1>1, <1>2, <1>8, <1>10, <1>11, <1>12, <1>13, <1>14 DEF Laid
<1> QED
  BY <1>1, <1>6, <1>8, <1>13, <1>15, Zenon

\* The code's places for the pattern p, and those for the tokens ts.
Solved(match, fits, ts, p, T, n, s) ==
    /\ s \in Seq(Nat)
    /\ match \in [1 .. n -> Tails(s)] /\ Follows(match, s, p, n)
    /\ fits \in [1 .. T + 1 -> Tails(s)] /\ Cuts(fits, ts, s)

\* Token t stands behind place e of the pattern, and what follows it behind place f.
Stands(ts, p, t, e, f, n, match, s) ==
    /\ e \in Nat /\ f \in Nat /\ e + 1 \in 1 .. n /\ f + 1 \in 1 .. n /\ e + 1 <= Len(p)
    /\ f = e + Len(Written(ts[t])) /\ WrittenAt(p, e, Written(ts[t]))
    /\ Regular(ts[t]) /\ Opens(ts[t], Written(ts[t])) /\ p[e + 1] = Written(ts[t])[1]
    /\ MatchCases(match[e + 1], s, p, e + 1, match)

LEMMA TokenStands ==
    ASSUME NEW ts, NEW p, NEW o, NEW T, NEW n, Laid(ts, p, o, T, n),
           NEW match, NEW fits, NEW s, Solved(match, fits, ts, p, T, n, s), NEW t \in 1 .. T
    PROVE  Stands(ts, p, t, o[t - 1], o[t], n, match, s)
<1>1. /\ T \in Nat /\ p \in Seq(Nat) /\ n \in Nat /\ n = Len(p) + 1
      /\ \A x \in 0 .. T : o[x] \in Nat /\ o[x] <= Len(p)
      /\ o[t] = o[t - 1] + Len(Written(ts[t])) /\ WrittenAt(p, o[t - 1], Written(ts[t]))
      /\ Regular(ts[t])
  BY DEF Laid
<1>2. t - 1 \in 0 .. T /\ t \in 0 .. T
  BY <1>1
<1>3. PICK e, f, N \in Nat : e = o[t - 1] /\ f = o[t] /\ N = Len(p) /\ e <= N /\ f <= N /\ n = N + 1
  BY <1>1, <1>2
<1>4. PICK w : w = Written(ts[t])
  OBVIOUS
<1>5. Opens(ts[t], w)
  BY <1>1, <1>4, TokenOpens
<1>6. PICK l \in Nat : l = Len(w) /\ l # 0
  BY <1>5 DEF Opens
<1>7. f = e + l /\ \A x \in 1 .. l : p[e + x] = w[x]
  BY <1>1, <1>3, <1>4, <1>6 DEF WrittenAt
<1>8. f = e + l /\ f <= N /\ n = N + 1 /\ l # 0
  BY <1>3, <1>6, <1>7, Zenon
<1>9. e + 1 \in 1 .. n /\ f + 1 \in 1 .. n /\ e + 1 <= N /\ 1 \in 1 .. l
  BY <1>8
<1>10. p[e + 1] = w[1]
  BY <1>7, <1>9
<1>11. match[e + 1] = MatchFrom(s, p, e + 1, match)
  BY <1>9 DEF Solved, Follows
<1>12. MatchCases(match[e + 1], s, p, e + 1, match)
  <2>1. e + 1 \in Nat /\ Len(p) \in Nat
    BY <1>1
  <2> QED
    BY <2>1, <1>11, MatchFromIs
<1> QED
  BY <1>1, <1>3, <1>4, <1>5, <1>6, <1>7, <1>9, <1>10, <1>12 DEF Stands

\* Behind the last token both agree.
Ended(match, fits, o, T, n, s) == match[n] = {Len(s) + 1} /\ o[T] + 1 = n /\ fits[T + 1] = {Len(s) + 1}

\* They agree at token t.
Agreed(match, fits, o, t) == match[o[t - 1] + 1] = fits[t]

LEMMA EndStands ==
    ASSUME NEW ts, NEW p, NEW o, NEW T, NEW n, Laid(ts, p, o, T, n),
           NEW match, NEW fits, NEW s, Solved(match, fits, ts, p, T, n, s)
    PROVE  Ended(match, fits, o, T, n, s) /\ n > Len(p)
<1>1. T \in Nat /\ T = Len(ts) /\ p \in Seq(Nat) /\ n \in Nat /\ n = Len(p) + 1 /\ o[T] = Len(p)
  BY DEF Laid
<1>2. Len(p) \in Nat /\ n \in 1 .. n /\ n > Len(p) /\ o[T] + 1 = n
  BY <1>1
<1>3. match[n] = MatchFrom(s, p, n, match)
  BY <1>2 DEF Solved, Follows
<1>4. MatchCases(match[n], s, p, n, match)
  BY <1>1, <1>2, <1>3, MatchFromIs
<1>5. match[n] = {Len(s) + 1}
  BY <1>2, <1>4 DEF MatchCases
<1>6. fits[T + 1] = {Len(s) + 1}
  BY <1>1 DEF Solved, Cuts
<1> QED
  BY <1>2, <1>5, <1>6 DEF Ended

Codes == /\ Star \notin {Question, OpenSet, OpenBrace} /\ Question \notin {OpenSet, OpenBrace}
         /\ OpenSet # OpenBrace /\ {Star, Question, OpenSet, OpenBrace} = Special

LEMMA CodesDiffer == Codes
BY DEF Codes, Special, Star, Question, OpenSet, OpenBrace

\* A token other than a star, if what follows it is read right.
LEMMA PlainStep ==
    ASSUME NEW ts, NEW p, NEW o, NEW T, NEW n, Laid(ts, p, o, T, n),
           NEW match, NEW fits, NEW s, Solved(match, fits, ts, p, T, n, s), NEW t \in 1 .. T,
           match[o[t] + 1] = fits[t + 1], ts[t].is # "many"
    PROVE  Agreed(match, fits, o, t)
<1> USE DEF Agreed
<1>1. PICK e, f : e = o[t - 1] /\ f = o[t] /\ Stands(ts, p, t, e, f, n, match, s)
  BY TokenStands
<1>2. PICK token : token = ts[t]
  OBVIOUS
<1>3. PICK w : w = Written(token)
  OBVIOUS
<1>4. /\ e \in Nat /\ f \in Nat /\ e + 1 <= Len(p) /\ f = e + Len(w) /\ WrittenAt(p, e, w)
      /\ Regular(token) /\ Opens(token, w) /\ p[e + 1] = w[1]
      /\ MatchCases(match[e + 1], s, p, e + 1, match)
  BY <1>1, <1>2, <1>3, Zenon DEF Stands
<1>5. /\ s \in Seq(Nat) /\ p \in Seq(Nat) /\ n \in Nat /\ n = Len(p) + 1 /\ T \in Nat /\ T = Len(ts)
      /\ match \in [1 .. n -> Tails(s)] /\ fits \in [1 .. T + 1 -> Tails(s)]
  BY DEF Laid, Solved
<1>6. PICK next \in Tails(s) : next = fits[t + 1] /\ next = match[f + 1] /\ fits[t] = Begins(token, s, next)
  <2>1. t + 1 \in 1 .. T + 1 /\ t \in 1 .. Len(ts)
    BY <1>5
  <2>2. fits[t] = Begins(ts[t], s, fits[t + 1])
    BY <2>1 DEF Solved, Cuts
  <2> QED
    BY <2>1, <2>2, <1>1, <1>2, <1>5
<1>7. ASSUME Len(w) = 1 PROVE e + 1 + 1 = f + 1
  BY <1>4, <1>7
<1>8. CASE token.is = "char" /\ token.char \in Nat \ Special
  <2>1. Len(w) = 1 /\ p[e + 1] = token.char
    BY <1>4, <1>8 DEF Opens
  <2>2. match[e + 1] = AtPlain(s, p, e + 1, match)
    BY <2>1, <1>4, <1>8 DEF MatchCases
  <2>3. match[e + 1] = {i \in 1 .. Len(s) : s[i] = token.char /\ i + 1 \in next}
    BY <2>1, <2>2, <1>6, <1>7 DEF AtPlain
  <2>4. Begins(token, s, next) = {i \in 1 .. Len(s) : s[i] = token.char /\ i + 1 \in next}
    BY <1>5, <1>8, BeginsChar
  <2> QED
    BY <2>3, <2>4, <1>1, <1>6, Zenon
<1>9. CASE token.is = "any"
  <2>1. Len(w) = 1 /\ p[e + 1] = Question
    BY <1>4, <1>9 DEF Opens
  <2>2. match[e + 1] = AtFree(s, e + 1, match)
    BY <2>1, <1>4 DEF MatchCases
  <2>3. match[e + 1] = {i \in 1 .. Len(s) : i + 1 \in next}
    BY <2>1, <2>2, <1>6, <1>7 DEF AtFree
  <2>4. Begins(token, s, next) = {i \in 1 .. Len(s) : i + 1 \in next}
    BY <1>5, <1>9, BeginsAny
  <2> QED
    BY <2>3, <2>4, <1>1, <1>6, Zenon
<1>10. CASE IsSet(token)
  <2>1. p[e + 1] = OpenSet
    BY <1>4, <1>10 DEF Opens, IsSet
  <2>2. match[e + 1] = MatchSet(s, p, e + 1 + 1, match)
    BY <2>1, <1>4 DEF MatchCases
  <2>3. e + 1 + 1 = e + 2
    BY <1>4
  <2>4. MatchSet(s, p, e + 2, match) =
              {i \in 1 .. Len(s) : token.negated # Within(token, s[i]) /\ i + 1 \in match[f + 1]}
    <3>1. s \in Seq(Nat) /\ p \in Seq(Nat) /\ e \in Nat /\ WrittenAt(p, e, Written(token))
      BY <1>3, <1>4, <1>5, Zenon
    <3>2. MatchSet(s, p, e + 2, match) =
              {i \in 1 .. Len(s) : token.negated # Within(token, s[i])
                                   /\ i + 1 \in match[e + Len(Written(token)) + 1]}
      <4>1. SetMatches(s, token, p, e, match)
        BY <3>1, <1>10, MatchSetIs
      <4> QED
        BY <4>1, Zenon DEF SetMatches
    <3>3. f = e + Len(Written(token))
      BY <1>3, <1>4, Zenon
    <3> QED
      BY <3>2, <3>3, Zenon
  <2>5. Begins(token, s, next) =
              {i \in 1 .. Len(s) : token.negated # Within(token, s[i]) /\ i + 1 \in next}
    BY <1>5, <1>10, BeginsSet
  <2> QED
    BY <2>2, <2>3, <2>4, <2>5, <1>1, <1>6
<1>11. CASE token.is = "brace" /\ IsList(token.list)
  <2>1. p[e + 1] = OpenBrace
    BY <1>4, <1>11 DEF Opens
  <2>2. match[e + 1] = MatchBrace(s, p, e + 1 + 1, match)
    BY <2>1, <1>4 DEF MatchCases
  <2>3. t = T
    BY <1>2, <1>11 DEF Laid
  <2>4. match[n] = {Len(s) + 1} /\ next = {Len(s) + 1} /\ f + 1 = n
    BY <2>3, <1>1, <1>6, EndStands DEF Ended
  <2>5. f = Len(p)
    BY <2>3, <1>1 DEF Laid
  <2>6. PICK m \in Nat : \A k \in 1 .. Len(token.list) : Len(token.list[k]) = m
    BY <1>4, <1>11 DEF Regular, Even
  <2>7. PICK list : list = token.list
    OBVIOUS
  <2>8. PICK b \in Nat : b = e + 1
    BY <1>4
  <2>9. PICK y : ListAt(p, b, list, m, y)
    <3>1. e + Len(Written(token)) = Len(p) /\ WrittenAt(p, e, Written(token)) /\ token.is = "brace" /\ IsList(list)
      BY <2>5, <2>7, <1>3, <1>4, <1>11, Zenon
    <3>2. p \in Seq(Nat) /\ e \in Nat /\ \A k \in 1 .. Len(list) : Len(list[k]) = m
      BY <2>6, <2>7, <1>4, <1>5, Zenon
    <3>3. p[e + 1] = OpenBrace /\ \E y : ListAt(p, e + 1, list, m, y)
      <4>1. ListIn(p, e, list, m)
        BY <3>1, <3>2, <2>7, ListPlaced
      <4> QED
        BY <4>1, Zenon DEF ListIn
    <3> QED
      BY <3>3, <2>8, Zenon
  <2>10. MatchBrace(s, p, b + 1, match) =
              {i \in 1 .. Len(s) :
                  i + m = Len(s) + 1 /\ \E x \in 1 .. Len(list) : Spells(s, i, list[x], 1, m)}
    <3>1. /\ s \in Seq(Nat) /\ p \in Seq(Nat) /\ n \in Nat /\ n = Len(p) + 1
          /\ match \in [1 .. n -> Tails(s)] /\ match[n] = {Len(s) + 1}
      BY <2>4, <1>5, Zenon
    <3>2. ListMatches(s, p, b, list, m, match)
      BY <3>1, <2>9, MatchBraceIs
    <3> QED
      BY <3>2, Zenon DEF ListMatches
  <2>11. m \in Nat \ {0}
    BY <2>9 DEF ListAt
  <2>12. Begins(token, s, {Len(s) + 1}) =
              {i \in 1 .. Len(s) :
                  i + m = Len(s) + 1 /\ \E x \in 1 .. Len(token.list) : Spells(s, i, token.list[x], 1, m)}
    <3>1. BraceBegins(token, s, m)
      BY <2>6, <2>11, <1>5, <1>11, BeginsBrace
    <3> QED
      BY <3>1, Zenon DEF BraceBegins
  <2> QED
    BY <2>2, <2>4, <2>7, <2>8, <2>10, <2>12, <1>1, <1>6, Zenon
<1>12. token \in Token /\ token.is # "many"
  BY <1>2, <1>4 DEF Regular
<1> QED
  BY <1>8, <1>9, <1>10, <1>11, <1>12, TokenIs, Zenon

\* What a star skips.
LEMMA StarSkips ==
    ASSUME NEW p \in Seq(Nat), NEW j \in 1 .. Len(p) + 1
    PROVE  /\ j > Len(p) => SkipStars(p, j) = j
           /\ j <= Len(p) /\ p[j] # Star => SkipStars(p, j) = j
           /\ j <= Len(p) /\ p[j] = Star => SkipStars(p, j) = SkipStars(p, j + 1)
<1>1. PICK N \in Nat : N = Len(p)
  OBVIOUS
<1>2. j \in 1 .. N + 1
  BY <1>1
<1>3. ASSUME j > N \/ p[j] # Star PROVE SkipStars(p, j) = j
  <2>1. Skips(p, N, j, j)
    <3>1. j \in j .. N + 1 /\ j .. j - 1 = {} /\ ~ (j <= N /\ j > N)
      BY <1>2
    <3> QED
      BY <3>1, <1>3 DEF Skips
  <2> QED
    BY <2>1, <1>1, <1>2, SkipAt
<1>4. ASSUME j <= N, p[j] = Star PROVE SkipStars(p, j) = SkipStars(p, j + 1)
  <2>1. j + 1 \in 1 .. N + 1
    BY <1>2, <1>4
  <2>2. PICK k : k = SkipStars(p, j + 1)
    OBVIOUS
  <2>3. Skips(p, N, j + 1, k)
    BY <2>1, <2>2, <1>1, SkipIs
  <2>4. Skips(p, N, j, k)
    <3>1. k \in j + 1 .. N + 1 /\ (k <= N => p[k] # Star) /\ \A x \in j + 1 .. k - 1 : p[x] = Star
      BY <2>3 DEF Skips
    <3>2. k \in j .. N + 1 /\ \A x \in j .. k - 1 : x = j \/ x \in j + 1 .. k - 1
      BY <3>1, <1>2
    <3> QED
      BY <3>1, <3>2, <1>4 DEF Skips
  <2> QED
    BY <2>2, <2>4, <1>1, <1>2, SkipAt
<1> QED
  BY <1>1, <1>3, <1>4

\* A star, if what follows it is read right, and what follows that one.
LEMMA StarStep ==
    ASSUME NEW ts, NEW p, NEW o, NEW T, NEW n, Laid(ts, p, o, T, n),
           NEW match, NEW fits, NEW s, Solved(match, fits, ts, p, T, n, s), NEW t \in 1 .. T,
           match[o[t] + 1] = fits[t + 1], ts[t].is = "many"
    PROVE  Agreed(match, fits, o, t)
<1> USE DEF Agreed
<1>1. PICK e, f : e = o[t - 1] /\ f = o[t] /\ Stands(ts, p, t, e, f, n, match, s)
  BY TokenStands
<1>2. PICK w : w = Written(ts[t])
  OBVIOUS
<1>3. /\ e \in Nat /\ f \in Nat /\ f + 1 \in 1 .. n /\ e + 1 <= Len(p) /\ f = e + Len(w)
      /\ Opens(ts[t], w) /\ p[e + 1] = w[1] /\ MatchCases(match[e + 1], s, p, e + 1, match)
  BY <1>1, <1>2, Zenon DEF Stands
<1>4. /\ s \in Seq(Nat) /\ p \in Seq(Nat) /\ n \in Nat /\ n = Len(p) + 1 /\ T \in Nat /\ T = Len(ts)
      /\ match \in [1 .. n -> Tails(s)] /\ fits \in [1 .. T + 1 -> Tails(s)] /\ ts \in Seq(Token)
  BY DEF Laid, Solved
<1>5. PICK next \in Tails(s) : next = fits[t + 1] /\ next = match[f + 1] /\ fits[t] = Begins(ts[t], s, next)
  <2>1. t + 1 \in 1 .. T + 1 /\ t \in 1 .. Len(ts)
    BY <1>4
  <2>2. fits[t] = Begins(ts[t], s, fits[t + 1])
    BY <2>1 DEF Solved, Cuts
  <2> QED
    BY <2>1, <2>2, <1>1, <1>4
<1>6. fits[t] = {i \in 1 .. Len(s) + 1 : \E k \in next : k >= i}
  BY <1>4, <1>5, BeginsMany
<1>7. Len(w) = 1 /\ p[e + 1] = Star
  BY <1>3 DEF Opens
<1>8. PICK j \in Nat : j = f + 1 /\ e + 1 + 1 = j /\ j \in 1 .. Len(p) + 1 /\ j <= n
  BY <1>3, <1>4, <1>7
<1>9. match[e + 1] = MatchStar(s, p, j, match)
  BY <1>3, <1>7, <1>8 DEF MatchCases
<1>10. CASE t = T
  <2>1. j = n /\ n > Len(p) /\ next = {Len(s) + 1}
    BY <1>1, <1>5, <1>8, <1>10, EndStands DEF Ended
  <2>2. SkipStars(p, j) > Len(p)
    BY <2>1, <1>4, <1>8, StarSkips
  <2>3. MatchStar(s, p, j, match) = 1 .. Len(s) + 1
    BY <2>2 DEF MatchStar
  <2>4. \A i \in 1 .. Len(s) + 1 : \E k \in {Len(s) + 1} : k >= i
    BY <1>4
  <2>5. fits[t] = 1 .. Len(s) + 1
    BY <2>1, <2>4, <1>6
  <2> QED
    BY <2>3, <2>5, <1>1, <1>9
<1>11. CASE t # T
  <2>1. t + 1 \in 1 .. T /\ t + 1 - 1 = t /\ t + 1 + 1 \in 1 .. T + 1
    BY <1>4, <1>11
  <2>2. PICK g : g = o[t + 1] /\ Stands(ts, p, t + 1, f, g, n, match, s)
    <3>1. Stands(ts, p, t + 1, o[t + 1 - 1], o[t + 1], n, match, s)
      BY <2>1, TokenStands
    <3> QED
      BY <3>1, <2>1, <1>1
  <2>3. PICK token, v : token = ts[t + 1] /\ v = Written(token)
    OBVIOUS
  <2>4. /\ f + 1 <= Len(p) /\ Regular(token) /\ Opens(token, v) /\ p[f + 1] = v[1]
        /\ MatchCases(match[f + 1], s, p, f + 1, match)
    BY <2>2, <2>3, Zenon DEF Stands
  <2>5. PICK after \in Tails(s) :
           after = fits[t + 1 + 1] /\ next = Begins(token, s, after)
           /\ (token.is = "brace" => after = {Len(s) + 1})
    <3>1. fits[t + 1] = Begins(ts[t + 1], s, fits[t + 1 + 1])
      BY <2>1, <1>4 DEF Solved, Cuts
    <3>2. token.is = "brace" => t + 1 = T
      BY <2>1, <2>3 DEF Laid
    <3>3. fits[T + 1] = {Len(s) + 1}
      BY EndStands DEF Ended
    <3>4. fits[t + 1 + 1] \in Tails(s)
      BY <2>1, <1>4
    <3> QED
      BY <3>1, <3>2, <3>3, <3>4, <2>3, <1>5
  <2>6. p[j] = v[1] /\ j <= Len(p) /\ MatchCases(match[j], s, p, j, match) /\ next = match[j]
    BY <2>4, <1>5, <1>8
  <2>7. CASE token.is = "many"
    <3>1. p[j] = Star
      BY <2>4, <2>6, <2>7 DEF Opens
    <3>2. SkipStars(p, j) = SkipStars(p, j + 1)
      BY <3>1, <2>6, <1>4, <1>8, StarSkips
    <3>3. MatchStar(s, p, j, match) = MatchStar(s, p, j + 1, match)
      BY <3>2 DEF MatchStar
    <3>4. match[j] = MatchStar(s, p, j + 1, match)
      BY <3>1, <2>6 DEF MatchCases
    <3>5. match[e + 1] = next
      BY <3>3, <3>4, <2>6, <1>9
    <3>6. next = {i \in 1 .. Len(s) + 1 : \E k \in after : k >= i}
      BY <2>5, <2>7, <1>4, BeginsMany
    <3>7. Len(s) \in Nat /\ \A k \in after : k \in Nat
      BY <1>4 DEF Tails
    <3>8. fits[t] = next
      <4>1. ASSUME NEW i \in 1 .. Len(s) + 1, NEW k \in next, k >= i PROVE i \in next
        <5>1. PICK x \in after : x >= k
          BY <3>6
        <5>2. k \in Nat /\ i \in Nat /\ x \in Nat
          BY <3>6, <3>7
        <5>3. x >= i
          BY <5>1, <5>2, <4>1
        <5> QED
          BY <5>3, <3>6
      <4>2. \A i \in next : i \in 1 .. Len(s) + 1 /\ i >= i
        BY <3>6, <3>7
      <4> QED
        BY <4>1, <4>2, <1>6
    <3> QED
      BY <3>5, <3>8, <1>1
  <2>8. CASE token.is # "many"
    <3>1. /\ next \subseteq 1 .. Len(s)
          /\ token.is = "char" => \A i \in next : s[i] = token.char
      BY <2>4, <2>5, <2>8, <1>4, TokenTakes
    <3>2. \/ token.is = "char" /\ p[j] = token.char /\ p[j] \notin Special
          \/ token.is # "char" /\ p[j] \in {Question, OpenSet, OpenBrace}
      <4>1. token \in Token
        BY <2>4 DEF Regular
      <4> QED
        BY <4>1, <2>4, <2>6, <2>8, TokenIs DEF Opens, IsSet
    <3>3. p[j] # Star
      BY <3>2, CodesDiffer DEF Codes
    <3>4. SkipStars(p, j) = j
      BY <3>3, <2>6, <1>4, <1>8, StarSkips
    <3>5. ~ j > Len(p) /\ Len(s) \in Nat
      BY <2>6, <1>4, <1>8
    <3>6. MatchStar(s, p, j, match) =
            {i \in 1 .. Len(s) + 1 :
                \E m \in i .. Len(s) : /\ p[j] \in {Question, OpenSet, OpenBrace} \/ p[j] \in {s[l] : l \in i .. m}
                                       /\ m \in next}
      BY <3>4, <3>5, <2>6 DEF MatchStar
    <3>7. ASSUME NEW i \in 1 .. Len(s) + 1, NEW m \in next, m >= i
          PROVE  m \in i .. Len(s)
                 /\ (p[j] \in {Question, OpenSet, OpenBrace} \/ p[j] \in {s[l] : l \in i .. m})
      <4>1. m \in i .. Len(s) /\ m \in i .. m
        BY <3>1, <3>5, <3>7
      <4>2. CASE token.is = "char"
        <5>1. s[m] = p[j]
          BY <3>1, <3>2, <4>2
        <5> QED
          BY <5>1, <4>1
      <4>3. CASE token.is # "char"
        BY <3>2, <4>1, <4>3
      <4> QED
        BY <4>2, <4>3
    <3>8. ASSUME NEW i \in 1 .. Len(s) + 1, NEW m \in i .. Len(s) PROVE m >= i
      BY <3>5
    <3>9. MatchStar(s, p, j, match) = {i \in 1 .. Len(s) + 1 : \E k \in next : k >= i}
      BY <3>6, <3>7, <3>8
    <3> QED
      BY <3>9, <1>1, <1>6, <1>9
  <2> QED
    BY <2>7, <2>8
<1> QED
  BY <1>10, <1>11

\* A string is matched as the tokens say.
LEMMA PatternRead ==
    ASSUME NEW ts \in Seq(Token), Simple(ts), NEW s \in Seq(Nat)
    PROVE  lo_pattern_match(s, PatternText(ts)) = Matches(ts, s)
<1>1. PICK p, T, n : p = PatternText(ts) /\ T = Len(ts) /\ n = Len(p) + 1
  OBVIOUS
<1>2. PICK o : Laid(ts, p, o, T, n)
  BY <1>1, PatternLaid
<1>3. p \in Seq(Nat) /\ n \in Nat /\ T \in Nat /\ T + 1 \in Nat
  BY <1>2 DEF Laid
<1>4. PICK match \in [1 .. n -> Tails(s)] :
         lo_pattern_match(s, p) = (1 \in match[1]) /\ Follows(match, s, p, n)
  BY <1>1, <1>3, MatchIs
<1>5. PICK fits \in [1 .. T + 1 -> Tails(s)] : Matches(ts, s) = (1 \in fits[1]) /\ Cuts(fits, ts, s)
  BY <1>1, <1>3, MatchesIs
<1>6. Solved(match, fits, ts, p, T, n, s)
  BY <1>4, <1>5 DEF Solved
<1> DEFINE Bad == {t \in 0 .. T : match[o[t] + 1] # fits[t + 1]}
<1>7. T \notin Bad
  <2>1. Ended(match, fits, o, T, n, s)
    BY <1>2, <1>6, EndStands
  <2> QED
    BY <2>1 DEF Ended
<1>8. ASSUME NEW t \in 1 .. T, match[o[t] + 1] = fits[t + 1] PROVE Agreed(match, fits, o, t)
  <2>1. CASE ts[t].is = "many"
    BY <2>1, <1>2, <1>6, <1>8, StarStep
  <2>2. CASE ts[t].is # "many"
    BY <2>2, <1>2, <1>6, <1>8, PlainStep
  <2> QED
    BY <2>1, <2>2
<1>9. Bad = {}
  <2> SUFFICES ASSUME Bad # {} PROVE FALSE
    OBVIOUS
  <2>1. Bad \in SUBSET (0 .. T) /\ 0 \in Nat
    OBVIOUS
  <2>2. PICK t \in Bad : \A x \in t + 1 .. T : x \notin Bad
    <3> HIDE DEF Bad
    <3> QED
      <4>1. HasLast(Bad, 0, T)
        BY <2>1, <1>3, LastBad
      <4> QED
        BY <4>1, Zenon DEF HasLast
  <2>3. t \in 0 .. T /\ t # T
    BY <2>2, <1>7
  <2>4. PICK u \in 1 .. T : u = t + 1 /\ u - 1 = t /\ u \in t + 1 .. T /\ u \in 0 .. T
    BY <2>3, <1>3
  <2>5. match[o[u] + 1] = fits[u + 1]
    BY <2>2, <2>4
  <2>6. match[o[u - 1] + 1] = fits[u]
    BY <2>5, <1>8 DEF Agreed
  <2>7. match[o[t] + 1] = fits[t + 1]
    BY <2>4, <2>6
  <2> QED
    BY <2>2, <2>7
<1>10. match[1] = fits[1]
  <2>1. 0 \in 0 .. T /\ 0 + 1 = 1
    BY <1>3
  <2>2. o[0] = 0
    BY <1>2 DEF Laid
  <2> QED
    BY <2>1, <2>2, <1>9
<1> QED
  BY <1>1, <1>4, <1>5, <1>10

\* A string matches an address pattern exactly if it can be cut into pieces that match
\* the pattern's tokens: for every pattern of literal characters, ?, *, sets and, at its
\* end, a list in braces with alternatives of one length (pattern_match.c:105-263).
THEOREM PatternsAgree == PatternSpec => []PatternAgrees
<1> DEFINE Made == tokens \in Seq(Token) /\ str \in Seq(Alphabet)
<1>1. PatternInit => Made
  BY DEF PatternInit
<1>2. Made /\ [PatternNext]_patternVars => Made'
  <2> SUFFICES ASSUME Made, [PatternNext]_patternVars PROVE Made'
    OBVIOUS
  <2>1. ASSUME NEW t \in Token, tokens' = Append(tokens, t), UNCHANGED str PROVE Made'
    BY <2>1, AppendProperties
  <2>2. ASSUME NEW c \in Alphabet, str' = Append(str, c), UNCHANGED tokens PROVE Made'
    BY <2>2, AppendProperties
  <2>3. CASE UNCHANGED patternVars
    BY <2>3 DEF patternVars
  <2> HIDE DEF Made
  <2> QED
    BY <2>1, <2>2, <2>3 DEF PatternNext
<1>3. Made => PatternAgrees
  <2> SUFFICES ASSUME Made, Simple(tokens)
               PROVE  lo_pattern_match(str, PatternText(tokens)) <=> Matches(tokens, str)
    BY DEF PatternAgrees
  <2>1. \A c \in Alphabet : c \in Nat
    BY PatternAssumption
  <2>2. str \in Seq(Nat)
    BY <2>1
  <2>3. lo_pattern_match(str, PatternText(tokens)) = Matches(tokens, str)
    BY <2>2, PatternRead
  <2> QED
    BY <2>3
<1> QED
  BY <1>1, <1>2, <1>3, PTL DEF PatternSpec
=============================================================================
