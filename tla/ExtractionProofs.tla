--------------------------- MODULE ExtractionProofs ---------------------------
(***************************************************************************)
(* That a download to the file system keeps its promise: Archive           *)
(* implements Extraction, for any requests, offered content, chunks and    *)
(* block sizes, with the faults and without.  And what an upload sends.    *)
(***************************************************************************)
EXTENDS ArchiveProofs

Joined(n, s) == CHOOSE f : f = [i \in 1 .. n |-> IF i = 1 THEN s[i] ELSE f[i - 1] \o s[i]]

\* The recursive function behind FlattenSeq.
LEMMA FlattenIs ==
  ASSUME NEW s, Len(s) # 0
  PROVE FlattenSeq(s) = Joined(Len(s), s)[Len(s)]
BY Zenon DEF FlattenSeq, Joined

\* It is defined, and its equation holds.
LEMMA JoinedDefined ==
  ASSUME NEW S, NEW m \in Nat, NEW s \in [1 .. m -> Seq(S)]
  PROVE  /\ Joined(m, s) \in [1 .. m -> Seq(S)]
         /\ \A i \in 1 .. m : Joined(m, s)[i] = IF i = 1 THEN s[i] ELSE Joined(m, s)[i - 1] \o s[i]
<1> DEFINE I == 1 .. m
           Step(f) == [i \in I |-> IF i = 1 THEN s[i] ELSE f[i - 1] \o s[i]]
           Upto(f, n) == \A i \in I : i <= n => f[i] = Step(f)[i]
           Bad == {n \in Nat : ~\E f \in [I -> Seq(S)] : Upto(f, n)}
<1>0. \A i \in I : s[i] \in Seq(S)
  OBVIOUS
<1>1. \A f \in [I -> Seq(S)] : Step(f) \in [I -> Seq(S)]
  <2> SUFFICES ASSUME NEW f \in [I -> Seq(S)], NEW i \in I, i # 1
               PROVE  f[i - 1] \o s[i] \in Seq(S)
    BY <1>0
  <2>1. f[i - 1] \in Seq(S)
    BY <1>0
  <2> QED
    BY <1>0, <2>1, ConcatProperties
<1>2. \A n \in Bad : n # 0
  <2> DEFINE z == [i \in I |-> <<>>]
  <2>1. z \in [I -> Seq(S)]
    BY EmptySeq
  <2>2. Upto(z, 0)
    BY <1>0
  <2> QED
    BY <2>1, <2>2
<1>3. \A n \in Bad : n - 1 \in Bad
  <2> SUFFICES ASSUME NEW n \in Bad, n - 1 \notin Bad PROVE FALSE
    OBVIOUS
  <2>0. n \in Nat /\ n # 0 /\ n - 1 \in Nat
    BY <1>2
  <2>f. PICK f \in [I -> Seq(S)] : Upto(f, n - 1)
    BY <2>0
  <2> DEFINE g == Step(f)
  <2>1. g \in [I -> Seq(S)]
    BY <1>1
  <2>2. ASSUME NEW i \in I, i <= n PROVE g[i] = Step(g)[i]
    <3>1. CASE i = 1
      BY <3>1
    <3>2. CASE i # 1
      <4>1. i - 1 \in I /\ i - 1 <= n - 1
        BY <2>0, <2>2, <3>2
      <4>2. f[i - 1] = g[i - 1]
        BY <2>f, <4>1
      <4> QED
        BY <3>2, <4>1, <4>2
    <3> QED
      BY <3>1, <3>2
  <2> HIDE DEF g
  <2> QED
    BY <2>1, <2>2
<1>4. Bad = {}
  <2>1. Bad \subseteq Nat
    OBVIOUS
  <2> HIDE DEF Bad
  <2> QED
    BY <1>2, <1>3, <2>1, NoCounterexample
<1>5. PICK f \in [I -> Seq(S)] : Upto(f, m)
  BY <1>0, <1>4
<1>6. f = Step(f)
  <2>0. \A i \in I : i <= m
    OBVIOUS
  <2>1. \A i \in I : f[i] = Step(f)[i]
    <3> HIDE DEF I, Step
    <3> QED
      BY <1>5, <2>0, Zenon
  <2>2. Step(f) \in [I -> Seq(S)]
    BY <1>1
  <2> HIDE DEF Step
  <2> QED
    BY <2>1, <2>2
<1>7. Joined(m, s) = Step(Joined(m, s))
  BY <1>6, Zenon DEF Joined
<1> DEFINE h == Joined(m, s)
<1>8. \A i \in I : h[i] = f[i]
  <2> DEFINE Odd == {n \in Nat : n \in I /\ h[n] # f[n]}
  <2>1. \A n \in Odd : n # 0
    OBVIOUS
  <2>2. \A n \in Odd : n - 1 \in Odd
    <3> SUFFICES ASSUME NEW n \in I, h[n] # f[n] PROVE n - 1 \in I /\ h[n - 1] # f[n - 1]
      OBVIOUS
    <3>1. h[n] = IF n = 1 THEN s[n] ELSE h[n - 1] \o s[n]
      <4> HIDE DEF h
      <4> QED
        BY <1>7 DEF h
    <3>2. f[n] = IF n = 1 THEN s[n] ELSE f[n - 1] \o s[n]
      BY <1>6
    <3> HIDE DEF h
    <3> QED
      BY <3>1, <3>2
  <2>3. Odd = {}
    <3>1. Odd \subseteq Nat
      OBVIOUS
    <3> HIDE DEF Odd
    <3> QED
      BY <2>1, <2>2, <3>1, NoCounterexample
  <2> QED
    BY <1>0, <2>3
<1>9. h = f
  <2>1. h = [i \in I |-> h[i]]
    <3>1. h = Step(h)
      BY <1>7
    <3> HIDE DEF h
    <3> QED
      BY <3>1
  <2> HIDE DEF h
  <2> QED
    BY <1>8, <2>1
<1> QED
  BY <1>6, <1>9

\* One more sequence is joined behind the others.
LEMMA FlattenAppend ==
  ASSUME NEW S, NEW s \in Seq(Seq(S)), NEW x \in Seq(S)
  PROVE  FlattenSeq(s) \in Seq(S) /\ FlattenSeq(Append(s, x)) = FlattenSeq(s) \o x
<1> DEFINE t == Append(s, x)
           n == Len(s)
<1>1. t \in Seq(Seq(S)) /\ Len(t) = n + 1 /\ n \in Nat /\ t[n + 1] = x /\ \A i \in 1 .. n : t[i] = s[i]
  BY AppendProperties, LenProperties
<1>0. s \in [1 .. n -> Seq(S)] /\ t \in [1 .. n + 1 -> Seq(S)]
  BY <1>1, LenProperties
<1>s. \A i \in 1 .. n : Joined(n, s)[i] = IF i = 1 THEN s[i] ELSE Joined(n, s)[i - 1] \o s[i]
  <2> HIDE DEF n
  <2> QED
    BY ONLY <1>0, <1>1, JoinedDefined, ZenonT(60)
<1>t. \A i \in 1 .. n + 1 : Joined(n + 1, t)[i] = IF i = 1 THEN t[i] ELSE Joined(n + 1, t)[i - 1] \o t[i]
  <2> DEFINE m == n + 1
  <2>1. m \in Nat /\ t \in [1 .. m -> Seq(S)]
    BY <1>0, <1>1
  <2> HIDE DEF m, t
  <2>2. \A i \in 1 .. m : Joined(m, t)[i] = IF i = 1 THEN t[i] ELSE Joined(m, t)[i - 1] \o t[i]
    BY <2>1, JoinedDefined
  <2> QED
    BY <2>2 DEF m
<1> HIDE DEF n, t
<1>2. FlattenSeq(t) = Joined(n + 1, t)[n + 1]
  BY <1>1, FlattenIs
<1>3. CASE n = 0
  <2>1. s = <<>>
    BY <1>3, EmptySeq DEF n
  <2>2. FlattenSeq(s) = <<>>
    BY <2>1, <1>3, Zenon DEF FlattenSeq, n
  <2>3. Joined(n + 1, t)[n + 1] = t[n + 1]
    BY <1>1, <1>3, <1>t
  <2> QED
    BY <1>1, <1>2, <2>2, <2>3, ConcatEmptySeq, EmptySeq DEF t
<1>4. CASE n # 0
  <2>1. FlattenSeq(s) = Joined(n, s)[n]
    BY <1>4, FlattenIs DEF n
  <2>2. Joined(n, s) \in [1 .. n -> Seq(S)]
    BY <1>0, <1>1, JoinedDefined
  <2>3. \A i \in 1 .. n : Joined(n + 1, t)[i] = Joined(n, s)[i]
    <3> DEFINE Odd == {k \in Nat : k \in 1 .. n /\ Joined(n + 1, t)[k] # Joined(n, s)[k]}
    <3>1. \A k \in Odd : k # 0
      OBVIOUS
    <3>2. \A k \in Odd : k - 1 \in Odd
      <4> SUFFICES ASSUME NEW k \in 1 .. n, Joined(n + 1, t)[k] # Joined(n, s)[k]
                   PROVE  k - 1 \in 1 .. n /\ Joined(n + 1, t)[k - 1] # Joined(n, s)[k - 1]
        OBVIOUS
      <4>1. Joined(n + 1, t)[k] = IF k = 1 THEN t[k] ELSE Joined(n + 1, t)[k - 1] \o t[k]
        BY <1>1, <1>t, SMTT(40)
      <4>2. Joined(n, s)[k] = IF k = 1 THEN s[k] ELSE Joined(n, s)[k - 1] \o s[k]
        BY <1>1, <1>s
      <4> QED
        BY <1>1, <4>1, <4>2
    <3>3. Odd = {}
      <4>1. Odd \subseteq Nat
        OBVIOUS
      <4> HIDE DEF Odd
      <4> QED
        BY <3>1, <3>2, <4>1, NoCounterexample
    <3>4. \A k \in 1 .. n : k \in Nat
      BY <1>1
    <3> QED
      BY <3>3, <3>4
  <2>4. Joined(n + 1, t)[n + 1] = Joined(n + 1, t)[n] \o x
    <3>1. Joined(n + 1, t)[n + 1] = IF n + 1 = 1 THEN t[n + 1] ELSE Joined(n + 1, t)[n + 1 - 1] \o t[n + 1]
      BY <1>1, <1>s, <1>t
    <3>2. n + 1 # 1 /\ n + 1 - 1 = n
      BY <1>1, <1>4
    <3> QED
      BY <1>1, <3>1, <3>2
  <2>5. n \in 1 .. n
    BY <1>1, <1>4
  <2>6. Joined(n + 1, t)[n] = Joined(n, s)[n] /\ Joined(n, s)[n] \in Seq(S)
    BY <2>2, <2>3, <2>5
  <2> QED
    BY <1>2, <2>1, <2>4, <2>6 DEF t
<1> QED
  BY <1>3, <1>4

\* A file in the archive as far as it is packed or read: w bytes of its data, z of its padding.
Partial(i, w, z) == HeaderOf(i) \o DataOf(i, w) \o Zeros(z)
Piece(l, i) == Partial(i, l[i].size, Padding(l[i].size))
\* An archive without its trailer, its first entries, and the place behind those.
Body(l)     == FlattenSeq([i \in DOMAIN l |-> Piece(l, i)])
Upto(l, i)  == SubSeq(l, 1, i)
Start(l, i) == Len(Body(Upto(l, i)))

\* What the parts of an entry hold.
LEMMA ZerosIs == \A n \in Nat : Zeros(n) \in Seq(Cell) /\ Len(Zeros(n)) = n /\ \A k \in 1 .. n : Zeros(n)[k] = Zero
BY CellSeqs DEF Zeros

LEMMA HeaderIsSeq ==
  ASSUME NEW i \in Nat
  PROVE  /\ HeaderOf(i) \in Seq(Cell) /\ Len(HeaderOf(i)) = Block /\ Block \in Nat /\ Block > 1
         /\ \A k \in 1 .. Block : HeaderOf(i)[k] = <<"header", i, k>>
BY CellSeqs, TransferAssumption DEF HeaderOf, TransferAssumption

LEMMA PartialIs ==
  ASSUME NEW i \in Nat, NEW w \in Nat, NEW z \in Nat
  PROVE  /\ Partial(i, w, z) \in Seq(Cell) /\ Len(Partial(i, w, z)) = Block + w + z
         /\ \A k \in 1 .. Block : Partial(i, w, z)[k] = <<"header", i, k>>
         /\ \A k \in 1 .. w : Partial(i, w, z)[Block + k] = <<"data", i, k>>
         /\ \A k \in 1 .. z : Partial(i, w, z)[Block + w + k] = Zero
<1> DEFINE h == HeaderOf(i)
           d == DataOf(i, w)
           o == Zeros(z)
           c == h \o d
<1>1. h \in Seq(Cell) /\ Len(h) = Block /\ Block \in Nat /\ \A k \in 1 .. Block : h[k] = <<"header", i, k>>
  BY HeaderIsSeq
<1>2. d \in Seq(Cell) /\ Len(d) = w /\ \A k \in 1 .. w : d[k] = <<"data", i, k>>
  BY DataIsSeq
<1>3. o \in Seq(Cell) /\ Len(o) = z /\ \A k \in 1 .. z : o[k] = Zero
  BY ZerosIs
<1>4. Partial(i, w, z) = c \o o
  BY DEF Partial
<1> HIDE DEF h, d, o
<1>5. /\ c \in Seq(Cell) /\ Len(c) = Block + w
      /\ \A k \in 1 .. Block + w : c[k] = IF k <= Block THEN h[k] ELSE d[k - Block]
  BY <1>1, <1>2, ConcatProperties
<1>6. \A k \in 1 .. w : c[Block + k] = d[k]
  BY <1>1, <1>5
<1>7. \A k \in 1 .. Block : c[k] = h[k]
  BY <1>1, <1>5
<1> HIDE DEF c
<1>8. /\ c \o o \in Seq(Cell) /\ Len(c \o o) = Block + w + z
      /\ \A k \in 1 .. Block + w + z : (c \o o)[k] = IF k <= Block + w THEN c[k] ELSE o[k - (Block + w)]
  <2>1. /\ c \o o \in Seq(Cell) /\ Len(c \o o) = Len(c) + Len(o)
        /\ \A k \in 1 .. Len(c) + Len(o) : (c \o o)[k] = IF k <= Len(c) THEN c[k] ELSE o[k - Len(c)]
    BY <1>3, <1>5, ConcatProperties
  <2>2. Len(c) = Block + w /\ Len(o) = z
    BY <1>3, <1>5
  <2> QED
    BY <2>1, <2>2
<1>9. \A k \in 1 .. Block : (c \o o)[k] = h[k]
  BY <1>1, <1>7, <1>8
<1>10. \A k \in 1 .. w : (c \o o)[Block + k] = d[k]
  BY <1>1, <1>6, <1>8
<1>11. \A k \in 1 .. z : (c \o o)[Block + w + k] = o[k]
  BY <1>1, <1>8, SMTT(40)
<1> QED
  BY <1>1, <1>2, <1>3, <1>4, <1>8, <1>9, <1>10, <1>11, ZenonT(60)

\* The entries of an archive, one after another.
LEMMA PiecesAreSeqs ==
  ASSUME NEW l \in Seq(Entry)
  PROVE  /\ Len(l) \in Nat /\ DOMAIN l = 1 .. Len(l)
         /\ \A i \in 1 .. Len(l) : l[i] \in Entry /\ l[i].size \in Nat /\ Padding(l[i].size) \in Nat
                                   /\ Piece(l, i) \in Seq(Cell)
         /\ [i \in DOMAIN l |-> Piece(l, i)] \in Seq(Seq(Cell))
<1>1. Len(l) \in Nat /\ DOMAIN l = 1 .. Len(l)
  BY LenProperties
<1>2. ASSUME NEW i \in 1 .. Len(l)
      PROVE  l[i] \in Entry /\ l[i].size \in Nat /\ Padding(l[i].size) \in Nat /\ Piece(l, i) \in Seq(Cell)
  <2>0. l[i] \in Entry
    BY ElementOfSeq
  <2>1. l[i].size \in Nat
    BY <2>0 DEF Entry
  <2>2. Padding(l[i].size) \in Nat
    <3> DEFINE w == l[i].size
    <3> HIDE DEF w
    <3>1. Padding(w) \in Nat
      BY <2>1, PaddingIsNat DEF w
    <3> QED
      BY <3>1 DEF w
  <2>3. i \in Nat
    BY <1>1
  <2>4. Piece(l, i) \in Seq(Cell)
    <3> DEFINE w == l[i].size
               z == Padding(l[i].size)
    <3>1. w \in Nat /\ z \in Nat
      BY <2>1, <2>2
    <3> HIDE DEF w, z
    <3>2. Partial(i, w, z) \in Seq(Cell)
      BY <2>3, <3>1, PartialIs
    <3> QED
      BY <3>2 DEF Piece, w, z
  <2> QED
    BY <2>0, <2>1, <2>2, <2>4
<1> DEFINE f == [i \in DOMAIN l |-> Piece(l, i)]
<1>3. DOMAIN f = 1 .. Len(l) /\ f = [i \in 1 .. Len(l) |-> f[i]] /\ \A i \in 1 .. Len(l) : f[i] \in Seq(Cell)
  BY <1>1, <1>2
<1>4. f \in Seq(Seq(Cell))
  <2> HIDE DEF f
  <2> QED
    BY <1>1, <1>3, FillIsSeq
<1> QED
  BY <1>1, <1>2, <1>4

\* One more entry comes behind the others.
LEMMA BodyAppend ==
  ASSUME NEW l \in Seq(Entry), NEW e \in Entry
  PROVE  /\ Body(l) \in Seq(Cell) /\ Append(l, e) \in Seq(Entry) /\ Len(Append(l, e)) = Len(l) + 1
         /\ Body(Append(l, e)) = Body(l) \o Partial(Len(l) + 1, e.size, Padding(e.size))
<1> DEFINE m == Append(l, e)
           n == Len(l)
           f == [i \in DOMAIN l |-> Piece(l, i)]
           g == [i \in DOMAIN m |-> Piece(m, i)]
           x == Partial(n + 1, e.size, Padding(e.size))
<1>1. m \in Seq(Entry) /\ Len(m) = n + 1 /\ n \in Nat /\ m[n + 1] = e /\ \A i \in 1 .. n : m[i] = l[i]
  BY AppendProperties, LenProperties
<1>2. f \in Seq(Seq(Cell)) /\ DOMAIN l = 1 .. n /\ DOMAIN f = 1 .. n /\ Len(f) = n
  BY <1>1, PiecesAreSeqs, LenProperties
<1>3. g \in Seq(Seq(Cell)) /\ DOMAIN m = 1 .. n + 1 /\ Len(g) = n + 1
  <2> HIDE DEF m
  <2>1. g \in Seq(Seq(Cell)) /\ DOMAIN m = 1 .. Len(m) /\ Len(m) \in Nat
    BY <1>1, PiecesAreSeqs
  <2>2. DOMAIN g = 1 .. Len(m) /\ DOMAIN g = 1 .. Len(g) /\ Len(g) \in Nat
    BY <2>1, LenProperties
  <2>3. Len(g) = Len(m)
    <3> HIDE DEF g
    <3> QED
      BY <2>1, <2>2
  <2> QED
    BY <1>1, <2>1, <2>3
<1>4. x \in Seq(Cell)
  <2>1. e.size \in Nat /\ Padding(e.size) \in Nat
    BY PaddingIsNat DEF Entry
  <2>2. n + 1 \in Nat
    BY <1>1
  <2> QED
    BY <2>1, <2>2, PartialIs
<1>5. \A i \in 1 .. n + 1 : g[i] = IF i <= n THEN f[i] ELSE x
  BY <1>1, <1>2, <1>3 DEF Piece
<1>6. FlattenSeq(f) = Body(l) /\ FlattenSeq(g) = Body(m)
  BY Zenon DEF Body
<1> HIDE DEF f, g, x, m, n
<1>7. g = Append(f, x)
  <2>1. Append(f, x) \in Seq(Seq(Cell)) /\ Len(Append(f, x)) = n + 1
        /\ (\A i \in 1 .. n : Append(f, x)[i] = f[i]) /\ Append(f, x)[n + 1] = x
    BY <1>2, <1>4, AppendProperties
  <2>2. \A i \in 1 .. n + 1 : Append(f, x)[i] = g[i]
    BY <1>1, <1>5, <2>1
  <2> DEFINE a == Append(f, x)
  <2>3. Len(a) = Len(g) /\ \A i \in 1 .. Len(a) : a[i] = g[i]
    BY <1>3, <2>1, <2>2
  <2> HIDE DEF a
  <2> QED
    BY <1>3, <2>1, <2>3, SeqEqual DEF a
<1>8. FlattenSeq(f) \in Seq(Cell) /\ FlattenSeq(g) = FlattenSeq(f) \o x
  BY <1>2, <1>4, <1>7, FlattenAppend
<1> QED
  BY <1>1, <1>6, <1>8 DEF m, n, x

LEMMA BodyEmpty == Body(<<>>) = <<>>
<1>1. [i \in DOMAIN <<>> |-> Piece(<<>>, i)] = <<>>
  OBVIOUS
<1>2. Len(<<>>) = 0
  OBVIOUS
<1> QED
  BY <1>1, <1>2, Zenon DEF Body, FlattenSeq

LEMMA BodyTypes == ASSUME NEW l \in Seq(Entry) PROVE Body(l) \in Seq(Cell) /\ Len(Body(l)) \in Nat
<1>1. Body(l) \in Seq(Cell)
  <2>1. FlattenSeq([i \in DOMAIN l |-> Piece(l, i)]) \in Seq(Cell)
    BY PiecesAreSeqs, FlattenAppend, EmptySeq
  <2> QED
    BY <2>1, Zenon DEF Body
<1> QED
  BY <1>1, LenProperties

\* The first entries of a list.
LEMMA UptoIs ==
  ASSUME NEW l \in Seq(Entry)
  PROVE  /\ \A i \in 0 .. Len(l) : Upto(l, i) \in Seq(Entry) /\ Len(Upto(l, i)) = i
         /\ \A i \in 1 .. Len(l) : Upto(l, i) = Append(Upto(l, i - 1), l[i])
         /\ Upto(l, 0) = <<>> /\ Upto(l, Len(l)) = l
<1>1. Len(l) \in Nat /\ \A i \in 1 .. Len(l) : l[i] \in Entry
  BY LenProperties, ElementOfSeq
<1>2. ASSUME NEW i \in 0 .. Len(l)
      PROVE  /\ Upto(l, i) \in Seq(Entry) /\ Len(Upto(l, i)) = i
             /\ \A k \in 1 .. i : Upto(l, i)[k] = l[k]
  <2>1. \A k \in 1 .. i : l[k] \in Entry
    BY <1>1
  <2> QED
    BY <1>1, <2>1, SubSeqProperties DEF Upto
<1>3. ASSUME NEW i \in 1 .. Len(l) PROVE Upto(l, i) = Append(Upto(l, i - 1), l[i])
  <2>1. i - 1 \in 0 .. Len(l) /\ i \in 0 .. Len(l) /\ l[i] \in Entry
    BY <1>1
  <2> DEFINE a == Upto(l, i - 1)
             b == Upto(l, i)
  <2>2. a \in Seq(Entry) /\ Len(a) = i - 1 /\ \A k \in 1 .. i - 1 : a[k] = l[k]
    BY <1>2, <2>1
  <2>3. b \in Seq(Entry) /\ Len(b) = i /\ \A k \in 1 .. i : b[k] = l[k]
    BY <1>2, <2>1
  <2> HIDE DEF a, b
  <2> DEFINE c == Append(a, l[i])
  <2>4. c \in Seq(Entry) /\ Len(c) = i /\ (\A k \in 1 .. i - 1 : c[k] = a[k]) /\ c[i] = l[i]
    BY <2>1, <2>2, AppendProperties
  <2> HIDE DEF c
  <2>5. \A k \in 1 .. i : c[k] = b[k]
    BY <2>1, <2>2, <2>3, <2>4, SMTT(40)
  <2>6. c = b
    BY <2>3, <2>4, <2>5, SeqEqual
  <2> QED
    BY <2>6 DEF a, b, c
<1>4. Upto(l, 0) = <<>>
  <2>1. 0 \in 0 .. Len(l)
    BY <1>1
  <2> QED
    BY <1>2, <2>1, EmptySeq
<1>5. Upto(l, Len(l)) = l
  BY SubSeqFull DEF Upto
<1> QED
  BY <1>2, <1>3, <1>4, <1>5

\* Where the entries of an archive begin.
LEMMA Starts ==
  ASSUME NEW l \in Seq(Entry)
  PROVE  /\ Start(l, 0) = 0 /\ \A i \in 0 .. Len(l) : Start(l, i) \in Nat
         /\ \A i \in 1 .. Len(l) :
              /\ Body(Upto(l, i)) = Body(Upto(l, i - 1)) \o Piece(l, i)
              /\ Start(l, i) = Start(l, i - 1) + Block + l[i].size + Padding(l[i].size)
<1>1. Start(l, 0) = 0
  BY UptoIs, BodyEmpty, EmptySeq DEF Start
<1>2. \A i \in 0 .. Len(l) : Start(l, i) \in Nat
  BY UptoIs, BodyTypes DEF Start
<1>3. ASSUME NEW i \in 1 .. Len(l)
      PROVE  /\ Body(Upto(l, i)) = Body(Upto(l, i - 1)) \o Piece(l, i)
             /\ Start(l, i) = Start(l, i - 1) + Block + l[i].size + Padding(l[i].size)
  <2>0. Len(l) \in Nat /\ i - 1 \in 0 .. Len(l) /\ i \in Nat
    BY LenProperties
  <2>1. /\ Upto(l, i - 1) \in Seq(Entry) /\ Len(Upto(l, i - 1)) = i - 1
        /\ Upto(l, i) = Append(Upto(l, i - 1), l[i])
    BY <2>0, UptoIs
  <2>2. l[i] \in Entry /\ l[i].size \in Nat /\ Padding(l[i].size) \in Nat
    BY PiecesAreSeqs
  <2>3. Body(Upto(l, i)) = Body(Upto(l, i - 1)) \o Partial(i - 1 + 1, l[i].size, Padding(l[i].size))
    BY <2>1, <2>2, BodyAppend
  <2>4. i - 1 + 1 = i
    BY <2>0
  <2>5. Body(Upto(l, i)) = Body(Upto(l, i - 1)) \o Piece(l, i)
    BY <2>3, <2>4 DEF Piece
  <2>6. Piece(l, i) \in Seq(Cell) /\ Len(Piece(l, i)) = Block + l[i].size + Padding(l[i].size)
    <3> DEFINE w == l[i].size
               z == Padding(l[i].size)
    <3>1. w \in Nat /\ z \in Nat
      BY <2>2
    <3> HIDE DEF w, z
    <3>2. Partial(i, w, z) \in Seq(Cell) /\ Len(Partial(i, w, z)) = Block + w + z
      BY <2>0, <3>1, PartialIs
    <3> QED
      BY <3>2 DEF Piece, w, z
  <2>7. Body(Upto(l, i - 1)) \in Seq(Cell) /\ Len(Body(Upto(l, i - 1))) = Start(l, i - 1)
    BY <2>1, BodyTypes DEF Start
  <2> DEFINE a == Body(Upto(l, i - 1))
             b == Piece(l, i)
  <2> HIDE DEF a, b
  <2>8. Len(a \o b) = Len(a) + Len(b)
    BY <2>6, <2>7, ConcatProperties DEF a, b
  <2>9. Start(l, i) = Len(a \o b)
    BY <2>5 DEF Start, a, b
  <2>10. Start(l, i - 1) \in Nat /\ Block \in Nat
    BY <1>2, <2>0, HeaderIsSeq
  <2>11. Start(l, i) = Start(l, i - 1) + (Block + l[i].size + Padding(l[i].size))
    BY <2>6, <2>7, <2>8, <2>9 DEF a, b
  <2> QED
    BY <2>2, <2>5, <2>10, <2>11
<1> QED
  BY <1>1, <1>2, <1>3

\* The bytes of an entry in the archive of all up to it.
LEMMA BodyStep ==
  ASSUME NEW l \in Seq(Entry), NEW i \in 1 .. Len(l)
  PROVE  /\ Start(l, i - 1) <= Start(l, i)
         /\ \A k \in 1 .. Start(l, i - 1) : Body(Upto(l, i))[k] = Body(Upto(l, i - 1))[k]
         /\ \A k \in 1 .. Block + l[i].size + Padding(l[i].size) :
              Body(Upto(l, i))[Start(l, i - 1) + k] = Piece(l, i)[k]
<1> DEFINE a == Body(Upto(l, i - 1))
           b == Piece(l, i)
<1>1. i - 1 \in 0 .. Len(l) /\ i \in 0 .. Len(l) /\ i \in Nat
  BY LenProperties
<1>2. a \in Seq(Cell) /\ Len(a) = Start(l, i - 1) /\ Start(l, i - 1) \in Nat
  BY <1>1, UptoIs, BodyTypes DEF Start
<1>3. b \in Seq(Cell) /\ l[i].size \in Nat /\ Padding(l[i].size) \in Nat
  BY PiecesAreSeqs
<1>4. Body(Upto(l, i)) = a \o b /\ Start(l, i) = Start(l, i - 1) + Block + l[i].size + Padding(l[i].size)
  BY Starts
<1> DEFINE w == l[i].size
           z == Padding(l[i].size)
<1>6. w \in Nat /\ z \in Nat
  BY <1>3
<1>5. Len(b) = Block + w + z
  <2> HIDE DEF w, z
  <2>1. Len(Partial(i, w, z)) = Block + w + z
    BY <1>1, <1>6, PartialIs
  <2> QED
    BY <2>1 DEF b, Piece, w, z
<1>7. Block \in Nat
  BY TransferAssumption DEF TransferAssumption
<1> HIDE DEF a, b, w, z
<1>8. \A k \in 1 .. Len(a) + Len(b) : (a \o b)[k] = IF k <= Len(a) THEN a[k] ELSE b[k - Len(a)]
  BY <1>2, <1>3, ConcatProperties
<1>9. \A k \in 1 .. Len(a) : (a \o b)[k] = a[k]
  BY <1>2, <1>5, <1>6, <1>7, <1>8
<1>10. \A k \in 1 .. Len(b) : (a \o b)[Len(a) + k] = b[k]
  BY <1>2, <1>5, <1>6, <1>7, <1>8
<1>11. Start(l, i - 1) <= Start(l, i)
  BY <1>2, <1>4, <1>6, <1>7 DEF w, z
<1> QED
  BY <1>2, <1>4, <1>5, <1>9, <1>10, <1>11 DEF a, b, w, z

\* The archive of the first entries is the beginning of the archive.
LEMMA BodyPrefix ==
  ASSUME NEW l \in Seq(Entry), NEW i \in 0 .. Len(l)
  PROVE  /\ Start(l, i) <= Len(Body(l))
         /\ \A k \in 1 .. Start(l, i) : Body(l)[k] = Body(Upto(l, i))[k]
<1> DEFINE n == Len(l)
           P(j) == Start(l, j) <= Len(Body(l))
                   /\ \A k \in 1 .. Start(l, j) : Body(l)[k] = Body(Upto(l, j))[k]
           Bad == {d \in Nat : d <= n /\ ~P(n - d)}
<1>1. n \in Nat /\ \A j \in 0 .. n : Start(l, j) \in Nat
  BY LenProperties, Starts
<1>2. P(n)
  <2>1. Upto(l, n) = l
    BY UptoIs
  <2> QED
    BY <1>1, <2>1 DEF Start
<1> HIDE DEF n
<1>3. \A d \in Bad : d # 0
  BY <1>1, <1>2
<1>4. \A d \in Bad : d - 1 \in Bad
  <2> SUFFICES ASSUME NEW d \in Bad, d - 1 \notin Bad PROVE FALSE
    OBVIOUS
  <2>0. d \in Nat /\ d <= n /\ d # 0 /\ d - 1 \in Nat /\ d - 1 <= n /\ ~P(n - d)
    <3> HIDE DEF P
    <3> QED
      BY <1>1, <1>3
  <2> DEFINE j == n - (d - 1)
  <2>1. j \in 1 .. n /\ n - d = j - 1
    BY <1>1, <2>0
  <2>2. P(j)
    <3> HIDE DEF P
    <3> QED
      BY <2>0
  <2> HIDE DEF j
  <2>3. /\ Start(l, j - 1) <= Start(l, j)
        /\ \A k \in 1 .. Start(l, j - 1) : Body(Upto(l, j))[k] = Body(Upto(l, j - 1))[k]
    BY <2>1, BodyStep DEF n
  <2>4. Start(l, j) \in Nat /\ Start(l, j - 1) \in Nat /\ Len(Body(l)) \in Nat
    BY <1>1, <2>1, BodyTypes
  <2>5. P(j - 1)
    BY <2>2, <2>3, <2>4
  <2> HIDE DEF P
  <2> QED
    BY <2>0, <2>1, <2>5
<1>5. Bad = {}
  <2>1. Bad \subseteq Nat
    OBVIOUS
  <2> HIDE DEF Bad
  <2> QED
    BY <1>3, <1>4, <2>1, NoCounterexample
<1>6. n - i \in Nat /\ n - i <= n /\ n - (n - i) = i
  BY <1>1 DEF n
<1>7. P(i)
  BY <1>5, <1>6
<1> QED
  BY <1>7

\* An archive is its entries and two blocks of zeros.
LEMMA ArchivedIs ==
  ASSUME NEW l \in Seq(Entry)
  PROVE  /\ Archived(l) = Body(l) \o Zeros(Trailer) /\ Archived(l) \in Seq(Cell)
         /\ Len(Archived(l)) = Start(l, Len(l)) + Trailer /\ Trailer \in Nat /\ Trailer > 0
         /\ DOMAIN Archived(l) = 1 .. Start(l, Len(l)) + Trailer
         /\ \A k \in 1 .. Start(l, Len(l)) : Archived(l)[k] = Body(l)[k]
         /\ \A k \in 1 .. Trailer : Archived(l)[Start(l, Len(l)) + k] = Zero
<1> DEFINE a == Body(l)
           b == Zeros(Trailer)
<1>1. Archived(l) = a \o b
  BY DEF Archived, Body, Piece, Partial
<1>2. Trailer \in Nat /\ Trailer > 0
  BY TransferAssumption DEF TransferAssumption, Trailer
<1>3. a \in Seq(Cell) /\ Len(a) = Start(l, Len(l)) /\ Len(a) \in Nat
  BY UptoIs, BodyTypes DEF Start
<1>4. b \in Seq(Cell) /\ Len(b) = Trailer /\ \A k \in 1 .. Trailer : b[k] = Zero
  BY <1>2, ZerosIs
<1> HIDE DEF a, b
<1>5. /\ a \o b \in Seq(Cell) /\ Len(a \o b) = Len(a) + Len(b)
      /\ \A k \in 1 .. Len(a) + Len(b) : (a \o b)[k] = IF k <= Len(a) THEN a[k] ELSE b[k - Len(a)]
  BY <1>3, <1>4, ConcatProperties
<1>6. DOMAIN (a \o b) = 1 .. Len(a \o b)
  BY <1>5, LenProperties
<1>7. \A k \in 1 .. Len(a) : (a \o b)[k] = a[k]
  BY <1>2, <1>3, <1>4, <1>5
<1>8. \A k \in 1 .. Trailer : (a \o b)[Len(a) + k] = Zero
  BY <1>2, <1>3, <1>4, <1>5
<1> QED
  BY <1>1, <1>2, <1>3, <1>4, <1>5, <1>6, <1>7, <1>8 DEF a, b

\* Where the bytes of an entry are.
LEMMA Layout ==
  ASSUME NEW l \in Seq(Entry), NEW i \in 1 .. Len(l)
  PROVE  /\ Start(l, i) <= Start(l, Len(l))
         /\ \A k \in 1 .. Block : Archived(l)[Start(l, i - 1) + k] = <<"header", i, k>>
         /\ \A k \in 1 .. l[i].size : Archived(l)[Start(l, i - 1) + Block + k] = <<"data", i, k>>
<1> DEFINE w == l[i].size
           z == Padding(l[i].size)
           s == Start(l, i - 1)
           a == Archived(l)
           p == Piece(l, i)
<1>0. i \in Nat /\ i \in 0 .. Len(l) /\ i - 1 \in 0 .. Len(l) /\ Len(l) \in 0 .. Len(l)
  BY LenProperties
<1>1. w \in Nat /\ z \in Nat /\ Block \in Nat /\ s \in Nat /\ Start(l, i) = s + Block + w + z
  BY <1>0, PiecesAreSeqs, HeaderIsSeq, Starts
<1>2. /\ Start(l, i) <= Len(Body(l)) /\ Len(Body(l)) = Start(l, Len(l))
      /\ \A k \in 1 .. Start(l, i) : Body(l)[k] = Body(Upto(l, i))[k]
  BY <1>0, BodyPrefix, UptoIs DEF Start
<1>3. \A k \in 1 .. Start(l, Len(l)) : a[k] = Body(l)[k]
  BY ArchivedIs
<1>4. \A k \in 1 .. Block + w + z : Body(Upto(l, i))[s + k] = p[k]
  BY BodyStep
<1>p. /\ \A k \in 1 .. Block : p[k] = <<"header", i, k>>
      /\ \A k \in 1 .. w : p[Block + k] = <<"data", i, k>>
  <2> HIDE DEF w, z
  <2>1. /\ \A k \in 1 .. Block : Partial(i, w, z)[k] = <<"header", i, k>>
        /\ \A k \in 1 .. w : Partial(i, w, z)[Block + k] = <<"data", i, k>>
    BY <1>0, <1>1, PartialIs, ZenonT(60)
  <2> QED
    BY <2>1 DEF p, Piece, w, z
<1> HIDE DEF w, z, s, a, p
<1>5. Start(l, Len(l)) \in Nat
  BY <1>0, Starts
<1>6. \A k \in 1 .. Block + w + z : a[s + k] = p[k]
  <2> SUFFICES ASSUME NEW k \in 1 .. Block + w + z PROVE a[s + k] = p[k]
    OBVIOUS
  <2>1. s + k \in 1 .. Start(l, i) /\ s + k \in 1 .. Start(l, Len(l))
    BY <1>1, <1>2, <1>5
  <2> QED
    BY <1>2, <1>3, <1>4, <2>1
<1>7. \A k \in 1 .. Block : a[s + k] = p[k]
  BY <1>1, <1>6
<1>8. \A k \in 1 .. w : a[s + Block + k] = p[Block + k]
  <2> SUFFICES ASSUME NEW k \in 1 .. w PROVE a[s + Block + k] = p[Block + k]
    OBVIOUS
  <2>1. Block + k \in 1 .. Block + w + z /\ s + (Block + k) = s + Block + k
    BY <1>1
  <2> QED
    BY <1>6, <2>1
<1> QED
  BY <1>2, <1>p, <1>7, <1>8 DEF w, s, a

\* An entry that is written in part: its header, its data, its padding.
LEMMA PartialHeader == ASSUME NEW i \in Nat PROVE HeaderOf(i) = Partial(i, 0, 0)
<1>1. DataOf(i, 0) = <<>>
  BY DataIsSeq, EmptySeq
<1>2. Zeros(0) = <<>>
  BY ZerosIs, EmptySeq
<1>3. HeaderOf(i) \in Seq(Cell)
  BY HeaderIsSeq
<1> QED
  BY <1>1, <1>2, <1>3, ConcatEmptySeq DEF Partial

\* A whole entry has its padding.
LEMMA UnpaddedIs ==
  ASSUME NEW i \in Nat, NEW w \in Nat
  PROVE  /\ Partial(i, w, 0) \in Seq(Cell) /\ Len(Partial(i, w, 0)) = Block + w
         /\ \A k \in 1 .. Block : Partial(i, w, 0)[k] = <<"header", i, k>>
         /\ \A k \in 1 .. w : Partial(i, w, 0)[Block + k] = <<"data", i, k>>
<1> DEFINE none == 0
<1>1. none \in Nat /\ Block \in Nat /\ none = 0
  BY TransferAssumption DEF TransferAssumption
<1> HIDE DEF none
<1>0. i \in Nat /\ w \in Nat
  OBVIOUS
<1>2. /\ Partial(i, w, none) \in Seq(Cell) /\ Len(Partial(i, w, none)) = Block + w + none
      /\ \A k \in 1 .. Block : Partial(i, w, none)[k] = <<"header", i, k>>
      /\ \A k \in 1 .. w : Partial(i, w, none)[Block + k] = <<"data", i, k>>
  BY ONLY <1>0, <1>1, PartialIs, ZenonT(60)
<1>3. Block + w + none = Block + w
  BY <1>1
<1>4. /\ Partial(i, w, none) \in Seq(Cell) /\ Len(Partial(i, w, none)) = Block + w
      /\ \A k \in 1 .. Block : Partial(i, w, none)[k] = <<"header", i, k>>
      /\ \A k \in 1 .. w : Partial(i, w, none)[Block + k] = <<"data", i, k>>
  BY <1>2, <1>3
<1> QED
  BY <1>1, <1>4

\* The data grows by what is read.
LEMMA PartialData ==
  ASSUME NEW i \in Nat, NEW w \in Nat, NEW n \in Nat, offset = w
  PROVE  BytesOf(i, n) \in Seq(Cell) /\ Partial(i, w, 0) \o BytesOf(i, n) = Partial(i, w + n, 0)
<1> DEFINE a == Partial(i, w, 0)
           b == BytesOf(i, n)
           m == w + n
           c == Partial(i, m, 0)
<1>0. Block \in Nat /\ m \in Nat
  BY TransferAssumption DEF TransferAssumption
<1>1. /\ a \in Seq(Cell) /\ Len(a) = Block + w
      /\ \A k \in 1 .. Block : a[k] = <<"header", i, k>>
      /\ \A k \in 1 .. w : a[Block + k] = <<"data", i, k>>
  BY UnpaddedIs
<1>2. /\ c \in Seq(Cell) /\ Len(c) = Block + m
      /\ \A k \in 1 .. Block : c[k] = <<"header", i, k>>
      /\ \A k \in 1 .. m : c[Block + k] = <<"data", i, k>>
  <2> HIDE DEF m
  <2> QED
    BY <1>0, UnpaddedIs
<1>3. b \in Seq(Cell) /\ Len(b) = n /\ \A k \in 1 .. n : b[k] = <<"data", i, w + k>>
  <2>1. \A k \in 1 .. n : b[k] = <<"data", i, w + k>> /\ b[k] \in Cell
    BY DEF BytesOf, Cell
  <2>2. b = [k \in 1 .. n |-> b[k]] /\ DOMAIN b = 1 .. n
    BY DEF BytesOf
  <2> HIDE DEF b
  <2>3. b \in Seq(Cell)
    BY <2>1, <2>2, FillIsSeq
  <2>4. Len(b) = n
    BY <2>2, <2>3, LenProperties
  <2> QED
    BY <2>1, <2>3, <2>4
<1> HIDE DEF a, b, c
<1>4. /\ a \o b \in Seq(Cell) /\ Len(a \o b) = Block + w + n
      /\ \A k \in 1 .. Block + w + n : (a \o b)[k] = IF k <= Block + w THEN a[k] ELSE b[k - (Block + w)]
  <2>1. /\ a \o b \in Seq(Cell) /\ Len(a \o b) = Len(a) + Len(b)
        /\ \A k \in 1 .. Len(a) + Len(b) : (a \o b)[k] = IF k <= Len(a) THEN a[k] ELSE b[k - Len(a)]
    BY <1>1, <1>3, ConcatProperties
  <2>2. Len(a) = Block + w /\ Len(b) = n
    BY <1>0, <1>1, <1>3
  <2> QED
    BY <2>1, <2>2
<1> HIDE DEF m
<1>m. m = w + n
  BY DEF m
<1>5. ASSUME NEW k \in 1 .. Block + w + n PROVE (a \o b)[k] = c[k]
  <2>1. CASE k <= Block
    <3>1. k \in 1 .. Block /\ k <= Block + w
      BY <1>0, <2>1
    <3>2. (a \o b)[k] = a[k]
      BY <1>4, <3>1
    <3>3. a[k] = <<"header", i, k>> /\ c[k] = <<"header", i, k>>
      BY <1>1, <1>2, <3>1
    <3> QED
      BY <3>2, <3>3
  <2>2. CASE k > Block /\ k <= Block + w
    <3> DEFINE j == k - Block
    <3>1. j \in 1 .. w /\ j \in 1 .. m /\ k = Block + j
      BY <1>0, <1>m, <2>2
    <3> HIDE DEF j
    <3>2. a[k] = <<"data", i, j>> /\ c[k] = <<"data", i, j>>
      BY <1>1, <1>2, <3>1
    <3> QED
      BY <1>4, <2>2, <3>2
  <2>3. CASE k > Block + w
    <3> DEFINE j == k - (Block + w)
    <3>1. j \in 1 .. n /\ w + j \in 1 .. m /\ k = Block + (w + j) /\ ~(k <= Block + w)
      BY <1>0, <1>m, <2>3
    <3>2. (a \o b)[k] = b[j]
      BY <1>4, <3>1
    <3> HIDE DEF j
    <3>3. b[j] = <<"data", i, w + j>> /\ c[k] = <<"data", i, w + j>>
      BY <1>2, <1>3, <3>1
    <3> QED
      BY <3>2, <3>3
  <2>4. k <= Block \/ (k > Block /\ k <= Block + w) \/ k > Block + w
    BY <1>0
  <2> QED
    BY <2>1, <2>2, <2>3, <2>4
<1>6. Len(a \o b) = Len(c)
  BY <1>0, <1>2, <1>4 DEF m
<1> DEFINE d == a \o b
<1>7. d \in Seq(Cell) /\ Len(d) = Len(c) /\ \A k \in 1 .. Len(d) : d[k] = c[k]
  BY <1>4, <1>5, <1>6
<1>8. d = c
  <2> HIDE DEF d
  <2> QED
    BY <1>2, <1>7, SeqEqual
<1> QED
  BY <1>3, <1>8, <1>m DEF a, b, c

\* Zeros behind zeros.
LEMMA ZerosAdd ==
  ASSUME NEW z \in Nat, NEW n \in Nat
  PROVE  Zeros(z) \o Zeros(n) = Zeros(z + n)
<1> DEFINE a == Zeros(z)
           b == Zeros(n)
           m == z + n
           c == Zeros(m)
           d == a \o b
<1>1. a \in Seq(Cell) /\ Len(a) = z /\ (\A k \in 1 .. z : a[k] = Zero)
      /\ b \in Seq(Cell) /\ Len(b) = n /\ (\A k \in 1 .. n : b[k] = Zero)
  BY ZerosIs
<1>2. c \in Seq(Cell) /\ Len(c) = m /\ (\A k \in 1 .. m : c[k] = Zero)
  <2>1. m \in Nat
    OBVIOUS
  <2> HIDE DEF m
  <2> QED
    BY <2>1, ZerosIs
<1> HIDE DEF a, b, c
<1>3. d \in Seq(Cell) /\ Len(d) = Len(a) + Len(b)
      /\ \A k \in 1 .. Len(a) + Len(b) : d[k] = IF k <= Len(a) THEN a[k] ELSE b[k - Len(a)]
  BY <1>1, ConcatProperties
<1> HIDE DEF d
<1>4. \A k \in 1 .. z + n : d[k] = Zero
  BY <1>1, <1>3, SMTT(40)
<1>5. Len(d) = Len(c) /\ \A k \in 1 .. Len(d) : d[k] = c[k]
  BY <1>1, <1>2, <1>3, <1>4
<1>6. d = c
  BY <1>2, <1>3, <1>5, SeqEqual
<1> QED
  BY <1>6 DEF a, b, c, d

\* The padding grows.
LEMMA PartialZeros ==
  ASSUME NEW i \in Nat, NEW w \in Nat, NEW z \in Nat, NEW n \in Nat
  PROVE  Partial(i, w, z) \o Zeros(n) = Partial(i, w, z + n)
<1> DEFINE a == HeaderOf(i) \o DataOf(i, w)
<1>1. a \in Seq(Cell)
  BY HeaderIsSeq, DataIsSeq, ConcatProperties
<1>2. Zeros(z) \in Seq(Cell) /\ Zeros(n) \in Seq(Cell)
  BY ZerosIs
<1>3. Partial(i, w, z) = a \o Zeros(z) /\ Partial(i, w, z + n) = a \o Zeros(z + n)
  BY DEF Partial
<1> HIDE DEF a
<1>4. (a \o Zeros(z)) \o Zeros(n) = a \o (Zeros(z) \o Zeros(n))
  BY <1>1, <1>2, ConcatAssociative, SMTT(40)
<1> QED
  BY <1>3, <1>4, ZerosAdd

(***************************************************************************)
(* What an upload of a directory has written, with what its buffer holds.  *)
(***************************************************************************)
Written == IF at \in {"pack", "send"} THEN sent \o out ELSE sent

Laid ==
  LET n == Len(listing) IN
    /\ pack.state \in {"next", "header"} => Written = Body(listing)
    /\ pack.state = "header" => offset = 0 /\ pack.written = 0
    /\ pack.state = "data" =>
         /\ n # 0 /\ listing[n].size = pack.expected /\ offset = pack.written
         /\ Written = Body(Upto(listing, n - 1)) \o Partial(n, pack.written, 0)
    /\ pack.state = "padding" =>
         /\ n # 0 /\ listing[n].size = pack.expected /\ pack.padding \in 0 .. Padding(pack.expected)
         /\ Written = Body(Upto(listing, n - 1)) \o Partial(n, pack.expected, pack.padding)
    /\ pack.state = "trailer" => pack.trailer \in 0 .. Trailer /\ Written = Body(listing) \o Zeros(pack.trailer)
    /\ pack.state = "done" => Written = Archived(listing)

Packing ==
  req.way = "up" =>
    /\ \A i \in DOMAIN listing : listing[i].kind = "file"
    /\ pack.state = "header" => pack.entry.kind = "file"
    /\ IsTar /\ at \in {"asked"} \cup Reading \cup {"readinit"} => Laid
    /\ IsTar /\ at = "send" /\ exhausted => pack.state = "done" /\ out = <<>>
    /\ IsTar /\ (at \in {"answer", "complete"} \/ told) => sent = Archived(listing)
    /\ at = "asked" => exhausted = FALSE

LEMMA PackingInit == Init => Packing
<1>1. ASSUME NEW s \in Downloads, DownStarts(s.req, s.content, s.mounts, s.dest) PROVE Packing
  BY <1>1, ArchiveAssumption DEF ArchiveAssumption, DownStarts, Packing
<1>2. ASSUME NEW s \in Uploads, UpStarts(s.req, s.tree, s.mounts) PROVE Packing
  <2>1. /\ at = "asked" /\ told = FALSE /\ pack = PackNone /\ out = <<>> /\ listing = <<>> /\ sent = <<>>
        /\ exhausted = FALSE
    BY <1>2 DEF UpStarts
  <2>2. pack.state = "next"
    BY <2>1 DEF PackNone
  <2>3. Written = Body(listing)
    BY <2>1, BodyEmpty DEF Written
  <2> QED
    BY <2>1, <2>2, <2>3 DEF Packing, Laid
<1> QED
  BY <1>1, <1>2 DEF Init

\* A step that neither packs nor sends.
LEMMA PackingKept ==
  ASSUME Packing, Control, req.way = "up", req' = req,
         pack' = pack, listing' = listing, sent' = sent, exhausted' = exhausted,
         \/ at' = at /\ told' = told /\ out' = out /\ (at = "asked" => at' = at)
         \/ at' \in {"abort"} \cup Late /\ (told' => told \/ at = "complete")
         \/ at' \in {"readinit", "data", "request", "put"}
            /\ at \in {"asked", "readinit", "data", "request", "put"} /\ told' = told
         \/ at = "answer" /\ at' = "complete" /\ told' = told,
         offset' = offset
  PROVE  Packing'
<1>1. IsTar' <=> IsTar
  BY DEF IsTar
<1>2. told => at \in Late
  BY DEF Control, Answers
<1>3. CASE at' = at /\ told' = told /\ out' = out
  <2>1. Written' = Written
    BY <1>3 DEF Written
  <2> QED
    BY <1>1, <1>3, <2>1 DEF Packing, Laid
<1>4. CASE at' \in {"abort"} \cup Late /\ (told' => told \/ at = "complete")
  BY <1>1, <1>4 DEF Packing, Late, Reading
<1>5. CASE at' \in {"readinit", "data", "request", "put"}
           /\ at \in {"asked", "readinit", "data", "request", "put"} /\ told' = told
  <2>1. Written' = Written
    BY <1>5 DEF Written
  <2>2. IsTar => Laid
    BY <1>5 DEF Packing, Reading
  <2>3. IsTar => Laid'
    BY <2>1, <2>2 DEF Laid
  <2>4. ~told
    BY <1>2, <1>5 DEF Late
  <2> QED
    BY <1>1, <1>5, <2>3, <2>4 DEF Packing
<1>6. CASE at = "answer" /\ at' = "complete" /\ told' = told
  BY <1>1, <1>6 DEF Packing, Reading
<1> QED
  BY <1>3, <1>4, <1>5, <1>6

\* What is packed is written.
LEMMA WrittenGrows ==
  ASSUME sent \in Seq(Cell), out \in Seq(Cell), at = "pack", at' = "pack", sent' = sent,
         NEW x \in Seq(Cell), out' = out \o x
  PROVE  Written' = Written \o x
BY ConcatAssociative DEF Written

\* The header of the next entry.
LEMMA PackingHeader ==
  ASSUME UpTypes, Filled, Packing, Control, req.way = "up", PackHeader
  PROVE  Packing'
<1> USE DEF PackRest, UpProceed, UpGoto, InPack
<1> DEFINE n == Len(listing)
           e == [pack.entry EXCEPT !.size = pack.expected]
<1>1. /\ at = "pack" /\ at' = "pack" /\ pack.state = "header" /\ listing' = Append(listing, e)
      /\ out' = out \o HeaderOf(Len(listing')) /\ sent' = sent /\ req' = req /\ offset' = offset
      /\ pack' = [pack EXCEPT !.state = IF pack.expected = 0 THEN "next" ELSE "data"]
      /\ exhausted' = exhausted /\ told' = told
  BY DEF PackHeader
<1>2. /\ IsTar /\ (IsTar' <=> IsTar) /\ pack.entry \in Entry /\ pack.entry.kind = "file" /\ pack.expected \in Nat
      /\ listing \in Seq(Entry) /\ sent \in Seq(Cell) /\ out \in Seq(Cell) /\ pack \in PackRecord
  BY <1>1 DEF UpTypes, Filled, Packing, IsTar, PackRecord
<1>3. e \in Entry /\ e.size = pack.expected /\ e.kind = "file"
  BY <1>2 DEF Entry
<1>4. Laid /\ ~told /\ ~told'
  BY <1>1, <1>2 DEF Packing, Control, Answers, Reading, Late
<1>5. pack'.state = (IF pack.expected = 0 THEN "next" ELSE "data") /\ pack'.expected = pack.expected
      /\ pack'.written = pack.written
  BY <1>1, <1>2 DEF PackRecord
<1> HIDE DEF e
<1>6. /\ Body(listing) \in Seq(Cell) /\ Len(listing') = n + 1 /\ n \in Nat
      /\ (\A i \in 1 .. n : listing'[i] = listing[i]) /\ listing'[n + 1] = e
      /\ DOMAIN listing' = 1 .. n + 1 /\ DOMAIN listing = 1 .. n
      /\ Body(listing') = Body(listing) \o Partial(n + 1, e.size, Padding(e.size))
      /\ Upto(listing', n) = listing
  <2>1. /\ Body(listing) \in Seq(Cell) /\ listing' \in Seq(Entry) /\ Len(listing') = n + 1
        /\ Body(listing') = Body(listing) \o Partial(n + 1, e.size, Padding(e.size))
    BY <1>1, <1>2, <1>3, BodyAppend
  <2>2. n \in Nat /\ (\A i \in 1 .. n : listing'[i] = listing[i]) /\ listing'[n + 1] = e
    BY <1>1, <1>2, <1>3, AppendProperties, LenProperties
  <2>3. DOMAIN listing' = 1 .. n + 1 /\ DOMAIN listing = 1 .. n
    BY <1>2, <2>1, LenProperties
  <2> DEFINE u == Upto(listing', n)
  <2>4. u \in Seq(Entry) /\ Len(u) = n /\ \A i \in 1 .. n : u[i] = listing'[i]
    <3>1. \A i \in 1 .. n : listing'[i] \in Entry
      BY <1>2, <2>2, ElementOfSeq
    <3> QED
      BY <2>2, <3>1, SubSeqProperties DEF Upto
  <2> HIDE DEF u
  <2>5. \A i \in 1 .. Len(u) : u[i] = listing[i]
    BY <2>2, <2>4
  <2>6. u = listing
    BY <1>2, <2>4, <2>5, SeqEqual
  <2> QED
    BY <2>1, <2>2, <2>3, <2>6 DEF u
<1>7. \A i \in DOMAIN listing' : listing'[i].kind = "file"
  <2> SUFFICES ASSUME NEW i \in 1 .. n + 1 PROVE listing'[i].kind = "file"
    BY <1>6
  <2>1. CASE i \in 1 .. n
    BY <1>6, <2>1 DEF Packing
  <2>2. CASE i = n + 1
    BY <1>3, <1>6, <2>2
  <2> QED
    BY <1>6, <2>1, <2>2
<1>8. Written' = Body(listing) \o Partial(n + 1, 0, 0)
  <2>1. n + 1 \in Nat
    BY <1>6
  <2>2. HeaderOf(n + 1) = Partial(n + 1, 0, 0) /\ HeaderOf(n + 1) \in Seq(Cell)
    BY <2>1, PartialHeader, HeaderIsSeq
  <2>3. Written' = Written \o HeaderOf(n + 1)
    BY <1>1, <1>2, <1>6, <2>2, WrittenGrows
  <2> QED
    BY <1>1, <1>4, <2>2, <2>3 DEF Laid
<1>9. Laid'
  <2>1. CASE pack.expected = 0
    <3>1. Padding(0) = 0
      BY TransferAssumption DEF TransferAssumption, Padding
    <3>2. Written' = Body(listing')
      BY <1>3, <1>6, <1>8, <2>1, <3>1
    <3> QED
      BY <1>5, <2>1, <3>2 DEF Laid
  <2>2. CASE pack.expected # 0
    <3>1. pack'.state = "data" /\ Len(listing') # 0 /\ listing'[Len(listing')].size = pack'.expected
      BY <1>3, <1>5, <1>6, <2>2
    <3>2. offset' = pack'.written /\ pack'.written = 0
      BY <1>1, <1>4, <1>5 DEF Laid
    <3>3. n + 1 - 1 = n /\ Upto(listing', n + 1 - 1) = listing
      BY <1>6
    <3>4. Written' = Body(Upto(listing', Len(listing') - 1)) \o Partial(Len(listing'), pack'.written, 0)
      BY <1>6, <1>8, <3>2, <3>3
    <3> QED
      BY <3>1, <3>2, <3>4 DEF Laid
  <2> QED
    BY <2>1, <2>2
<1> QED
  BY <1>1, <1>2, <1>4, <1>5, <1>7, <1>9 DEF Packing

\* The bytes of the entry that is being packed go on.
LEMMA WrittenGoesOn ==
  ASSUME UpTypes, Len(listing) # 0, NEW p \in Seq(Cell), NEW x \in Seq(Cell),
         Written = Body(Upto(listing, Len(listing) - 1)) \o p, Written' = Written \o x, listing' = listing
  PROVE  /\ Written' = Body(Upto(listing', Len(listing') - 1)) \o (p \o x)
         /\ p \o x = Piece(listing, Len(listing)) => Written' = Body(listing')
<1> DEFINE n == Len(listing)
           b == Body(Upto(listing, n - 1))
<1>1. listing \in Seq(Entry) /\ n \in Nat /\ n \in 1 .. Len(listing) /\ n - 1 \in 0 .. Len(listing)
  BY LenProperties DEF UpTypes
<1>2. b \in Seq(Cell)
  BY <1>1, UptoIs, BodyTypes
<1>3. Body(listing) = b \o Piece(listing, n)
  BY <1>1, Starts, UptoIs
<1>4. Written' = b \o (p \o x)
  <2>1. Written' = (b \o p) \o x
    OBVIOUS
  <2>2. (b \o p) \o x = b \o (p \o x)
    <3> HIDE DEF b
    <3> QED
      BY <1>2, ConcatAssociative
  <2> QED
    BY <2>1, <2>2
<1> QED
  BY <1>3, <1>4

\* How much of a file is packed at once.
LEMMA DataSpaceIs ==
  ASSUME UpTypes, Filled, IsTar, reads \in Names, pack.written \in Nat
  PROVE  LET n == Readable(DataSpace) IN
         n > 0 => n \in Nat /\ pack.written + n <= pack.expected
<1>1. pack.expected \in Nat /\ pack.written <= pack.expected /\ Len(out) \in Nat /\ ReadSize \in Nat
  BY UploadAssumption, LenProperties DEF UploadAssumption, UpTypes, Filled, PackRecord
<1>2. Block \in Nat /\ Space \in Int
  BY <1>1, TransferAssumption DEF TransferAssumption, Space, OutSize
<1>3. DataSpace \in Int /\ DataSpace <= pack.expected - pack.written
  BY <1>1, <1>2 DEF DataSpace, Min2
<1>4. length[reads] \in Nat /\ offset \in Nat
  BY DEF UpTypes
<1>5. Readable(DataSpace) \in Int /\ Readable(DataSpace) <= DataSpace
  <2> DEFINE d == DataSpace
             m == length[reads]
  <2>1. d \in Int /\ m \in Nat
    BY <1>3, <1>4
  <2>2. Readable(d) = Min2(d, IF m > offset THEN m - offset ELSE 0)
    BY DEF Readable
  <2> HIDE DEF d, m
  <2>3. Readable(d) \in Int /\ Readable(d) <= d
    BY <1>4, <2>1, <2>2 DEF Min2
  <2> QED
    BY <2>3 DEF d
<1> DEFINE n == Readable(DataSpace)
<1>6. n \in Int /\ n <= DataSpace
  BY <1>5
<1> HIDE DEF n
<1>7. n > 0 => n \in Nat /\ pack.written + n <= pack.expected
  BY <1>1, <1>3, <1>6
<1> QED
  BY <1>7 DEF n

\* The next bytes of the data.
LEMMA PackingData ==
  ASSUME UpTypes, Filled, Packing, Control, req.way = "up", PackData
  PROVE  Packing'
<1> USE DEF PackRest, UpProceed, UpGoto, InPack
<1> DEFINE i == Len(listing)
           n == Readable(DataSpace)
           w == pack.written
<1>1. /\ at = "pack" /\ at' = "pack" /\ pack.state = "data" /\ listing' = listing
      /\ out' = out \o BytesOf(i, n) /\ sent' = sent /\ req' = req /\ offset' = offset + n /\ n > 0
      /\ pack' = [pack EXCEPT !.written = @ + n, !.padding = 0,
                     !.state = CASE w + n < pack.expected -> "data"
                                 [] OTHER -> IF Padding(pack.expected) > 0 THEN "padding" ELSE "next"]
      /\ exhausted' = exhausted /\ told' = told
  BY DEF PackData
<1>2. /\ IsTar /\ (IsTar' <=> IsTar) /\ pack.expected \in Nat /\ reads \in Names
      /\ listing \in Seq(Entry) /\ sent \in Seq(Cell) /\ out \in Seq(Cell) /\ pack \in PackRecord
      /\ offset \in Nat
  BY <1>1 DEF UpTypes, Filled, IsTar, PackRecord, Reading
<1>4. Laid /\ ~told /\ ~told'
  BY <1>1, <1>2 DEF Packing, Control, Answers, Reading, Late
<1>5. i # 0 /\ listing[i].size = pack.expected /\ offset = w
      /\ Written = Body(Upto(listing, i - 1)) \o Partial(i, w, 0)
  BY <1>1, <1>4 DEF Laid
<1>6. n \in Nat /\ w + n <= pack.expected /\ w \in Nat /\ w + n \in Nat
  <2>1. w \in Nat
    BY <1>2, <1>5
  <2>2. n \in Nat /\ w + n <= pack.expected
    BY <1>1, <1>2, <2>1, DataSpaceIs
  <2> HIDE DEF n, w
  <2> QED
    BY <2>1, <2>2
<1>7. i \in Nat
  BY <1>2, LenProperties
<1> HIDE DEF n, i
<1>8. /\ pack'.written = w + n /\ pack'.padding = 0 /\ pack'.expected = pack.expected
      /\ pack'.state = IF w + n < pack.expected THEN "data"
                       ELSE IF Padding(pack.expected) > 0 THEN "padding" ELSE "next"
  BY <1>1, <1>2 DEF PackRecord
<1>9. BytesOf(i, n) \in Seq(Cell) /\ Partial(i, w, 0) \o BytesOf(i, n) = Partial(i, w + n, 0)
      /\ Partial(i, w, 0) \in Seq(Cell)
  BY <1>5, <1>6, <1>7, PartialData, UnpaddedIs
<1>10. Written' = Written \o BytesOf(i, n)
  BY <1>1, <1>2, <1>9, WrittenGrows
<1>11. /\ Written' = Body(Upto(listing', Len(listing') - 1)) \o Partial(i, w + n, 0)
       /\ Partial(i, w + n, 0) = Piece(listing, i) => Written' = Body(listing')
  BY <1>1, <1>5, <1>9, <1>10, WrittenGoesOn DEF i
<1>12. Len(listing') = i /\ listing'[i].size = pack.expected
  BY <1>1, <1>5 DEF i
<1>13. Laid'
  <2>1. CASE w + n < pack.expected
    BY <1>1, <1>5, <1>8, <1>11, <1>12, <2>1 DEF Laid
  <2>2. CASE ~(w + n < pack.expected)
    <3>1. w + n = pack.expected
      BY <1>2, <1>6, <2>2
    <3>2. Padding(pack.expected) \in Nat
      BY <1>2, PaddingIsNat
    <3>3. CASE Padding(pack.expected) > 0
      <4>1. pack'.padding \in 0 .. Padding(pack'.expected)
        BY <1>8, <3>2
      <4>2. pack'.state = "padding"
        BY <1>8, <2>2, <3>3
      <4> QED
        BY <1>5, <1>8, <1>11, <1>12, <3>1, <4>1, <4>2 DEF Laid
    <3>4. CASE ~(Padding(pack.expected) > 0)
      <4>1. Padding(pack.expected) = 0
        BY <3>2, <3>4
      <4>2. pack'.state = "next"
        BY <1>8, <2>2, <3>4
      <4>3. Partial(i, w + n, 0) = Piece(listing, i)
        BY <1>5, <3>1, <4>1 DEF Piece
      <4> QED
        BY <1>11, <4>2, <4>3 DEF Laid
    <3> QED
      BY <3>3, <3>4
  <2> QED
    BY <2>1, <2>2
<1>14. pack'.state # "header"
  BY <1>8
<1> QED
  BY <1>1, <1>2, <1>4, <1>13, <1>14 DEF Packing

\* The next zeros of the padding.
LEMMA PackingPadding ==
  ASSUME UpTypes, Filled, Packing, Control, req.way = "up", PackPadding
  PROVE  Packing'
<1> USE DEF PackRest, UpProceed, UpGoto, InPack
<1> DEFINE i == Len(listing)
           left == Padding(pack.expected) - pack.padding
           n == Min2(Space, left)
           z == pack.padding
<1>1. /\ at = "pack" /\ at' = "pack" /\ pack.state = "padding" /\ listing' = listing /\ Space > 0
      /\ out' = out \o Zeros(n) /\ sent' = sent /\ req' = req /\ offset' = offset
      /\ pack' = [pack EXCEPT !.padding = @ + n,
                     !.state = IF z + n = Padding(pack.expected) THEN "next" ELSE @]
      /\ exhausted' = exhausted /\ told' = told
  BY DEF PackPadding
<1>2. /\ IsTar /\ (IsTar' <=> IsTar) /\ pack.expected \in Nat
      /\ listing \in Seq(Entry) /\ sent \in Seq(Cell) /\ out \in Seq(Cell) /\ pack \in PackRecord
  BY <1>1 DEF UpTypes, Filled, IsTar, PackRecord, Reading
<1>4. Laid /\ ~told /\ ~told'
  BY <1>1, <1>2 DEF Packing, Control, Answers, Reading, Late
<1>5. i # 0 /\ listing[i].size = pack.expected /\ z \in 0 .. Padding(pack.expected)
      /\ Written = Body(Upto(listing, i - 1)) \o Partial(i, pack.expected, z)
  BY <1>1, <1>4 DEF Laid
<1>6. i \in Nat /\ Padding(pack.expected) \in Nat
  BY <1>2, LenProperties, PaddingIsNat
<1>7. n \in Nat /\ z \in Nat /\ z + n \in 0 .. Padding(pack.expected) /\ z + n \in Nat
  <2>1. Space \in Nat
    BY <1>1, <1>2, LenProperties, TransferAssumption DEF TransferAssumption, Space, OutSize
  <2> DEFINE p == Padding(pack.expected)
             s == Space
  <2>2. z \in Nat /\ z <= p /\ p \in Nat /\ s \in Nat
    BY <1>5, <1>6, <2>1
  <2>3. n = Min2(s, p - z)
    OBVIOUS
  <2> HIDE DEF p, s, z, n
  <2>4. n \in Nat /\ z + n <= p
    BY <2>2, <2>3 DEF Min2
  <2> QED
    BY <2>2, <2>4 DEF p
<1> HIDE DEF n, i
<1>8. /\ pack'.padding = z + n /\ pack'.expected = pack.expected
      /\ pack'.state = IF z + n = Padding(pack.expected) THEN "next" ELSE "padding"
  BY <1>1, <1>2 DEF PackRecord
<1>9. Zeros(n) \in Seq(Cell) /\ Partial(i, pack.expected, z) \o Zeros(n) = Partial(i, pack.expected, z + n)
      /\ Partial(i, pack.expected, z) \in Seq(Cell)
  <2> DEFINE e == pack.expected
  <2>1. e \in Nat /\ i \in Nat /\ z \in Nat /\ n \in Nat
    BY <1>2, <1>6, <1>7
  <2> HIDE DEF e, z
  <2>2. Partial(i, e, z) \o Zeros(n) = Partial(i, e, z + n)
    BY ONLY <2>1, PartialZeros, ZenonT(60)
  <2>3. Zeros(n) \in Seq(Cell) /\ Partial(i, e, z) \in Seq(Cell)
    BY <2>1, PartialIs, ZerosIs
  <2> QED
    BY <2>2, <2>3 DEF e
<1>10. Written' = Written \o Zeros(n)
  BY <1>1, <1>2, <1>9, WrittenGrows
<1>11. /\ Written' = Body(Upto(listing', Len(listing') - 1)) \o Partial(i, pack.expected, z + n)
       /\ Partial(i, pack.expected, z + n) = Piece(listing, i) => Written' = Body(listing')
  BY <1>1, <1>5, <1>9, <1>10, WrittenGoesOn DEF i
<1>12. Len(listing') = i /\ listing'[i].size = pack.expected
  BY <1>1, <1>5 DEF i
<1>13. Laid'
  <2>1. CASE z + n # Padding(pack.expected)
    BY <1>5, <1>7, <1>8, <1>11, <1>12, <2>1 DEF Laid
  <2>2. CASE z + n = Padding(pack.expected)
    <3>1. Partial(i, pack.expected, z + n) = Piece(listing, i)
      BY <1>5, <2>2 DEF Piece
    <3> QED
      BY <1>8, <1>11, <2>2, <3>1 DEF Laid
  <2> QED
    BY <2>1, <2>2
<1>14. pack'.state # "header"
  BY <1>8
<1> QED
  BY <1>1, <1>2, <1>4, <1>13, <1>14 DEF Packing

\* The next zeros of the trailer.
LEMMA PackingTrailer ==
  ASSUME UpTypes, Filled, Packing, Control, req.way = "up", PackTrailer
  PROVE  Packing'
<1> USE DEF PackRest, UpProceed, UpGoto, InPack
<1> DEFINE n == Min2(Space, Trailer - pack.trailer)
           z == pack.trailer
<1>1. /\ at = "pack" /\ at' = "pack" /\ pack.state = "trailer" /\ listing' = listing /\ Space > 0
      /\ out' = out \o Zeros(n) /\ sent' = sent /\ req' = req /\ offset' = offset
      /\ pack' = [pack EXCEPT !.trailer = @ + n, !.state = IF z + n = Trailer THEN "done" ELSE @]
      /\ exhausted' = exhausted /\ told' = told
  BY DEF PackTrailer
<1>2. /\ IsTar /\ (IsTar' <=> IsTar)
      /\ listing \in Seq(Entry) /\ sent \in Seq(Cell) /\ out \in Seq(Cell) /\ pack \in PackRecord
  BY <1>1 DEF UpTypes, Filled, IsTar, PackRecord, Reading
<1>4. Laid /\ ~told /\ ~told'
  BY <1>1, <1>2 DEF Packing, Control, Answers, Reading, Late
<1>5. z \in 0 .. Trailer /\ Written = Body(listing) \o Zeros(z)
  BY <1>1, <1>4 DEF Laid
<1>7. n \in Nat /\ z \in Nat /\ z + n \in 0 .. Trailer /\ Trailer \in Nat
  <2>1. Space \in Nat /\ Trailer \in Nat
    BY <1>1, <1>2, LenProperties, TransferAssumption DEF TransferAssumption, Space, OutSize, Trailer
  <2>2. z \in Nat /\ z <= Trailer
    BY <1>5, <2>1
  <2> DEFINE s == Space
  <2>3. n = Min2(s, Trailer - z) /\ s \in Nat
    BY <2>1
  <2> HIDE DEF s, z, n
  <2>4. n \in Nat /\ z + n <= Trailer
    BY <2>1, <2>2, <2>3 DEF Min2
  <2> QED
    BY <2>1, <2>2, <2>4
<1> HIDE DEF n
<1>8. pack'.trailer = z + n /\ pack'.state = IF z + n = Trailer THEN "done" ELSE "trailer"
  BY <1>1, <1>2 DEF PackRecord
<1>9. Zeros(n) \in Seq(Cell) /\ Zeros(z) \in Seq(Cell) /\ Zeros(z) \o Zeros(n) = Zeros(z + n)
      /\ Body(listing) \in Seq(Cell)
  BY <1>2, <1>7, ZerosAdd, ZerosIs, BodyTypes
<1>10. Written' = Written \o Zeros(n)
  BY <1>1, <1>2, <1>9, WrittenGrows
<1>11. Written' = Body(listing') \o Zeros(z + n)
  <2>1. (Body(listing) \o Zeros(z)) \o Zeros(n) = Body(listing) \o (Zeros(z) \o Zeros(n))
    <3> DEFINE b == Body(listing)
               y == Zeros(z)
               x == Zeros(n)
    <3>1. b \in Seq(Cell) /\ y \in Seq(Cell) /\ x \in Seq(Cell)
      BY <1>9
    <3> HIDE DEF b, y, x
    <3>2. (b \o y) \o x = b \o (y \o x)
      BY <3>1, ConcatAssociative
    <3> QED
      BY <3>2 DEF b, y, x
  <2> QED
    BY <1>1, <1>5, <1>9, <1>10, <2>1
<1>12. Archived(listing') = Body(listing') \o Zeros(Trailer)
  BY <1>1, <1>2, ArchivedIs
<1>13. Laid'
  BY <1>7, <1>8, <1>11, <1>12 DEF Laid
<1>14. pack'.state # "header"
  BY <1>8
<1> QED
  BY <1>1, <1>2, <1>4, <1>13, <1>14 DEF Packing

\* The walk goes to the next file, or there is none.
LEMMA PackingStarts ==
  ASSUME UpTypes, Filled, Packing, Control, req.way = "up", NextFile \/ NoMoreFiles
  PROVE  Packing'
<1> USE DEF PackRest, UpProceed, UpGoto, InPack, Entering
<1>1. /\ at = "pack" /\ at' = "pack" /\ pack.state = "next" /\ listing' = listing /\ out' = out
      /\ sent' = sent /\ req' = req /\ exhausted' = exhausted /\ told' = told
  BY DEF NextFile, NoMoreFiles
<1>2. /\ IsTar /\ (IsTar' <=> IsTar) /\ listing \in Seq(Entry) /\ sent \in Seq(Cell) /\ out \in Seq(Cell)
      /\ pack \in PackRecord
  BY <1>1 DEF UpTypes, Filled, IsTar
<1>3. Laid /\ ~told /\ ~told' /\ Written' = Written
  BY <1>1, <1>2 DEF Packing, Control, Answers, Reading, Late, Written
<1>4. Written' = Body(listing')
  BY <1>1, <1>3 DEF Laid
<1>5. CASE NextFile
  <2>1. pack'.state = "header" /\ pack'.written = 0 /\ pack'.entry = Head(Deepest) /\ offset' = 0
        /\ Head(Deepest).kind = "file"
    BY <1>2, <1>5 DEF NextFile, PackRecord
  <2>2. Laid'
    BY <1>4, <2>1 DEF Laid
  <2> QED
    BY <1>1, <1>2, <1>3, <2>1, <2>2 DEF Packing
<1>6. CASE NoMoreFiles
  <2>1. pack'.state = "trailer" /\ pack'.trailer = 0
    BY <1>2, <1>6 DEF NoMoreFiles, PackRecord
  <2>2. Zeros(0) = <<>> /\ Body(listing) \in Seq(Cell) /\ Trailer \in Nat
    BY <1>2, ZerosIs, EmptySeq, BodyTypes, ArchivedIs
  <2>3. Written' = Body(listing') \o Zeros(pack'.trailer)
    BY <1>1, <1>4, <2>1, <2>2, ConcatEmptySeq
  <2>4. pack'.trailer \in 0 .. Trailer
    BY <2>1, <2>2
  <2>5. Laid'
    BY <2>1, <2>3, <2>4 DEF Laid
  <2> QED
    BY <1>1, <1>2, <1>3, <2>1, <2>5 DEF Packing
<1> QED
  BY <1>5, <1>6

\* One pass of the packer.
LEMMA PackingPack ==
  ASSUME UpTypes, Filled, Packing, Control, req.way = "up", Pack
  PROVE  Packing'
<1> USE DEF PackRest, UpProceed, UpGoto, InPack, Entering, packVars, readVars, PackRefuses, PutFailsWith
<1>1. CASE PackStops
  <2>1. /\ at = "pack" /\ at' = "send" /\ listing' = listing /\ out' = out /\ pack' = pack
        /\ sent' = sent /\ req' = req /\ told' = told /\ offset' = offset
        /\ exhausted' = (pack.state = "done" /\ out = <<>>)
    BY <1>1 DEF PackStops
  <2>2. IsTar /\ (IsTar' <=> IsTar)
    BY <2>1 DEF UpTypes, IsTar
  <2>3. Laid /\ ~told /\ Written' = Written
    BY <2>1, <2>2 DEF Packing, Control, Answers, Reading, Late, Written
  <2>4. Laid'
    BY <2>1, <2>3 DEF Laid
  <2> QED
    BY <2>1, <2>2, <2>3, <2>4 DEF Packing
<1>2. CASE Ascend \/ EnterDirectory \/ PassOther
  <2>1. /\ at = "pack" /\ at' = at /\ listing' = listing /\ out' = out /\ pack' = pack
        /\ sent' = sent /\ req' = req /\ told' = told /\ offset' = offset /\ exhausted' = exhausted
    BY <1>2 DEF Ascend, EnterDirectory, PassOther
  <2> QED
    BY <2>1, PackingKept
<1>3. CASE EntryFails \/ PackHeaderFails \/ PackDataTruncated
  <2>1. /\ at' = "abort" /\ listing' = listing /\ pack' = pack /\ sent' = sent /\ req' = req
        /\ told' = told /\ offset' = offset /\ exhausted' = exhausted
    BY <1>3 DEF EntryFails, PackHeaderFails, PackDataTruncated
  <2> QED
    BY <2>1, PackingKept
<1> QED
  BY <1>1, <1>2, <1>3, PackingStarts, PackingHeader, PackingData, PackingPadding, PackingTrailer DEF Pack

\* What is packed goes to the socket.
LEMMA PackingSends ==
  ASSUME UpTypes, Filled, Packing, Control, req.way = "up", PutTar \/ PutFile \/ SendChunk
  PROVE  Packing'
<1> USE DEF UpProceed, UpGoto, packVars, readVars
<1>1. /\ listing' = listing /\ pack' = pack /\ req' = req /\ told' = told /\ (IsTar' <=> IsTar) /\ ~told
  BY DEF PutTar, PutFile, SendChunk, IsTar, Control, Answers, Late
<1>2. sent \in Seq(Cell) /\ out \in Seq(Cell)
  BY DEF UpTypes, Filled
<1>3. CASE PutTar
  <2>1. IsTar /\ at = "put" /\ at' = "pack" /\ out' = <<>> /\ sent' = sent /\ offset' = offset
        /\ exhausted' = exhausted
    BY <1>3 DEF PutTar
  <2>2. Laid /\ Written' = Written
    BY <1>1, <1>2, <2>1, ConcatEmptySeq DEF Packing, Reading, Written
  <2>3. Laid'
    BY <1>1, <2>1, <2>2 DEF Laid
  <2> QED
    BY <1>1, <2>1, <2>3 DEF Packing
<1>4. CASE PutFile
  BY <1>1, <1>4 DEF PutFile, Packing
<1>5. CASE SendChunk
  <2>1. at = "send" /\ at' = (IF exhausted THEN "answer" ELSE "put") /\ sent' = sent \o out
        /\ offset' = offset /\ exhausted' = exhausted
    BY <1>5 DEF SendChunk
  <2>2. Written' = Written
    BY <2>1 DEF Written
  <2>3. IsTar => Laid /\ Laid'
    BY <1>1, <2>1, <2>2 DEF Packing, Reading, Laid
  <2>4. IsTar /\ exhausted => sent' = Archived(listing')
    BY <1>1, <2>1, <2>2, <2>3 DEF Packing, Laid, Written
  <2> QED
    BY <1>1, <2>1, <2>3, <2>4 DEF Packing
<1> QED
  BY <1>3, <1>4, <1>5

\* The other steps of an upload.
LEMMA PackingUp ==
  ASSUME UpTypes, Filled, Packing, Control, UpNext
  PROVE  Packing'
<1> USE DEF UpProceed, UpGoto, packVars, readVars, upVars, PutFailsWith, sourceVars, commonVars
<1>0. req.way = "up" /\ req' = req
  BY UpRequest
<1>1. CASE \E e \in AllFiles(tree) : Change(e.name)
  <2>1. /\ at' = at /\ listing' = listing /\ pack' = pack /\ sent' = sent /\ out' = out
        /\ told' = told /\ offset' = offset /\ exhausted' = exhausted
    BY <1>1 DEF Change
  <2> QED
    BY <1>0, <2>1, PackingKept
<1>2. CASE AskRead \/ ReadInit \/ PutConnects
  <2>1. /\ at' \in {"readinit", "data", "request", "put"} /\ at \in {"asked", "readinit", "data", "request", "put"}
        /\ listing' = listing /\ pack' = pack /\ sent' = sent
        /\ told' = told /\ offset' = offset /\ exhausted' = exhausted
    BY <1>2 DEF AskRead, ReadInit, PutConnects
  <2> QED
    BY <1>0, <2>1, PackingKept
<1>3. CASE ReadInitFails \/ PutRefused \/ ReadFails \/ SendFails \/ ServerRefuses \/ ReadAbort \/ ReadComplete
  <2>1. /\ at' \in {"abort"} \cup Late /\ (told' => told \/ at = "complete")
        /\ listing' = listing /\ pack' = pack /\ sent' = sent /\ offset' = offset /\ exhausted' = exhausted
    BY <1>3 DEF ReadInitFails, PutRefused, ReadFails, SendFails, ServerRefuses, ReadAbort, ReadComplete, Late
  <2> QED
    BY <1>0, <2>1, PackingKept
<1>4. CASE ServerAccepts
  <2>1. /\ at = "answer" /\ at' = "complete" /\ told' = told
        /\ listing' = listing /\ pack' = pack /\ sent' = sent /\ offset' = offset /\ exhausted' = exhausted
    BY <1>4 DEF ServerAccepts
  <2> QED
    BY <1>0, <2>1, PackingKept
<1>5. CASE UpCommon
  <2>1. /\ listing' = listing /\ pack' = pack /\ sent' = sent /\ out' = out /\ offset' = offset
        /\ exhausted' = exhausted
    BY <1>5 DEF UpCommon
  <2>2. CASE DataNew("request")
    BY <1>0, <2>1, <2>2, PackingKept DEF DataNew
  <2>3. CASE Work
    BY <1>0, <2>1, <2>3, PackingKept DEF Work
  <2>4. CASE RefuseRequest \/ DataFails \/ DataDestroy \/ Respond
    <3>1. at' \in Late /\ told' = told
      BY <2>4 DEF RefuseRequest, DataFails, DataDestroy, Respond, Late
    <3> QED
      BY <1>0, <2>1, <3>1, PackingKept
  <2> QED
    BY <1>5, <2>2, <2>3, <2>4 DEF UpCommon
<1> QED
  BY <1>0, <1>1, <1>2, <1>3, <1>4, <1>5, PackingPack, PackingSends DEF UpNext

LEMMA PackingStep ==
  ASSUME TypesInv, Packing, [Next]_vars
  PROVE  Packing'
<1> USE DEF TypesInv
<1>1. CASE DownNext /\ UNCHANGED upVars
  <2>1. req'.way = "down"
    BY <1>1, DownRequest DEF Control, Ways
  <2> QED
    BY <2>1 DEF Packing
<1>2. CASE UpNext
  BY <1>2, PackingUp
<1>3. CASE Handover
  <2>1. req'.way = "down"
    BY <1>3 DEF Handover, Control, Ways
  <2> QED
    BY <2>1 DEF Packing
<1>4. CASE UNCHANGED vars
  <2>1. /\ at' = at /\ listing' = listing /\ pack' = pack /\ sent' = sent /\ out' = out
        /\ told' = told /\ offset' = offset /\ exhausted' = exhausted /\ req' = req
    BY <1>4 DEF vars, commonVars, upVars, packVars, readVars
  <2>2. CASE req.way = "up"
    BY <2>1, <2>2, PackingKept
  <2>3. CASE req.way # "up"
    BY <2>1, <2>3 DEF Packing
  <2> QED
    BY <2>2, <2>3
<1> QED
  BY <1>1, <1>2, <1>3, <1>4 DEF Next, Rest

\* What the server has of an upload of a directory is an archive, or its beginning.
LEMMA HandoverOffers ==
  ASSUME TypesInv, Packing, Handover
  PROVE  Offer(content', "tar")
<1> USE DEF TypesInv
<1>1. /\ Stored \in Seq(Cell) /\ Len(Stored) = announced /\ announced <= Len(sent)
      /\ \A k \in 1 .. announced : Stored[k] = sent[k]
  BY HandedOver DEF DownTypes
<1>2. content'.entries = listing /\ content'.cells = Stored /\ content'.files = Unpacked(listing)
  BY DEF Handover
<1>3. told /\ req.way = "up" /\ IsTar
  BY DEF Handover, Control, Answers
<1>4. sent = Archived(listing) /\ \A i \in DOMAIN listing : listing[i].kind = "file"
  BY <1>3 DEF Packing
<1>5. DOMAIN Stored = 1 .. announced
  BY <1>1, LenProperties
<1> QED
  BY <1>1, <1>2, <1>4, <1>5 DEF Offer

(***************************************************************************)
(* What an archive has in a place, and what of its files is complete.      *)
(***************************************************************************)
OfferedArchive == IsContent(content) /\ Offer(content, "tar")

\* What is offered where an entry has its header and its data.
LEMMA CellsAre ==
  ASSUME OfferedArchive, NEW i \in 1 .. Len(content.entries)
  PROVE  LET s == Start(content.entries, i - 1) IN
         /\ \A k \in 1 .. Block : s + k \in DOMAIN content.cells =>
              content.cells[s + k] \in {<<"header", i, k>>, Junk}
         /\ \A k \in 1 .. content.entries[i].size : s + Block + k \in DOMAIN content.cells =>
              content.cells[s + Block + k] = <<"data", i, k>>
<1> DEFINE l == content.entries
           c == content.cells
           a == Archived(l)
           s == Start(l, i - 1)
           w == l[i].size
<1>1. l \in Seq(Entry) /\ Len(l) \in Nat
  BY LenProperties DEF OfferedArchive, IsContent
<1>2. \A k \in DOMAIN c \cap DOMAIN a : c[k] = a[k] \/ (c[k] = Junk /\ a[k][1] # "data")
  BY DEF OfferedArchive, Offer
<1>3. /\ Start(l, i) <= Start(l, Len(l))
      /\ \A k \in 1 .. Block : a[s + k] = <<"header", i, k>>
      /\ \A k \in 1 .. w : a[s + Block + k] = <<"data", i, k>>
  BY <1>1, Layout
<1>4. DOMAIN a = 1 .. Start(l, Len(l)) + Trailer /\ Trailer \in Nat
  BY <1>1, ArchivedIs
<1>5. /\ s \in Nat /\ Start(l, Len(l)) \in Nat /\ w \in Nat /\ Padding(w) \in Nat /\ Block \in Nat
      /\ Start(l, i) = s + Block + w + Padding(w)
  <2>1. i - 1 \in 0 .. Len(l) /\ Len(l) \in 0 .. Len(l)
    BY <1>1
  <2> QED
    BY <1>1, <2>1, Starts, PiecesAreSeqs, HeaderIsSeq
<1> HIDE DEF l, c, a, s, w
<1>6. ASSUME NEW k \in 1 .. Block, s + k \in DOMAIN c PROVE c[s + k] \in {<<"header", i, k>>, Junk}
  <2>1. s + k \in DOMAIN a
    BY <1>3, <1>4, <1>5
  <2> QED
    BY <1>2, <1>3, <1>6, <2>1
<1>7. ASSUME NEW k \in 1 .. w, s + Block + k \in DOMAIN c PROVE c[s + Block + k] = <<"data", i, k>>
  <2>1. s + Block + k \in DOMAIN a
    BY <1>3, <1>4, <1>5
  <2>2. a[s + Block + k] = <<"data", i, k>>
    BY <1>3
  <2>3. a[s + Block + k][1] = "data"
    BY <2>2
  <2> QED
    BY <1>2, <1>7, <2>1, <2>2, <2>3
<1> QED
  BY <1>6, <1>7 DEF l, c, s, w

\* What is offered behind the last entry.
LEMMA TrailerIs ==
  ASSUME OfferedArchive
  PROVE  LET s == Start(content.entries, Len(content.entries)) IN
         s + 1 \in DOMAIN content.cells => content.cells[s + 1] \in {Zero, Junk}
<1> DEFINE l == content.entries
           c == content.cells
           a == Archived(l)
           s == Start(l, Len(l))
<1>1. l \in Seq(Entry) /\ Len(l) \in Nat
  BY LenProperties DEF OfferedArchive, IsContent
<1>2. \A k \in DOMAIN c \cap DOMAIN a : c[k] = a[k] \/ (c[k] = Junk /\ a[k][1] # "data")
  BY DEF OfferedArchive, Offer
<1>3. /\ DOMAIN a = 1 .. s + Trailer /\ Trailer \in Nat /\ Trailer > 0
      /\ \A k \in 1 .. Trailer : a[s + k] = Zero
  BY <1>1, ArchivedIs
<1>4. s \in Nat
  BY <1>1, Starts
<1> HIDE DEF l, c, a, s
<1>5. s + 1 \in DOMAIN a /\ a[s + 1] = Zero
  BY <1>3, <1>4
<1>6. s + 1 \in DOMAIN c => c[s + 1] \in {Zero, Junk}
  BY <1>2, <1>5
<1> QED
  BY <1>6 DEF l, c, s

\* The first entry of a name is the file.
LEMMA FirstIsFile ==
  ASSUME NEW l \in Seq(Entry), NEW n \in Names
  PROVE  /\ (\A i \in DOMAIN l : ~(l[i].kind = "file" /\ l[i].name = n)) => Unpacked(l)[n] = Absent
         /\ (\E i \in DOMAIN l : l[i].kind = "file" /\ l[i].name = n) => Unpacked(l)[n] # Absent
         /\ \A i \in DOMAIN l :
              /\ l[i].kind = "file" /\ l[i].name = n
              /\ \A j \in DOMAIN l : j < i => ~(l[j].kind = "file" /\ l[j].name = n)
              => Unpacked(l)[n] = DataOf(i, l[i].size)
<1> DEFINE own == {i \in DOMAIN l : l[i].kind = "file" /\ l[i].name = n}
           first == CHOOSE i \in own : \A j \in own : i <= j
<1>0. DOMAIN l = 1 .. Len(l) /\ Len(l) \in Nat /\ own \subseteq Nat
  BY LenProperties
<1>1. CASE own = {}
  BY <1>1 DEF Unpacked
<1>2. CASE own # {}
  <2>1. first \in own /\ \A j \in own : first <= j
    <3> HIDE DEF own
    <3> QED
      BY <1>0, <1>2, FirstOfMany
  <2>2. Unpacked(l)[n] = DataOf(first, l[first].size)
    BY <1>2 DEF Unpacked
  <2>3. first \in Nat /\ first \in 1 .. Len(l)
    BY <1>0, <2>1
  <2> HIDE DEF first
  <2>4. l[first].size \in Nat
    BY <2>3, PiecesAreSeqs
  <2>5. DataOf(first, l[first].size) # Absent
    BY <2>3, <2>4, DataIsSeq, AbsentAssumption DEF AbsentAssumption
  <2>6. ASSUME NEW i \in DOMAIN l, l[i].kind = "file", l[i].name = n,
               \A j \in DOMAIN l : j < i => ~(l[j].kind = "file" /\ l[j].name = n)
        PROVE  i = first
    <3>1. i \in own /\ first <= i /\ ~(first < i)
      BY <2>1, <2>6
    <3> QED
      BY <1>0, <2>3, <3>1
  <2> QED
    BY <1>2, <2>2, <2>5, <2>6
<1> QED
  BY <1>1, <1>2

\* The files whose first entry is among the first i.
Whole(c, i) ==
  [n \in Names |->
    IF \E j \in DOMAIN c.entries : j <= i /\ c.entries[j].kind = "file" /\ c.entries[j].name = n
    THEN c.files[n] ELSE Absent]
Complete(i) == Whole(content, i)

\* The files are complete one after another.
LEMMA CompleteIs ==
  ASSUME OfferedArchive
  PROVE  /\ Complete(0) = Nothing /\ Complete(Len(content.entries)) = content.files
         /\ \A i \in 1 .. Len(content.entries) : ~Regular(i) => Complete(i) = Complete(i - 1)
         /\ \A i \in 1 .. Len(content.entries) :
              Regular(i) /\ Complete(i - 1)[FileName(i)] = Absent =>
                /\ content.files[FileName(i)] = DataOf(i, content.entries[i].size)
                /\ Complete(i) = [Complete(i - 1) EXCEPT ![FileName(i)] = content.files[FileName(i)]]
<1> DEFINE l == content.entries
<1>1. l \in Seq(Entry) /\ Len(l) \in Nat /\ DOMAIN l = 1 .. Len(l)
  BY LenProperties DEF OfferedArchive, IsContent
<1>2. content.files = Unpacked(l)
  BY DEF OfferedArchive, Offer
<1>3. Complete(0) = Nothing
  BY <1>1 DEF Complete, Whole, Regular, FileName, Nothing
<1>4. Complete(Len(l)) = content.files
  <2>1. ASSUME NEW n \in Names PROVE Complete(Len(l))[n] = Unpacked(l)[n]
    <3>1. CASE \E i \in DOMAIN l : l[i].kind = "file" /\ l[i].name = n
      <4>1. \E i \in DOMAIN l : i <= Len(l) /\ Regular(i) /\ FileName(i) = n
        BY <1>1, <3>1 DEF Regular, FileName
      <4> QED
        BY <1>2, <4>1 DEF Complete, Whole, Regular, FileName
    <3>2. CASE ~\E i \in DOMAIN l : l[i].kind = "file" /\ l[i].name = n
      <4>1. Unpacked(l)[n] = Absent
        BY <1>1, <3>2, FirstIsFile
      <4>2. ~\E i \in DOMAIN l : i <= Len(l) /\ Regular(i) /\ FileName(i) = n
        BY <3>2 DEF Regular, FileName
      <4> QED
        BY <4>1, <4>2 DEF Complete, Whole, Regular, FileName
    <3> QED
      BY <3>1, <3>2
  <2>2. Unpacked(l) = [n \in Names |-> Unpacked(l)[n]]
    BY DEF Unpacked
  <2>3. Complete(Len(l)) = [n \in Names |-> Complete(Len(l))[n]]
    BY DEF Complete, Whole, Regular, FileName
  <2> QED
    BY <1>2, <2>1, <2>2, <2>3
<1>5. ASSUME NEW i \in 1 .. Len(l), ~Regular(i) PROVE Complete(i) = Complete(i - 1)
  <2>1. \A n \in Names : (\E j \in DOMAIN l : j <= i /\ Regular(j) /\ FileName(j) = n)
                         <=> (\E j \in DOMAIN l : j <= i - 1 /\ Regular(j) /\ FileName(j) = n)
    <3>1. \A j \in DOMAIN l : j # i => (j <= i <=> j <= i - 1)
      BY <1>1
    <3> QED
      BY <1>1, <1>5, <3>1
  <2> QED
    BY <2>1 DEF Complete, Whole, Regular, FileName
<1>6. ASSUME NEW i \in 1 .. Len(l), Regular(i), Complete(i - 1)[FileName(i)] = Absent
      PROVE  /\ content.files[FileName(i)] = DataOf(i, l[i].size)
             /\ Complete(i) = [Complete(i - 1) EXCEPT ![FileName(i)] = content.files[FileName(i)]]
  <2> DEFINE m == FileName(i)
  <2>1. m \in Names
    BY <1>1, PiecesAreSeqs DEF FileName, Entry
  <2>2. \A j \in DOMAIN l : j < i => ~(Regular(j) /\ FileName(j) = m)
    <3> SUFFICES ASSUME NEW j \in DOMAIN l, j < i, Regular(j), FileName(j) = m PROVE FALSE
      OBVIOUS
    <3>1. j <= i - 1
      BY <1>1
    <3>2. Complete(i - 1)[m] = content.files[m]
      BY <2>1, <3>1 DEF Complete, Whole, Regular, FileName
    <3>3. Unpacked(l)[m] # Absent
      BY <1>1, <2>1, FirstIsFile DEF Regular, FileName
    <3> QED
      BY <1>2, <1>6, <3>2, <3>3
  <2>3. content.files[m] = DataOf(i, l[i].size)
    BY <1>1, <1>2, <1>6, <2>1, <2>2, FirstIsFile, SMTT(40) DEF Regular, FileName
  <2> HIDE DEF m
  <2>4. ASSUME NEW n \in Names PROVE Complete(i)[n] = IF n = m THEN content.files[m] ELSE Complete(i - 1)[n]
    <3>1. \A j \in DOMAIN l : j # i => (j <= i <=> j <= i - 1)
      BY <1>1
    <3>2. CASE n = m
      <4>1. \E j \in DOMAIN l : j <= i /\ Regular(j) /\ FileName(j) = n
        BY <1>1, <1>6, <3>2 DEF m
      <4> QED
        BY <3>2, <4>1 DEF Complete, Whole, Regular, FileName
    <3>3. CASE n # m
      <4>1. (\E j \in DOMAIN l : j <= i /\ Regular(j) /\ FileName(j) = n)
            <=> (\E j \in DOMAIN l : j <= i - 1 /\ Regular(j) /\ FileName(j) = n)
        <5>1. ~(i <= i - 1)
          BY <1>1
        <5> QED
          BY <3>1, <3>3, <5>1 DEF m
      <4> QED
        BY <3>3, <4>1 DEF Complete, Whole, Regular, FileName
    <3> QED
      BY <3>2, <3>3
  <2>5. Complete(i) = [n \in Names |-> Complete(i)[n]] /\ Complete(i - 1) = [n \in Names |-> Complete(i - 1)[n]]
    BY DEF Complete, Whole, Regular, FileName
  <2>6. Complete(i) = [Complete(i - 1) EXCEPT ![m] = content.files[m]]
    BY <2>1, <2>4, <2>5
  <2> QED
    BY <2>3, <2>6 DEF m
<1> QED
  BY <1>3, <1>4, <1>5, <1>6

\* A sequence that agrees with the beginning of another one.
LEMMA PrefixIs ==
  ASSUME NEW S, NEW s \in Seq(S), NEW t \in Seq(S), Len(s) <= Len(t),
         \A k \in 1 .. Len(s) : s[k] = t[k]
  PROVE  IsPrefix(s, t)
<1> DEFINE n == Len(s)
           a == SubSeq(s, 1, n)
           b == SubSeq(t, 1, n)
<1>1. n \in Nat /\ Len(t) \in Nat /\ (\A k \in 1 .. n : s[k] \in S) /\ \A k \in 1 .. Len(t) : t[k] \in S
  BY LenProperties, ElementOfSeq
<1>2. \A k \in 1 .. n : t[k] \in S
  BY <1>1
<1>3. /\ a \in Seq(S) /\ Len(a) = n /\ \A k \in 1 .. n : a[k] = s[k]
  BY <1>1, SubSeqProperties
<1>4. /\ b \in Seq(S) /\ Len(b) = n /\ \A k \in 1 .. n : b[k] = t[k]
  BY <1>1, <1>2, SubSeqProperties
<1> HIDE DEF a, b
<1>5. a = b
  BY <1>3, <1>4, SeqEqual
<1> QED
  BY <1>5 DEF a, b, IsPrefix

(***************************************************************************)
(* How far a download is: the bytes that the reader has taken, and what of *)
(* the files it has written from them.                                     *)
(***************************************************************************)
Untouched == {"asked", "init", "data", "digest", "request"}
Fetching  == {"init", "data", "digest", "request", "http", "chunk", "got", "complete"}
Place     == got - Len(chunk)
EntryStart(i) == Start(content.entries, i)

\* The chunk is the part of the content behind what was read.
Fed == Len(chunk) <= got /\ \A k \in 1 .. Len(chunk) : chunk[k] = content.cells[Place + k]

InHeader ==
  tar.state \in {"none", "header"} =>
    /\ Place = EntryStart(tar.of) + Len(tar.header)
    /\ \A k \in 1 .. Len(tar.header) : tar.header[k] = content.cells[EntryStart(tar.of) + k]
    /\ disk = Complete(tar.of)

InData ==
  tar.state = "data" =>
    /\ tar.of # 0 /\ Place = EntryStart(tar.of - 1) + Block + tar.file
    /\ ~Regular(tar.of) => disk = Complete(tar.of - 1)
    /\ Regular(tar.of) =>
         /\ open = FileName(tar.of) /\ Complete(tar.of - 1)[open] = Absent
         /\ disk = [Complete(tar.of - 1) EXCEPT ![open] = DataOf(tar.of, tar.file)]

InPadding ==
  tar.state = "padding" =>
    /\ tar.of # 0 /\ Place = EntryStart(tar.of - 1) + Block + FileSize + tar.padding
    /\ disk = Complete(tar.of)

TarRead ==
  /\ tar.of \in 0 .. Len(content.entries)
  /\ InHeader /\ InData /\ InPadding
  /\ tar.state = "trailer" => tar.of = Len(content.entries) /\ disk = Complete(tar.of)
  /\ tar.trailer > 0 => tar.state = "trailer"
  /\ open # Absent => \E j \in 1 .. tar.of : Regular(j)
  /\ at = "got" => tar.trailer = Trailer

PlainRead ==
  /\ tar = TarNone
  /\ open = FileName(1) /\ \A n \in Names : n # open => disk[n] = Absent
  /\ Len(disk[open]) + Len(held) + Len(chunk) = got
  /\ \A k \in 1 .. Len(disk[open]) : disk[open][k] = content.cells[k]
  /\ \A k \in 1 .. Len(held) : held[k] = content.cells[Len(disk[open]) + k]
  /\ req.encoding = "none" \/ (at # "chunk" /\ got = Len(content.cells)) => held = <<>>

Reader ==
  /\ req.way = "up" => held = <<>>
  /\ req.way = "down" =>
       /\ Offer(content, req.encoding)
       /\ at \in Untouched => got = 0 /\ chunk = <<>> /\ held = <<>> /\ tar = TarNone
       /\ at \in Fetching =>
            /\ req.encoding \in {"none", "lz4", "tar"}
            /\ Fed
            /\ at # "chunk" => chunk = <<>>
            /\ Tar => TarRead
            /\ ~Tar /\ at # "init" => PlainRead
       /\ at = "complete" \/ told => disk = content.files

\* What is known when a reader of an archive works on a chunk.
Unpacking == Streamed /\ Tarred /\ Control /\ Reader /\ at = "chunk" /\ Tar /\ req.way = "down"

LEMMA UnpackingIs ==
  ASSUME Unpacking
  PROVE  /\ OfferedArchive /\ content.entries \in Seq(Entry) /\ Len(content.entries) \in Nat
         /\ DOMAIN content.entries = 1 .. Len(content.entries)
         /\ content.cells \in Seq(Cell) /\ Len(content.cells) \in Nat
         /\ DOMAIN content.cells = 1 .. Len(content.cells)
         /\ got \in Nat /\ got <= Len(content.cells) /\ Len(chunk) \in Nat /\ chunk \in Seq(Cell)
         /\ Fed /\ TarRead /\ tar \in TarRecord /\ ~told
         /\ Place \in Nat /\ Place + Len(chunk) <= Len(content.cells)
         /\ Block \in Nat /\ Block > 1
         /\ \A i \in 0 .. Len(content.entries) : EntryStart(i) \in Nat
<1>1. IsContent(content) /\ Offer(content, "tar")
  BY DEF Unpacking, Streamed, Reader, Tar
<1>2. /\ content.entries \in Seq(Entry) /\ Len(content.entries) \in Nat
      /\ DOMAIN content.entries = 1 .. Len(content.entries)
      /\ content.cells \in Seq(Cell) /\ Len(content.cells) \in Nat
      /\ DOMAIN content.cells = 1 .. Len(content.cells)
  BY <1>1, LenProperties DEF IsContent
<1>3. got \in Nat /\ got <= Len(content.cells) /\ chunk \in Seq(Cell) /\ Len(chunk) \in Nat
  BY <1>2, LenProperties DEF Unpacking, Streamed
<1>4. Fed /\ TarRead /\ tar \in TarRecord /\ ~told
  BY DEF Unpacking, Reader, Fetching, Tarred, Control, Answers, Late
<1>5. Place \in Nat /\ Place + Len(chunk) <= Len(content.cells)
  BY <1>2, <1>3, <1>4 DEF Fed, Place
<1>6. \A i \in 0 .. Len(content.entries) : EntryStart(i) \in Nat
  BY <1>2, Starts DEF EntryStart
<1>7. Block \in Nat /\ Block > 1
  BY TransferAssumption DEF TransferAssumption
<1> QED
  BY <1>1, <1>2, <1>3, <1>4, <1>5, <1>6, <1>7 DEF OfferedArchive

\* A part of the chunk is taken.
LEMMA TakenFromChunk ==
  ASSUME Unpacking, NEW n \in 0 .. Len(chunk), chunk' = After(n), got' = got, content' = content
  PROVE  Fed' /\ Place' = Place + n
<1>1. got \in Nat /\ Len(chunk) \in Nat /\ chunk \in Seq(Cell) /\ Fed
  BY UnpackingIs
<1>2. Len(After(n)) = Len(chunk) - n /\ \A k \in 1 .. Len(chunk) - n : After(n)[k] = chunk[n + k]
  BY <1>1, Cuts
<1>3. Place' = Place + n
  BY <1>1, <1>2 DEF Place
<1>4. ASSUME NEW k \in 1 .. Len(chunk) - n PROVE After(n)[k] = content.cells[Place + n + k]
  <2>1. n + k \in 1 .. Len(chunk) /\ Place + (n + k) = Place + n + k
    BY <1>1 DEF Place
  <2> QED
    BY <1>1, <1>2, <2>1 DEF Fed
<1> QED
  BY <1>1, <1>2, <1>3, <1>4 DEF Fed

\* The reader goes on with the chunk.
LEMMA ReaderReads ==
  ASSUME Unpacking, req' = req, content' = content, at' = "chunk", told' = told, Fed', TarRead'
  PROVE  Reader'
BY UnpackingIs DEF Unpacking, Reader, Untouched, Fetching, Tar

\* The header is what the content has there.
LEMMA HeaderFromContent ==
  ASSUME Unpacking, tar.state = "header"
  PROVE  /\ HeaderTake \in 0 .. Len(chunk) /\ HeaderRead \in Seq(Cell)
         /\ Place + HeaderTake = EntryStart(tar.of) + Len(HeaderRead)
         /\ \A k \in 1 .. Len(HeaderRead) : HeaderRead[k] = content.cells[EntryStart(tar.of) + k]
         /\ EntryStart(tar.of) + Len(HeaderRead) <= Len(content.cells)
<1> DEFINE h == Len(tar.header)
           s == EntryStart(tar.of)
<1>1. /\ HeaderTake \in 0 .. Len(chunk)
      /\ HeaderRead \in Seq(Cell) /\ Len(HeaderRead) = h + HeaderTake /\ h \in Nat
      /\ \A k \in 1 .. Len(HeaderRead) : HeaderRead[k] = IF k <= h THEN tar.header[k] ELSE chunk[k - h]
  BY HeaderReads DEF Unpacking
<1>2. /\ Place = s + h /\ (\A k \in 1 .. h : tar.header[k] = content.cells[s + k])
      /\ \A k \in 1 .. Len(chunk) : chunk[k] = content.cells[Place + k]
      /\ s \in Nat /\ Len(chunk) \in Nat /\ Place + Len(chunk) <= Len(content.cells) /\ Len(content.cells) \in Nat
  BY UnpackingIs DEF TarRead, InHeader, Fed
<1> HIDE DEF h, s
<1>3. ASSUME NEW k \in 1 .. Len(HeaderRead) PROVE HeaderRead[k] = content.cells[s + k]
  <2>1. CASE k <= h
    <3>1. k \in 1 .. h
      BY <1>1, <2>1
    <3>2. HeaderRead[k] = tar.header[k]
      BY <1>1, <2>1
    <3> QED
      BY <1>2, <3>1, <3>2
  <2>2. CASE ~(k <= h)
    <3>1. k - h \in 1 .. Len(chunk) /\ Place + (k - h) = s + k
      BY <1>1, <1>2, <2>2
    <3> QED
      BY <1>1, <1>2, <2>2, <3>1
  <2> QED
    BY <2>1, <2>2
<1>4. Place + HeaderTake = s + Len(HeaderRead) /\ s + Len(HeaderRead) <= Len(content.cells)
  BY <1>1, <1>2
<1> QED
  BY <1>1, <1>3, <1>4 DEF s

\* How a header begins.
LEMMA HeaderBegins ==
  ASSUME Unpacking, NEW i \in DOMAIN content.entries, HeaderIs(i)
  PROVE  HeaderRead[1] = <<"header", i, 1>>
<1>1. i \in Nat /\ 1 \in 1 .. Block
  BY UnpackingIs
<1>2. HeaderRead = HeaderOf(i)
  BY DEF HeaderIs
<1> QED
  BY <1>1, <1>2, HeaderIsSeq

\* A valid header is the one of the next entry, and a block of zeros the trailer.
LEMMA HeaderIsNext ==
  ASSUME Unpacking, tar.state = "header", HeaderFull
  PROVE  /\ \A i \in DOMAIN content.entries : HeaderIs(i) => i = tar.of + 1
         /\ AllZero(HeaderRead) => tar.of = Len(content.entries)
<1> DEFINE n == Len(content.entries)
           s == EntryStart(tar.of)
           c == content.cells
<1>1. HeaderRead[1] = c[s + 1] /\ s + 1 \in DOMAIN c /\ 1 \in DOMAIN HeaderRead
  <2>1. /\ Len(HeaderRead) = Block /\ Block > 1 /\ Block \in Nat /\ HeaderRead \in Seq(Cell)
        /\ \A k \in 1 .. Len(HeaderRead) : HeaderRead[k] = c[s + k]
        /\ s + Len(HeaderRead) <= Len(c) /\ s \in Nat /\ DOMAIN c = 1 .. Len(c) /\ Len(c) \in Nat
    BY HeaderFromContent, UnpackingIs DEF HeaderFull, TarRead
  <2>2. DOMAIN HeaderRead = 1 .. Len(HeaderRead)
    BY <2>1, LenProperties
  <2> HIDE DEF s, c
  <2> QED
    BY <2>1, <2>2
<1>2. CASE tar.of = n
  <2>1. HeaderRead[1] \in {Zero, Junk}
    BY <1>1, <1>2, TrailerIs, UnpackingIs DEF EntryStart
  <2>2. ASSUME NEW i \in DOMAIN content.entries, HeaderIs(i) PROVE FALSE
    <3>1. HeaderRead[1] = <<"header", i, 1>>
      BY <2>2, HeaderBegins
    <3> QED
      BY <2>1, <3>1 DEF Zero, Junk
  <2> QED
    BY <1>2, <2>2
<1>3. CASE tar.of # n
  <2>1. tar.of + 1 \in 1 .. n /\ tar.of + 1 - 1 = tar.of
    BY <1>3, UnpackingIs DEF TarRead
  <2>2. HeaderRead[1] \in {<<"header", tar.of + 1, 1>>, Junk}
    <3> DEFINE m == tar.of + 1
    <3>0. m - 1 = tar.of
      <4>1. tar.of \in Nat
        BY UnpackingIs DEF TarRead
      <4> HIDE DEF n
      <4> QED
        BY <4>1
    <3>1. m \in 1 .. n /\ EntryStart(m - 1) = s
      BY <2>1, <3>0
    <3>2. 1 \in 1 .. Block
      BY UnpackingIs
    <3> HIDE DEF m
    <3>3. c[EntryStart(m - 1) + 1] \in {<<"header", m, 1>>, Junk}
      BY <1>1, <3>1, <3>2, CellsAre, UnpackingIs DEF EntryStart
    <3> QED
      BY <1>1, <3>1, <3>3 DEF m
  <2>3. ASSUME NEW i \in DOMAIN content.entries, HeaderIs(i) PROVE i = tar.of + 1
    <3>1. HeaderRead[1] = <<"header", i, 1>>
      BY <2>3, HeaderBegins
    <3> QED
      BY <2>2, <3>1 DEF Junk
  <2>4. ASSUME AllZero(HeaderRead) PROVE FALSE
    <3>1. HeaderRead[1] = Zero
      BY <1>1, <2>4 DEF AllZero
    <3> QED
      BY <2>2, <3>1 DEF Zero, Junk
  <2> QED
    BY <2>3, <2>4
<1> QED
  BY <1>2, <1>3

\* What the reader needs of the step of a header, whatever it makes of it.
LEMMA HeaderStep ==
  ASSUME Unpacking, tar.state = "header", NEW next, ReadHeader(next)
  PROVE  /\ tar' = next /\ UNCHANGED <<req, content, got, told, held>> /\ at' = "chunk"
         /\ Fed' /\ Place' = EntryStart(tar.of) + Len(HeaderRead)
<1>1. tar' = next /\ chunk' = After(HeaderTake) /\ UNCHANGED <<req, content, got, told, held>> /\ at' = "chunk"
  BY DEF ReadHeader, Proceed, Goto, TarRest
<1>2. HeaderTake \in 0 .. Len(chunk) /\ Place + HeaderTake = EntryStart(tar.of) + Len(HeaderRead)
  BY HeaderFromContent
<1> QED
  BY <1>1, <1>2, TakenFromChunk

\* A header in part, and the block of zeros.
LEMMA ReadsHeaderPart == ASSUME Unpacking, HeaderPart PROVE Reader'
<1> DEFINE r == HeaderRead
           t == [tar EXCEPT !.header = r]
<1>0. tar.state = "header" /\ ReadHeader(t) /\ disk' = disk /\ open' = open
  BY DEF HeaderPart, InTar
<1>1. /\ tar' = t /\ UNCHANGED <<req, content, got, told, held>> /\ at' = "chunk"
      /\ Fed' /\ Place' = EntryStart(tar.of) + Len(r)
  BY <1>0, HeaderStep
<1>2. tar \in TarRecord /\ TarRead
  BY UnpackingIs
<1>3. t.state = "header" /\ t.of = tar.of /\ t.header = r /\ t.trailer = tar.trailer
  BY <1>0, <1>2 DEF TarRecord
<1>4. \A k \in 1 .. Len(r) : r[k] = content.cells[EntryStart(tar.of) + k]
  BY <1>0, HeaderFromContent
<1> HIDE DEF r, t
<1>5. TarRead'
  BY <1>0, <1>1, <1>2, <1>3, <1>4
     DEF TarRead, InHeader, InData, InPadding, EntryStart, Complete, Regular
<1> QED
  BY <1>1, <1>5, ReaderReads

LEMMA ReadsZeros == ASSUME Unpacking, HeaderOfZeros PROVE Reader'
<1> DEFINE r == HeaderRead
           t == [tar EXCEPT !.state = "trailer", !.header = r, !.trailer = Block]
<1>0. tar.state = "header" /\ HeaderFull /\ AllZero(r) /\ ReadHeader(t) /\ disk' = disk /\ open' = open
  BY DEF HeaderOfZeros, InTar
<1>1. tar' = t /\ UNCHANGED <<req, content, got, told, held>> /\ at' = "chunk" /\ Fed'
  BY <1>0, HeaderStep
<1>2. tar \in TarRecord /\ TarRead
  BY UnpackingIs
<1>3. t.state = "trailer" /\ t.of = tar.of
  BY <1>2, <1>0, HeaderFromContent, ZerosEnd
<1>4. tar.of = Len(content.entries)
  BY <1>0, HeaderIsNext
<1> HIDE DEF r, t
<1>5. TarRead'
  BY <1>0, <1>1, <1>2, <1>3, <1>4
     DEF TarRead, InHeader, InData, InPadding, Complete, Regular
<1> QED
  BY <1>1, <1>5, ReaderReads

\* A header of a file begins its data.
LEMMA ReadsNextHeader ==
  ASSUME Unpacking, NEW i \in DOMAIN content.entries, tar.state = "header", HeaderFull, HeaderIs(i),
         ReadHeader(StartData(i))
  PROVE  /\ i = tar.of + 1 /\ i \in 1 .. Len(content.entries) /\ disk = Complete(i - 1)
         /\ UNCHANGED <<req, content, got, told, held>> /\ at' = "chunk" /\ Fed'
         /\ tar'.state = "data" /\ tar'.of = i /\ tar'.file = 0 /\ tar'.trailer = tar.trailer
         /\ Place' = EntryStart(i - 1) + Block + 0
<1>1. tar \in TarRecord /\ TarRead /\ Block \in Nat /\ DOMAIN content.entries = 1 .. Len(content.entries)
      /\ Len(content.entries) \in Nat
  BY UnpackingIs
<1>2. i = tar.of + 1
  BY HeaderIsNext
<1>3. i - 1 = tar.of /\ tar.of \in Nat /\ i \in Nat
  BY <1>1, <1>2 DEF TarRead
<1>4. disk = Complete(tar.of)
  BY <1>1 DEF TarRead, InHeader
<1>5. /\ tar' = StartData(i) /\ UNCHANGED <<req, content, got, told, held>> /\ at' = "chunk"
      /\ Fed' /\ Place' = EntryStart(tar.of) + Len(HeaderRead)
  BY HeaderStep
<1>6. /\ StartData(i).state = "data" /\ StartData(i).of = i /\ StartData(i).file = 0
      /\ StartData(i).trailer = tar.trailer
  BY <1>1, <1>3, HeaderFromContent, DataStarts
<1>7. EntryStart(tar.of) \in Nat
  BY UnpackingIs, <1>1 DEF TarRead
<1>8. Place' = EntryStart(i - 1) + Block + 0
  BY <1>1, <1>3, <1>5, <1>7 DEF HeaderFull
<1> QED
  BY <1>1, <1>2, <1>3, <1>4, <1>5, <1>6, <1>8

\* An entry without a file, and one that is a file.
LEMMA ReadsSkipped ==
  ASSUME Unpacking, NEW i \in DOMAIN content.entries, HeaderSkipped(i)
  PROVE  Reader'
<1>0. /\ tar.state = "header" /\ HeaderFull /\ HeaderIs(i) /\ ~Regular(i) /\ ReadHeader(StartData(i))
      /\ disk' = disk /\ open' = open
  BY DEF HeaderSkipped, InTar
<1>1. /\ i = tar.of + 1 /\ i \in 1 .. Len(content.entries) /\ disk = Complete(i - 1)
      /\ UNCHANGED <<req, content, got, told, held>> /\ at' = "chunk" /\ Fed'
      /\ tar'.state = "data" /\ tar'.of = i /\ tar'.file = 0 /\ tar'.trailer = tar.trailer
      /\ Place' = EntryStart(i - 1) + Block + 0
  BY <1>0, ReadsNextHeader
<1>2. TarRead
  BY UnpackingIs
<1>3. tar.of \in Nat
  BY <1>2 DEF TarRead
<1>4. open' # Absent => \E j \in 1 .. i : Regular(j)
  <2> SUFFICES ASSUME open # Absent PROVE \E j \in 1 .. i : Regular(j)
    BY <1>0
  <2>1. PICK j \in 1 .. tar.of : Regular(j)
    BY <1>2 DEF TarRead
  <2> QED
    BY <1>1, <1>3, <2>1
<1>5. TarRead'
  BY <1>0, <1>1, <1>2, <1>4 DEF TarRead, InHeader, InData, InPadding, EntryStart, Complete, Regular
<1> QED
  BY <1>1, <1>5, ReaderReads

LEMMA ReadsOpened ==
  ASSUME Unpacking, NEW i \in DOMAIN content.entries, HeaderOpens(i)
  PROVE  Reader'
<1>0. /\ tar.state = "header" /\ HeaderFull /\ HeaderIs(i) /\ Regular(i) /\ ReadHeader(StartData(i))
      /\ disk[FileName(i)] = Absent
      /\ open' = FileName(i) /\ disk' = [disk EXCEPT ![FileName(i)] = <<>>]
  BY DEF HeaderOpens, InTar, EntryOk, FileName
<1>1. /\ i = tar.of + 1 /\ i \in 1 .. Len(content.entries) /\ disk = Complete(i - 1)
      /\ UNCHANGED <<req, content, got, told, held>> /\ at' = "chunk" /\ Fed'
      /\ tar'.state = "data" /\ tar'.of = i /\ tar'.file = 0 /\ tar'.trailer = tar.trailer
      /\ Place' = EntryStart(i - 1) + Block + 0
  BY <1>0, ReadsNextHeader
<1>2. TarRead
  BY UnpackingIs
<1>3. i \in 1 .. i
  BY <1>1
<1>4. DataOf(i, 0) = <<>>
  BY DEF DataOf
<1>5. TarRead'
  BY <1>0, <1>1, <1>2, <1>3, <1>4 DEF TarRead, InHeader, InData, InPadding, EntryStart, Complete, Regular, FileName
<1> QED
  BY <1>1, <1>5, ReaderReads

\* The entry whose data or padding is being read.
LEMMA CurrentEntry ==
  ASSUME Unpacking, tar.state \in {"data", "padding"}
  PROVE  /\ tar.of \in 1 .. Len(content.entries) /\ tar.of \in Nat /\ tar.of - 1 \in 0 .. Len(content.entries)
         /\ content.entries[tar.of] \in Entry /\ FileName(tar.of) \in Names
         /\ FileSize \in Nat /\ Padding(FileSize) \in Nat
         /\ EntryStart(tar.of - 1) \in Nat
         /\ EntryStart(tar.of) = EntryStart(tar.of - 1) + Block + FileSize + Padding(FileSize)
<1>1. /\ tar.of \in 1 .. Len(content.entries) /\ Len(content.entries) \in Nat
      /\ content.entries \in Seq(Entry)
  BY UnpackingIs DEF Unpacking, Tarred
<1>2. content.entries[tar.of] \in Entry
  BY <1>1, ElementOfSeq
<1>3. FileSize \in Nat /\ Padding(FileSize) \in Nat /\ FileName(tar.of) \in Names
  BY <1>2, PaddingIsNat DEF FileSize, FileName, Entry
<1>4. tar.of \in Nat /\ tar.of - 1 \in 0 .. Len(content.entries)
  BY <1>1
<1>5. EntryStart(tar.of - 1) \in Nat
  BY <1>4, UnpackingIs
<1>6. EntryStart(tar.of) = EntryStart(tar.of - 1) + Block + FileSize + Padding(FileSize)
  BY <1>1, Starts DEF EntryStart, FileSize
<1> QED
  BY <1>1, <1>2, <1>3, <1>4, <1>5, <1>6

\* The chunk holds the next bytes of the file.
LEMMA DataGoesOn ==
  ASSUME Unpacking, tar.state = "data", NEW n \in 0 .. Len(chunk), tar.file + n <= FileSize
  PROVE  DataOf(tar.of, tar.file) \o First(n) = DataOf(tar.of, tar.file + n)
<1> DEFINE i == tar.of
           f == tar.file
           s == EntryStart(i - 1)
           a == DataOf(i, f)
           b == First(n)
           d == DataOf(i, f + n)
<1>1. /\ i \in 1 .. Len(content.entries) /\ s \in Nat /\ FileSize = content.entries[i].size /\ FileSize \in Nat
      /\ i \in Nat
  BY CurrentEntry DEF FileSize
<1>2. /\ chunk \in Seq(Cell) /\ Len(chunk) \in Nat /\ Place \in Nat /\ Place = s + Block + f
      /\ Place + Len(chunk) <= Len(content.cells) /\ Len(content.cells) \in Nat
      /\ DOMAIN content.cells = 1 .. Len(content.cells)
      /\ \A k \in 1 .. Len(chunk) : chunk[k] = content.cells[Place + k]
  BY UnpackingIs DEF TarRead, InData, Fed
<1>3. f \in Nat /\ Block \in Nat /\ n \in Nat /\ f + n \in Nat /\ f + n <= FileSize
  BY <1>2, UnpackingIs, SMTT(40) DEF TarRecord
<1>4. /\ a \in Seq(Cell) /\ Len(a) = f /\ \A k \in 1 .. f : a[k] = <<"data", i, k>>
  BY <1>1, <1>3, DataIsSeq
<1>5. /\ d \in Seq(Cell) /\ Len(d) = f + n /\ \A k \in 1 .. f + n : d[k] = <<"data", i, k>>
  <2> DEFINE m == f + n
  <2>1. m \in Nat
    BY <1>3
  <2> HIDE DEF m, i
  <2>2. /\ DataOf(i, m) \in Seq(Cell) /\ Len(DataOf(i, m)) = m
        /\ \A k \in 1 .. m : DataOf(i, m)[k] = <<"data", i, k>>
    BY <1>1, <2>1, DataIsSeq
  <2> QED
    BY <2>2 DEF m, i
<1>6. b \in Seq(Cell) /\ Len(b) = n /\ \A k \in 1 .. n : b[k] = chunk[k]
  BY <1>2, Cuts
<1>7. \A k \in 1 .. content.entries[i].size : s + Block + k \in DOMAIN content.cells =>
        content.cells[s + Block + k] = <<"data", i, k>>
  BY <1>1, CellsAre, UnpackingIs DEF EntryStart
<1> HIDE DEF i, f, s, a, b, d
<1>8. ASSUME NEW k \in 1 .. n PROVE b[k] = <<"data", i, f + k>>
  <2>0. k \in Nat /\ 1 <= k /\ k <= n
    BY ONLY <1>3, k \in 1 .. n
  <2>1. k \in 1 .. Len(chunk) /\ f + k \in 1 .. FileSize /\ Place + k = s + Block + (f + k)
    <3>1. k \in 1 .. Len(chunk)
      BY ONLY n \in 0 .. Len(chunk), <1>2, <2>0
    <3>2. FileSize \in Nat
      BY <1>1
    <3>3. f + k \in 1 .. FileSize
      BY ONLY <1>3, <2>0, <3>2
    <3>4. s \in Nat /\ Place = s + Block + f
      BY <1>1, <1>2
    <3>5. Place + k = s + Block + (f + k)
      BY ONLY <1>3, <2>0, <3>4
    <3> QED
      BY <3>1, <3>3, <3>5
  <2>2. s + Block + (f + k) \in DOMAIN content.cells
    BY <1>1, <1>2, <1>3, <2>1
  <2>3. b[k] = content.cells[s + Block + (f + k)]
    BY <1>2, <1>6, <2>1
  <2> QED
    BY <1>1, <1>7, <2>1, <2>2, <2>3
<1>9. /\ a \o b \in Seq(Cell) /\ Len(a \o b) = Len(a) + Len(b)
      /\ \A k \in 1 .. Len(a) + Len(b) : (a \o b)[k] = IF k <= Len(a) THEN a[k] ELSE b[k - Len(a)]
  BY <1>4, <1>6, ConcatProperties
<1>10. ASSUME NEW k \in 1 .. f + n PROVE (a \o b)[k] = <<"data", i, k>>
  <2>1. (a \o b)[k] = IF k <= f THEN a[k] ELSE b[k - f]
    BY <1>4, <1>6, <1>9
  <2>2. CASE k <= f
    <3>1. k \in 1 .. f
      BY <1>3, <2>2
    <3> QED
      BY <1>4, <2>1, <2>2, <3>1
  <2>3. CASE ~(k <= f)
    <3>1. k - f \in 1 .. n /\ f + (k - f) = k
      BY <1>3, <2>3
    <3>2. b[k - f] = <<"data", i, f + (k - f)>>
      BY <1>8, <3>1
    <3> QED
      BY <2>1, <2>3, <3>1, <3>2
  <2> QED
    BY <2>2, <2>3
<1>11. a \o b = d
  BY <1>3, <1>4, <1>5, <1>6, <1>9, <1>10, SeqEqual
<1> QED
  BY <1>11 DEF a, b, d, i, f

\* One step with the data of a file.
LEMMA DataStep ==
  ASSUME Unpacking, ReadData
  PROVE  /\ tar.state = "data" /\ UNCHANGED <<req, content, got, told, held, open>> /\ at' = "chunk" /\ Fed'
         /\ tar'.of = tar.of /\ tar'.trailer = tar.trailer
         /\ \E n \in 0 .. Len(chunk) :
              /\ Place' = Place + n /\ tar.file + n <= FileSize
              /\ n > 0 => open # Absent /\ disk' = Appended(First(n))
              /\ n = 0 => disk' = disk
              /\ tar.file + n # FileSize => tar'.state = "data" /\ tar'.file = tar.file + n
              /\ tar.file + n = FileSize =>
                   IF Padding(FileSize) = 0 THEN tar'.state = "header" /\ tar'.header = <<>>
                                            ELSE tar'.state = "padding" /\ tar'.padding = 0
<1> DEFINE n == Min2(Len(chunk), FileSize - tar.file)
           read == [tar EXCEPT !.file = tar.file + n]
<1>1. /\ tar.state = "data" /\ UNCHANGED <<req, content, got, told, held, open>> /\ at' = "chunk"
      /\ (n > 0 => open # Absent) /\ disk' = (IF n > 0 THEN Appended(First(n)) ELSE disk)
      /\ chunk' = After(n)
      /\ tar' = IF tar.file + n = FileSize THEN DataEnds(read, FileSize) ELSE read
  BY DEF ReadData, InTar, Proceed, Goto, TarRest
<1>2. /\ tar \in TarRecord /\ Len(chunk) \in Nat /\ FileSize \in Nat /\ tar.file \in Nat /\ tar.file <= FileSize
  BY <1>1, CurrentEntry, UnpackingIs DEF Unpacking, Tarred, TarRecord
<1>3. n \in 0 .. Len(chunk) /\ n \in Nat /\ tar.file + n <= FileSize
  BY <1>2 DEF Min2
<1>4. Fed' /\ Place' = Place + n
  <2> HIDE DEF n
  <2> QED
    BY <1>1, <1>3, TakenFromChunk
<1>5. read \in TarRecord
  <2> DEFINE m == tar.file + n
  <2>1. m \in Nat
    BY <1>2, <1>3
  <2> HIDE DEF m
  <2>2. [tar EXCEPT !.file = m] \in TarRecord
    BY <1>2, <2>1, TarFields
  <2> QED
    BY <2>2 DEF m
<1>6. read.state = "data" /\ read.of = tar.of /\ read.file = tar.file + n /\ read.trailer = tar.trailer
  <2> HIDE DEF n
  <2> QED
    BY <1>1, <1>2 DEF TarRecord
<1> HIDE DEF n, read
<1>7. CASE tar.file + n # FileSize
  <2>1. tar' = read
    BY <1>1, <1>7
  <2> QED
    BY <1>1, <1>3, <1>4, <1>6, <1>7, <2>1
<1>8. CASE tar.file + n = FileSize
  <2>1. tar' = DataEnds(read, FileSize)
    BY <1>1, <1>8
  <2>2. /\ tar'.of = tar.of /\ tar'.trailer = tar.trailer
        /\ IF Padding(FileSize) = 0 THEN tar'.state = "header" /\ tar'.header = <<>>
                                    ELSE tar'.state = "padding" /\ tar'.padding = 0
    BY <1>5, <1>6, <2>1, FileEnds
  <2> QED
    BY <1>1, <1>3, <1>4, <1>8, <2>2
<1> QED
  BY <1>7, <1>8

\* Only a regular file has data; with it the file is complete at its end.
LEMMA DataWritten ==
  ASSUME Unpacking, tar.state = "data", NEW n \in 0 .. Len(chunk), tar.file + n <= FileSize,
         n > 0 => open # Absent /\ disk' = Appended(First(n)), n = 0 => disk' = disk
  PROVE  /\ ~Regular(tar.of) => n = 0 /\ disk' = Complete(tar.of - 1)
         /\ Regular(tar.of) =>
              disk' = [Complete(tar.of - 1) EXCEPT ![open] = DataOf(tar.of, tar.file + n)]
         /\ tar.file + n = FileSize => disk' = Complete(tar.of)
<1> DEFINE i == tar.of
<1>1. /\ i \in 1 .. Len(content.entries) /\ i \in Nat /\ FileSize = content.entries[i].size
      /\ FileSize \in Nat /\ FileName(i) \in Names /\ tar.file \in Nat /\ n \in Nat
      /\ DOMAIN content.entries = 1 .. Len(content.entries) /\ Len(content.entries) \in Nat
  BY CurrentEntry, UnpackingIs, SMTT(40) DEF FileSize, TarRecord
<1>2. TarRead /\ OfferedArchive
  BY UnpackingIs
<1>3. CASE ~Regular(i)
  <2>1. disk = Complete(i - 1) /\ Complete(i) = Complete(i - 1)
    BY <1>1, <1>2, <1>3, CompleteIs DEF TarRead, InData
  <2>2. ASSUME n > 0 PROVE FALSE
    <3>1. PICK j \in 1 .. i : Regular(j)
      BY <1>2, <2>2 DEF TarRead
    <3>2. j < i /\ j \in DOMAIN content.entries
      BY <1>1, <1>3, <3>1
    <3>3. content.entries[i].size = 0
      BY <1>1, <1>2, <1>3, <3>1, <3>2 DEF OfferedArchive, Offer, Regular
    <3> QED
      BY <1>1, <2>2, <3>3
  <2>3. n = 0
    BY <1>1, <2>2
  <2> QED
    BY <1>3, <2>1, <2>3
<1>4. CASE Regular(i)
  <2>1. /\ open = FileName(i) /\ Complete(i - 1)[open] = Absent
        /\ disk = [Complete(i - 1) EXCEPT ![open] = DataOf(i, tar.file)]
    BY <1>2, <1>4 DEF TarRead, InData
  <2>2. disk' = [Complete(i - 1) EXCEPT ![open] = DataOf(i, tar.file + n)]
    <3>1. CASE n = 0
      <4>1. tar.file + n = tar.file
        BY <1>1, <3>1
      <4> QED
        BY <2>1, <3>1, <4>1
    <3>2. CASE n # 0
      <4>1. disk' = [disk EXCEPT ![open] = disk[open] \o First(n)]
        BY <1>1, <3>2 DEF Appended
      <4>2. disk[open] = DataOf(i, tar.file)
        BY <1>1, <2>1 DEF Complete, Whole
      <4>3. DataOf(i, tar.file) \o First(n) = DataOf(i, tar.file + n)
        BY DataGoesOn
      <4> DEFINE x == DataOf(i, tar.file + n)
                 y == DataOf(i, tar.file)
                 w == Complete(i - 1)
      <4>4. disk' = [[w EXCEPT ![open] = y] EXCEPT ![open] = x]
        BY <2>1, <4>1, <4>2, <4>3
      <4> HIDE DEF x, y
      <4>5. [[w EXCEPT ![open] = y] EXCEPT ![open] = x] = [w EXCEPT ![open] = x]
        BY DEF Complete, Whole
      <4> QED
        BY <4>4, <4>5 DEF x
    <3> QED
      BY <3>1, <3>2
  <2>3. ASSUME tar.file + n = FileSize PROVE disk' = Complete(i)
    BY <1>1, <1>2, <1>4, <2>1, <2>2, <2>3, CompleteIs
  <2> QED
    BY <1>4, <2>2, <2>3
<1> QED
  BY <1>3, <1>4

LEMMA ReadsData == ASSUME Unpacking, ReadData PROVE Reader'
<1> DEFINE i == tar.of
           f == tar.file
           z == Padding(FileSize)
<1>1. /\ tar.state = "data" /\ UNCHANGED <<req, content, got, told, held, open>> /\ at' = "chunk" /\ Fed'
      /\ tar'.of = i /\ tar'.trailer = tar.trailer
  BY DataStep
<1>2. PICK n \in 0 .. Len(chunk) :
        /\ Place' = Place + n /\ f + n <= FileSize
        /\ n > 0 => open # Absent /\ disk' = Appended(First(n))
        /\ n = 0 => disk' = disk
        /\ f + n # FileSize => tar'.state = "data" /\ tar'.file = f + n
        /\ f + n = FileSize => IF z = 0 THEN tar'.state = "header" /\ tar'.header = <<>>
                                        ELSE tar'.state = "padding" /\ tar'.padding = 0
  BY DataStep
<1>3. /\ ~Regular(i) => n = 0 /\ disk' = Complete(i - 1)
      /\ Regular(i) => disk' = [Complete(i - 1) EXCEPT ![open] = DataOf(i, f + n)]
      /\ f + n = FileSize => disk' = Complete(i)
  BY <1>1, <1>2, DataWritten
<1>4. /\ i \in 1 .. Len(content.entries) /\ i \in Nat /\ FileSize \in Nat /\ z \in Nat /\ EntryStart(i - 1) \in Nat
      /\ EntryStart(i) = EntryStart(i - 1) + Block + FileSize + z
      /\ f \in Nat /\ n \in Nat /\ Block \in Nat
      /\ Place = EntryStart(i - 1) + Block + f
      /\ i # 0 /\ Len(content.entries) \in Nat
  <2>1. /\ i \in 1 .. Len(content.entries) /\ i \in Nat /\ FileSize \in Nat /\ z \in Nat /\ EntryStart(i - 1) \in Nat
        /\ EntryStart(i) = EntryStart(i - 1) + Block + FileSize + z
    BY <1>1, CurrentEntry
  <2>2. f \in Nat /\ Block \in Nat /\ Len(content.entries) \in Nat /\ Len(chunk) \in Nat
    BY UnpackingIs DEF TarRecord
  <2>3. Place = EntryStart(i - 1) + Block + f /\ i # 0
    BY <1>1, UnpackingIs DEF TarRead, InData
  <2> HIDE DEF i, f, z
  <2> QED
    BY <2>1, <2>2, <2>3
<1>5. TarRead
  BY UnpackingIs
<1> HIDE DEF i, f, z
<1>6. /\ i = tar.of /\ f = tar.file /\ FileSize' = FileSize
  BY <1>1 DEF i, f, FileSize
<1>7. i \in 0 .. Len(content.entries)
  BY <1>4
<1>8. CASE f + n # FileSize
  <2>1. Place' = EntryStart(i - 1) + Block + (f + n)
    BY <1>2, <1>4
  <2>2. tar'.state = "data" /\ tar'.file = f + n
    BY <1>2, <1>8
  <2>3. TarRead'
    BY <1>1, <1>3, <1>4, <1>5, <1>6, <1>7, <2>1, <2>2
       DEF TarRead, InHeader, InData, InPadding, EntryStart, Complete, Regular, FileName
  <2> QED
    BY <1>1, <2>3, ReaderReads
<1>9. CASE f + n = FileSize /\ z = 0
  <2>1. Place' = EntryStart(i) + 0
    <3> DEFINE place == Place'
               next == EntryStart(i)
               start == EntryStart(i - 1)
               size == FileSize
    <3>1. place = start + Block + f + n /\ f + n = size /\ next = start + Block + size + z
      BY <1>2, <1>4, <1>9
    <3>2. start \in Nat /\ Block \in Nat /\ f \in Nat /\ n \in Nat /\ size \in Nat /\ z = 0
      BY <1>4, <1>9
    <3> HIDE DEF place, next, start, size
    <3>3. place = next + 0
      BY ONLY <3>1, <3>2
    <3> QED
      BY <3>3 DEF place, next
  <2>2. tar'.state = "header" /\ tar'.header = <<>>
    BY <1>2, <1>9
  <2>3. Len(tar'.header) = 0
    BY <2>2, EmptySeq
  <2>4. TarRead'
    BY <1>1, <1>3, <1>4, <1>5, <1>6, <1>7, <1>9, <2>1, <2>2, <2>3
       DEF TarRead, InHeader, InData, InPadding, EntryStart, Complete, Regular, FileName
  <2> QED
    BY <1>1, <2>4, ReaderReads
<1>10. CASE f + n = FileSize /\ z # 0
  <2>1. Place' = EntryStart(i - 1) + Block + FileSize + 0
    <3>1. Place' = EntryStart(i - 1) + Block + (f + n)
      BY <1>2, <1>4
    <3> QED
      BY <1>4, <1>10, <3>1, SMTT(40)
  <2>2. tar'.state = "padding" /\ tar'.padding = 0
    BY <1>2, <1>10
  <2>4. TarRead'
    BY <1>1, <1>3, <1>4, <1>5, <1>6, <1>7, <1>10, <2>1, <2>2
       DEF TarRead, InHeader, InData, InPadding, EntryStart, Complete, Regular, FileName
  <2> QED
    BY <1>1, <2>4, ReaderReads
<1> QED
  BY <1>8, <1>9, <1>10

\* The padding, the trailer and the end of the chunk.
LEMMA ReadsPadding == ASSUME Unpacking, ReadPadding PROVE Reader'
<1> DEFINE i == tar.of
           z == Padding(FileSize)
           p == tar.padding
           left == z - p
           n == Min2(Len(chunk), left)
<1>1. /\ tar.state = "padding" /\ UNCHANGED <<req, content, got, told, held, open, disk>> /\ at' = "chunk"
      /\ chunk' = After(n)
      /\ tar' = IF n = left
                THEN [tar EXCEPT !.padding = @ + n, !.state = "header", !.header = <<>>]
                ELSE [tar EXCEPT !.padding = @ + n]
  BY DEF ReadPadding, InTar, Proceed, Goto, TarRest
<1>2. /\ tar \in TarRecord /\ Len(chunk) \in Nat /\ FileSize \in Nat /\ z \in Nat /\ p \in Nat /\ p <= z
      /\ i \in 0 .. Len(content.entries) /\ EntryStart(i - 1) \in Nat /\ Block \in Nat
      /\ EntryStart(i) = EntryStart(i - 1) + Block + FileSize + z
  <2>1. /\ i \in 1 .. Len(content.entries) /\ FileSize \in Nat /\ z \in Nat /\ EntryStart(i - 1) \in Nat
        /\ EntryStart(i) = EntryStart(i - 1) + Block + FileSize + z
    BY <1>1, CurrentEntry
  <2>2. tar \in TarRecord /\ Len(chunk) \in Nat /\ p \in Nat /\ p <= z /\ Block \in Nat
        /\ Len(content.entries) \in Nat
    BY <1>1, UnpackingIs DEF Unpacking, Tarred, TarRecord
  <2> HIDE DEF i, z, p
  <2> QED
    BY <2>1, <2>2
<1>3. TarRead /\ i # 0 /\ Place = EntryStart(i - 1) + Block + FileSize + p /\ disk = Complete(i)
  BY <1>1, UnpackingIs DEF TarRead, InPadding
<1> HIDE DEF z, p
<1>4. n \in 0 .. Len(chunk) /\ n \in Nat /\ n <= left
  BY <1>2 DEF Min2
<1> HIDE DEF n
<1>5. Fed' /\ Place' = Place + n
  BY <1>1, <1>4, TakenFromChunk
<1>6. CASE n = left
  <2>1. tar' = [tar EXCEPT !.padding = @ + n, !.state = "header", !.header = <<>>]
    BY <1>1, <1>6
  <2>2. tar'.of = i /\ tar'.trailer = tar.trailer /\ tar'.state = "header" /\ tar'.header = <<>>
    BY <1>2, <1>4, <2>1, PaddingEnds, ZenonT(60)
  <2>3. Len(tar'.header) = 0
    BY <2>2, EmptySeq
  <2>4. Place' = EntryStart(i) + 0
    <3> HIDE DEF i
    <3>1. p + n = z
      BY <1>2, <1>4, <1>6
    <3>2. Place' = EntryStart(i - 1) + Block + FileSize + (p + n)
      BY <1>2, <1>3, <1>4, <1>5
    <3> QED
      BY <1>2, <3>1, <3>2
  <2> HIDE DEF i
  <2>5. TarRead'
    BY <1>1, <1>2, <1>3, <2>2, <2>3, <2>4
       DEF TarRead, InHeader, InData, InPadding, EntryStart, Complete, Regular, FileName, i
  <2> QED
    BY <1>1, <1>5, <2>5, ReaderReads
<1>7. CASE n # left
  <2>1. tar' = [tar EXCEPT !.padding = p + n]
    BY <1>1, <1>7 DEF p
  <2>2. tar'.of = i /\ tar'.trailer = tar.trailer /\ tar'.state = "padding" /\ tar'.padding = p + n
    BY <1>1, <1>2, <2>1 DEF TarRecord
  <2>3. Place' = EntryStart(i - 1) + Block + FileSize + (p + n)
    <3> HIDE DEF i
    <3> QED
      BY <1>2, <1>3, <1>4, <1>5
  <2>4. FileSize' = FileSize
    BY <1>1, <2>2 DEF FileSize
  <2> HIDE DEF i
  <2>5. TarRead'
    BY <1>1, <1>2, <1>3, <2>2, <2>3, <2>4
       DEF TarRead, InHeader, InData, InPadding, EntryStart, Complete, Regular, FileName, i
  <2> QED
    BY <1>1, <1>5, <2>5, ReaderReads
<1> QED
  BY <1>6, <1>7

LEMMA ReadsTrailer == ASSUME Unpacking, ReadTrailer PROVE Reader'
<1> DEFINE n == Min2(Len(chunk), Trailer - tar.trailer)
<1>1. /\ tar.state = "trailer" /\ UNCHANGED <<req, content, got, told, held, open, disk>> /\ at' = "chunk"
      /\ tar' = [tar EXCEPT !.trailer = @ + n]
      /\ chunk' = IF tar.trailer + n = Trailer THEN <<>> ELSE After(n)
  BY DEF ReadTrailer, InTar, Proceed, Goto, TarRest
<1>2. /\ tar \in TarRecord /\ Len(chunk) \in Nat /\ tar.trailer \in Nat /\ tar.trailer <= Trailer
      /\ Trailer \in Nat /\ got \in Nat /\ TarRead
  BY UnpackingIs DEF Unpacking, Tarred, TarRecord, Trailer
<1>3. n \in 0 .. Len(chunk)
  BY <1>2 DEF Min2
<1> HIDE DEF n
<1>4. tar'.state = "trailer" /\ tar'.of = tar.of
  BY <1>1, <1>2 DEF TarRecord
<1>5. Fed'
  <2>1. CASE chunk' = <<>>
    <3>1. Len(chunk') = 0
      BY <2>1, EmptySeq
    <3> QED
      BY <1>1, <1>2, <3>1 DEF Fed
  <2>2. CASE chunk' = After(n)
    BY <1>1, <1>3, <2>2, TakenFromChunk
  <2> QED
    BY <1>1, <2>1, <2>2
<1>6. TarRead'
  BY <1>1, <1>2, <1>4 DEF TarRead, InHeader, InData, InPadding, Complete, Regular
<1> QED
  BY <1>1, <1>5, <1>6, ReaderReads

LEMMA ReadsToEnd == ASSUME Unpacking, TarChunkEnds PROVE Reader'
<1>1. /\ UNCHANGED <<req, content, got, told, held, open, disk, tar, chunk>> /\ at' \in {"got", "http"}
      /\ at' = "got" => tar.trailer = Trailer
      /\ chunk = <<>>
  BY DEF TarChunkEnds, ChunkDone, Proceed, Goto, downVars, streamVars, codecVars, diskVars
<1>2. Fed /\ TarRead /\ ~told /\ Reader /\ Tar /\ req.way = "down"
  BY UnpackingIs DEF Unpacking
<1>3. Fed'
  BY <1>1, <1>2 DEF Fed, Place
<1>4. TarRead'
  BY <1>1, <1>2 DEF TarRead, InHeader, InData, InPadding, Complete, Regular, EntryStart, Place, FileSize, FileName
<1> QED
  BY <1>1, <1>2, <1>3, <1>4 DEF Reader, Untouched, Fetching, Tar

\* The download fails or is over.
LEMMA ReaderLeaves ==
  ASSUME Reader, UNCHANGED <<req, content>>, req.way = "down", at' \notin Fetching \cup Untouched,
         told' => told /\ disk' = disk
  PROVE  Reader'
BY DEF Reader, Untouched, Fetching

\* The handler goes on without the reader.
LEMMA ReaderKept ==
  ASSUME Reader, UNCHANGED <<req, content, got, chunk, held, tar, open, disk, told>>,
         at' = at \/ (at \in Untouched /\ at' \in Untouched /\ at \notin {"asked", "init"}
                      /\ at' \notin {"asked", "init"})
                  \/ (at = "request" /\ at' = "http")
  PROVE  Reader'
<1>1. Fed => Fed'
  BY DEF Fed, Place
<1>2. TarRead /\ at' # "got" => TarRead'
  BY DEF TarRead, InHeader, InData, InPadding, Complete, Regular, EntryStart, Place, FileSize, FileName
<1>3. TarRead /\ at' = at => TarRead'
  BY DEF TarRead, InHeader, InData, InPadding, Complete, Regular, EntryStart, Place, FileSize, FileName
<1>4. PlainRead /\ at # "chunk" => PlainRead'
  BY DEF PlainRead, FileName
<1>5. PlainRead /\ at' = at => PlainRead'
  BY DEF PlainRead, FileName
<1> QED
  BY <1>1, <1>2, <1>3, <1>4, <1>5 DEF Reader, Untouched, Fetching, Tar

\* The only file of a plain download with the next bytes of the content behind it.
LEMMA PlainAppended ==
  ASSUME Streamed, PlainRead, req.way = "down", ~Tar, at = "chunk", NEW a \in Seq(Cell),
         \A k \in 1 .. Len(a) : a[k] = content.cells[Len(disk[open]) + k]
  PROVE  /\ open # Absent /\ open \in Names /\ Len(disk[open]) \in Nat
         /\ Len(Appended(a)[open]) = Len(disk[open]) + Len(a)
         /\ \A k \in 1 .. Len(Appended(a)[open]) : Appended(a)[open][k] = content.cells[k]
         /\ \A n \in Names : n # open => Appended(a)[n] = Absent
<1> DEFINE d == disk[open]
           e == Appended(a)[open]
<1>1. open # Absent /\ open \in Names /\ d \in Seq(Cell)
  <2>1. open # Absent /\ open \in Names /\ disk[open] \in Contents /\ disk[open] # Absent
    BY DEF Streamed
  <2> QED
    BY <2>1 DEF Contents
<1>2. /\ e = d \o a /\ \A n \in Names \ {open} : Appended(a)[n] = disk[n]
  BY <1>1, AppendedTypes
<1>3. /\ d \o a \in Seq(Cell) /\ Len(d \o a) = Len(d) + Len(a)
      /\ \A k \in 1 .. Len(d) + Len(a) : (d \o a)[k] = IF k <= Len(d) THEN d[k] ELSE a[k - Len(d)]
  BY <1>1, ConcatProperties
<1>4. /\ \A n \in Names : n # open => disk[n] = Absent
      /\ \A k \in 1 .. Len(d) : d[k] = content.cells[k]
      /\ \A k \in 1 .. Len(a) : a[k] = content.cells[Len(d) + k]
  BY DEF PlainRead
<1>5. Len(d) \in Nat /\ Len(a) \in Nat
  BY <1>1, LenProperties
<1> HIDE DEF d, e
<1>6. Len(e) = Len(d) + Len(a)
  BY <1>2, <1>3
<1>7. ASSUME NEW k \in 1 .. Len(e) PROVE e[k] = content.cells[k]
  <2>1. e[k] = IF k <= Len(d) THEN d[k] ELSE a[k - Len(d)]
    BY <1>2, <1>3, <1>6
  <2>2. CASE k <= Len(d)
    <3>1. k \in 1 .. Len(d)
      BY <1>5, <2>2
    <3> QED
      BY <1>4, <2>1, <2>2, <3>1
  <2>3. CASE ~(k <= Len(d))
    <3>1. k - Len(d) \in 1 .. Len(a) /\ Len(d) + (k - Len(d)) = k
      BY <1>5, <1>6, <2>3
    <3>2. a[k - Len(d)] = content.cells[Len(d) + (k - Len(d))]
      BY <1>4, <3>1
    <3> QED
      BY <2>1, <2>3, <3>1, <3>2
  <2> QED
    BY <2>2, <2>3
<1> QED
  BY <1>1, <1>2, <1>4, <1>5, <1>6, <1>7 DEF d, e

\* The reader of a plain download behind a chunk.
LEMMA PlainGrows ==
  ASSUME Streamed, PlainRead, req.way = "down", ~Tar, at = "chunk",
         NEW a \in Seq(Cell), NEW b \in Seq(Cell),
         Len(a) + Len(b) = Len(held) + Len(chunk),
         \A k \in 1 .. Len(a) : a[k] = content.cells[Len(disk[open]) + k],
         \A k \in 1 .. Len(b) : b[k] = content.cells[Len(disk[open]) + Len(a) + k],
         disk' = Appended(a), held' = b, chunk' = <<>>, UNCHANGED <<req, content, got, tar, open>>,
         req.encoding = "none" \/ (got = Len(content.cells)) => b = <<>>
  PROVE  PlainRead'
<1> DEFINE d == disk[open]
           e == disk'[open]
<1>1. /\ Len(d) \in Nat /\ Len(e) = Len(d) + Len(a)
      /\ \A k \in 1 .. Len(e) : e[k] = content.cells[k]
      /\ \A n \in Names : n # open => disk'[n] = Absent
  BY PlainAppended
<1>2. open = FileName(1) /\ tar = TarNone /\ Len(d) + Len(held) + Len(chunk) = got
  BY DEF PlainRead
<1>3. Len(a) \in Nat /\ Len(b) \in Nat /\ Len(held) \in Nat /\ Len(chunk) \in Nat
      /\ Len(chunk') = 0 /\ got \in Nat
  BY LenProperties, EmptySeq DEF Streamed
<1>4. \A k \in 1 .. Len(b) : b[k] = content.cells[Len(d) + Len(a) + k]
  OBVIOUS
<1> HIDE DEF d, e
<1>5. Len(e) + Len(b) + Len(chunk') = got
  <2>1. Len(a) + Len(b) = Len(held) + Len(chunk)
    OBVIOUS
  <2>2. Len(e) + Len(b) = Len(d) + (Len(held) + Len(chunk))
    BY ONLY <1>1, <1>3, <2>1
  <2> QED
    BY ONLY <1>1, <1>2, <1>3, <2>2
<1>6. \A k \in 1 .. Len(b) : b[k] = content.cells[Len(e) + k]
  BY <1>1, <1>4
<1>7. /\ disk'[open'] = e /\ (\A n \in Names : n # open' => disk'[n] = Absent) /\ FileName(1)' = FileName(1)
      /\ got' = got /\ tar' = TarNone /\ open' = FileName(1)
  BY <1>1, <1>2 DEF e, FileName
<1>8. req'.encoding = "none" \/ (at' # "chunk" /\ got' = Len(content'.cells)) => held' = <<>>
  OBVIOUS
<1>9. held' = b /\ content' = content
  OBVIOUS
<1> QED
  BY <1>1, <1>5, <1>6, <1>7, <1>8, <1>9 DEF PlainRead, TarNone

\* What is known when a plain chunk is written.
LEMMA PlainIs ==
  ASSUME Streamed, Control, Reader, req.way = "down", ~Tar, at \in Fetching \ {"init"}
  PROVE  /\ PlainRead /\ Fed /\ ~told /\ req.encoding \in {"none", "lz4"} /\ Offer(content, req.encoding)
         /\ chunk \in Seq(Cell) /\ Len(chunk) \in Nat /\ held \in Seq(Cell) /\ Len(held) \in Nat
         /\ got \in Nat /\ content.cells \in Seq(Cell) /\ Len(content.cells) \in Nat
<1>1. chunk \in Seq(Cell) /\ held \in Seq(Cell) /\ content.cells \in Seq(Cell)
  BY DEF Streamed, IsContent
<1>2. Len(chunk) \in Nat /\ Len(held) \in Nat /\ Len(content.cells) \in Nat
  BY <1>1, LenProperties
<1> QED
  BY <1>1, <1>2 DEF Streamed, Reader, Fetching, Tar, Control, Answers, Late

\* Without a decompression the file is all that was read.
LEMMA PlainPlace ==
  ASSUME Streamed, Control, Reader, req.way = "down", req.encoding = "none", at = "chunk"
  PROVE  /\ held = <<>> /\ Len(disk[open]) = Place
         /\ \A k \in 1 .. Len(chunk) : chunk[k] = content.cells[Len(disk[open]) + k]
<1>1. ~Tar
  BY DEF Tar
<1>2. PlainRead /\ Fed /\ Len(chunk) \in Nat /\ got \in Nat
  BY <1>1, PlainIs DEF Fetching
<1>3. held = <<>> /\ Len(held) = 0
  BY <1>2, EmptySeq DEF PlainRead
<1>4. open \in Names /\ disk[open] \in Seq(Cell)
  BY <1>1 DEF Streamed, Contents
<1>5. Len(disk[open]) \in Nat /\ Len(disk[open]) + Len(held) + Len(chunk) = got
  BY <1>2, <1>4, LenProperties DEF PlainRead
<1>6. Len(disk[open]) = Place
  BY <1>2, <1>3, <1>5 DEF Place
<1> QED
  BY <1>2, <1>3, <1>6 DEF Fed

\* A chunk without compression, and one with it.
LEMMA ReadsPlain ==
  ASSUME Streamed, Control, Reader, req.way = "down", AppendChunk
  PROVE  Reader'
<1>1. /\ at = "chunk" /\ req.encoding = "none" /\ ~Tar /\ at' \in {"got", "http"} /\ chunk' = <<>>
      /\ disk' = Appended(chunk) /\ UNCHANGED <<req, content, got, tar, open, held, told>>
  BY DEF AppendChunk, ChunkDone, Proceed, Goto, Tar, codecVars
<1>2. /\ PlainRead /\ Fed /\ ~told /\ Offer(content, req.encoding)
      /\ chunk \in Seq(Cell) /\ Len(chunk) \in Nat /\ held \in Seq(Cell) /\ got \in Nat
  BY <1>1, PlainIs DEF Fetching
<1>3. held = <<>> /\ Len(held) = 0
  BY <1>1, PlainPlace, EmptySeq
<1>5. \A k \in 1 .. Len(chunk) : chunk[k] = content.cells[Len(disk[open]) + k]
  BY <1>1, PlainPlace, SMTT(40)
<1>6. PlainRead'
  <2>1. /\ <<>> \in Seq(Cell) /\ Len(chunk) + Len(<<>>) = Len(held) + Len(chunk)
        /\ \A k \in 1 .. Len(<<>>) : <<>>[k] = content.cells[Len(disk[open]) + Len(chunk) + k]
        /\ held' = <<>>
    BY <1>1, <1>2, <1>3, EmptySeq
  <2> DEFINE b == <<>>
  <2>2. /\ b \in Seq(Cell) /\ Len(chunk) + Len(b) = Len(held) + Len(chunk) /\ b = <<>> /\ held' = b
        /\ \A k \in 1 .. Len(b) : b[k] = content.cells[Len(disk[open]) + Len(chunk) + k]
    BY <2>1
  <2> HIDE DEF b
  <2> QED
    BY <1>1, <1>2, <1>5, <2>2, PlainGrows
<1>7. Fed' /\ Len(chunk') = 0
  BY <1>1, <1>2, EmptySeq DEF Fed
<1> QED
  BY <1>1, <1>2, <1>6, <1>7 DEF Reader, Untouched, Fetching, Tar

\* What the decompression has to work on is what comes next of the content; n bytes of it.
LEMMA InputIs ==
  ASSUME Streamed, Control, Reader, req.way = "down", req.encoding = "lz4", at = "chunk",
         NEW n \in 0 .. Len(held) + Len(chunk)
  PROVE  /\ Input \in Seq(Cell) /\ Len(Input) = Len(held) + Len(chunk) /\ Len(Input) \in Nat /\ n \in 0 .. Len(Input)
         /\ \A k \in 1 .. Len(Input) : Input[k] \in Cell
         /\ Len(disk[open]) \in Nat /\ Len(disk[open]) + Len(Input) = got
         /\ \A k \in 1 .. Len(Input) : Input[k] = content.cells[Len(disk[open]) + k]
         /\ SubSeq(Input, 1, n) \in Seq(Cell) /\ Len(SubSeq(Input, 1, n)) = n
         /\ \A k \in 1 .. n : SubSeq(Input, 1, n)[k] = Input[k]
<1> DEFINE all == Input
           c == content.cells
           d == Len(disk[open])
<1>1. ~Tar
  BY DEF Tar
<1>2. /\ PlainRead /\ Fed
      /\ chunk \in Seq(Cell) /\ Len(chunk) \in Nat /\ held \in Seq(Cell) /\ Len(held) \in Nat /\ got \in Nat
  BY <1>1, PlainIs DEF Fetching
<1>3. /\ Input \in Seq(Cell) /\ Len(Input) = Len(held) + Len(chunk)
      /\ \A k \in 1 .. Len(held) + Len(chunk) :
           Input[k] = IF k <= Len(held) THEN held[k] ELSE chunk[k - Len(held)]
  BY <1>2, ConcatProperties DEF Input
<1>4. /\ d \in Nat /\ d + Len(held) = Place /\ d + Len(held) + Len(chunk) = got
      /\ \A k \in 1 .. Len(held) : held[k] = c[d + k]
  <2>1. open \in Names /\ disk[open] \in Seq(Cell)
    BY <1>1 DEF Streamed, Contents
  <2>2. d \in Nat /\ d + Len(held) + Len(chunk) = got /\ \A k \in 1 .. Len(held) : held[k] = c[d + k]
    BY <1>2, <2>1, LenProperties DEF PlainRead
  <2> HIDE DEF d
  <2> QED
    BY <1>2, <2>2 DEF Place
<1>5. \A k \in 1 .. Len(chunk) : chunk[k] = c[Place + k]
  BY <1>2 DEF Fed
<1> HIDE DEF c, d
<1>6. ASSUME NEW k \in 1 .. Len(held) + Len(chunk) PROVE all[k] = c[d + k]
  <2>1. CASE k <= Len(held)
    <3>1. k \in 1 .. Len(held)
      BY <1>2, <2>1
    <3> QED
      BY <1>3, <1>4, <2>1, <3>1
  <2>2. CASE ~(k <= Len(held))
    <3>1. k - Len(held) \in 1 .. Len(chunk) /\ Place + (k - Len(held)) = d + k
      BY <1>2, <1>4, <2>2
    <3>2. chunk[k - Len(held)] = c[Place + (k - Len(held))]
      BY <1>5, <3>1
    <3> QED
      BY <1>3, <2>2, <3>1, <3>2
  <2> QED
    BY <2>1, <2>2
<1>7. all \in Seq(Cell) /\ Len(all) = Len(held) + Len(chunk) /\ Len(all) \in Nat /\ n \in 0 .. Len(all)
      /\ \A k \in 1 .. Len(all) : all[k] \in Cell
  <2>1. all \in Seq(Cell) /\ Len(all) = Len(held) + Len(chunk)
    BY <1>3
  <2>2. Len(all) \in Nat /\ n \in 0 .. Len(all)
    BY <1>2, <2>1
  <2> QED
    BY <2>1, <2>2, ElementOfSeq
<1>8. \A k \in 1 .. Len(all) : all[k] = c[d + k]
  BY <1>6, <1>7
<1>9. d + Len(all) = got
  BY <1>2, <1>4, <1>7
<1> HIDE DEF all
<1>10. SubSeq(all, 1, n) \in Seq(Cell) /\ Len(SubSeq(all, 1, n)) = n /\ \A k \in 1 .. n : SubSeq(all, 1, n)[k] = all[k]
  <2>1. \A k \in 1 .. n : all[k] \in Cell
    BY <1>7
  <2>2. n \in Nat /\ (n = 0 \/ n >= 1)
    BY <1>7
  <2> QED
    BY <1>7, <2>1, <2>2, SubSeqProperties
<1> QED
  BY <1>4, <1>7, <1>8, <1>9, <1>10 DEF all, c, d

\* The compressed content, read by one more chunk.
LEMMA ReadsCompressed ==
  ASSUME Streamed, Control, Reader, req.way = "down", NEW n \in 0 .. Len(held) + Len(chunk), Decompress(n)
  PROVE  Reader'
<1> DEFINE all == Input
           a == SubSeq(all, 1, n)
           b == SubSeq(all, n + 1, Len(all))
           c == content.cells
           d == Len(disk[open])
<1>1. /\ at = "chunk" /\ req.encoding = "lz4" /\ ~Tar /\ at' \in {"got", "http"} /\ chunk' = <<>>
      /\ disk' = Appended(a) /\ held' = b /\ UNCHANGED <<req, content, got, tar, open, told>>
      /\ got = Len(c) => n = Len(all)
  BY DEF Decompress, ChunkDone, Proceed, Goto, Tar
<1>2. /\ PlainRead /\ Fed /\ ~told /\ Offer(content, req.encoding)
      /\ Len(chunk) \in Nat /\ Len(held) \in Nat /\ got \in Nat
  BY <1>1, PlainIs DEF Fetching
<1>3. d \in Nat
  BY <1>1, InputIs
<1>4. \A k \in 1 .. Len(all) : all[k] = c[d + k]
  BY <1>1, InputIs
<1>5. all \in Seq(Cell) /\ Len(all) = Len(held) + Len(chunk) /\ Len(all) \in Nat /\ n \in 0 .. Len(all)
      /\ \A k \in 1 .. Len(all) : all[k] \in Cell
  BY <1>1, InputIs
<1>6. a \in Seq(Cell) /\ Len(a) = n /\ \A k \in 1 .. n : a[k] = all[k]
  BY <1>1, InputIs
<1> HIDE DEF all, c, d
<1>7. b \in Seq(Cell) /\ Len(b) = Len(all) - n /\ \A k \in 1 .. Len(all) - n : b[k] = all[n + k]
  <2> DEFINE p == n + 1
             q == Len(all)
  <2>1. p \in Nat \ {0} /\ q \in Nat /\ (\A k \in p .. q : all[k] \in Cell) /\ p <= q + 1
    BY <1>5
  <2> HIDE DEF p, q
  <2>2. /\ SubSeq(all, p, q) \in Seq(Cell)
        /\ Len(SubSeq(all, p, q)) = IF p <= q THEN q - p + 1 ELSE 0
        /\ \A k \in 1 .. q - p + 1 : SubSeq(all, p, q)[k] = all[p + k - 1]
    BY <2>1, <1>5, SubSeqProperties
  <2>3. Len(SubSeq(all, p, q)) = Len(all) - n
    BY <1>5, <2>1, <2>2 DEF p, q
  <2>4. ASSUME NEW k \in 1 .. Len(all) - n PROVE SubSeq(all, p, q)[k] = all[n + k]
    <3>1. k \in 1 .. q - p + 1 /\ p + k - 1 = n + k
      BY <1>5 DEF p, q
    <3> QED
      BY <2>2, <3>1
  <2> QED
    BY <2>2, <2>3, <2>4 DEF p, q
<1> HIDE DEF a, b
<1>8. \A k \in 1 .. Len(a) : a[k] = c[d + k]
  BY <1>4, <1>5, <1>6
<1>9. ASSUME NEW k \in 1 .. Len(b) PROVE b[k] = c[d + Len(a) + k]
  <2>1. n + k \in 1 .. Len(all) /\ d + Len(a) + k = d + (n + k)
    BY <1>3, <1>5, <1>6, <1>7
  <2> QED
    BY <1>4, <1>5, <1>6, <1>7, <2>1
<1>10. Len(a) + Len(b) = Len(held) + Len(chunk)
  BY <1>5, <1>6, <1>7
<1>11. req.encoding = "none" \/ got = Len(content.cells) => b = <<>>
  <2> SUFFICES ASSUME got = Len(content.cells) PROVE b = <<>>
    BY <1>1
  <2>1. n = Len(all)
    BY <1>1 DEF c
  <2>2. Len(b) = 0
    BY <1>5, <1>7, <2>1
  <2> QED
    BY <1>7, <2>2, EmptySeq
<1>12. PlainRead'
  BY <1>1, <1>2, <1>6, <1>7, <1>8, <1>9, <1>10, <1>11, PlainGrows DEF c, d
<1>13. Fed' /\ Len(chunk') = 0
  BY <1>1, <1>2, EmptySeq DEF Fed
<1> QED
  BY <1>1, <1>2, <1>12, <1>13 DEF Reader, Untouched, Fetching, Tar

\* The handler up to the HTTP request.
LEMMA ReaderStarts ==
  ASSUME Streamed, Control, CommonTypes, Reader, req.way = "down",
         CheckSize \/ WriteInitRefuses \/ WriteInitFails \/ WriteInit \/ SetupDigest
  PROVE  Reader'
<1> USE DEF Proceed, Goto, FailsWith
<1>0. IsContent(content) /\ got \in Nat /\ Nothing \in [Names -> Contents]
  BY DEF Streamed, Nothing, Contents
<1>1. CASE CheckSize
  <2>1. at = "asked" /\ ValidRequest(req) /\ UNCHANGED <<req, content, got, chunk, held, tar, open, disk, told>>
        /\ at' \in {"init", "destroy"}
    BY <1>1 DEF CheckSize, downVars, streamVars, codecVars, diskVars
  <2>2. CASE at' = "destroy"
    BY <2>1, <2>2, ReaderLeaves DEF Fetching, Untouched
  <2>3. CASE at' = "init"
    <3>1. req.encoding \in {"none", "lz4", "tar"}
      BY <2>1 DEF CommonTypes, ValidRequest, Request, Encodings
    <3>2. /\ got = 0 /\ chunk = <<>> /\ held = <<>> /\ tar = TarNone /\ disk = Nothing /\ open = Absent /\ ~told
          /\ Len(chunk) = 0 /\ Offer(content, req.encoding)
      BY <2>1, EmptySeq DEF Reader, Untouched, Control, Placed, Released, Answers, Late
    <3>3. Fed'
      BY <2>1, <3>2 DEF Fed
    <3>4. tar.of = 0 /\ tar.state = "none" /\ tar.trailer = 0 /\ Len(tar.header) = 0
      BY <3>2, TarNoneIs
    <3>5. content.entries \in Seq(Entry) /\ Len(content.entries) \in Nat
      BY <1>0, LenProperties DEF IsContent
    <3>6. ASSUME Tar PROVE EntryStart(0) = 0 /\ disk = Complete(0)
      BY <1>0, <3>2, <3>5, <3>6, Starts, CompleteIs DEF EntryStart, OfferedArchive, Tar
    <3>7. Place' = 0 + 0
      <4>1. got' = 0 /\ Len(chunk') = 0
        BY <2>1, <3>2
      <4> QED
        BY <4>1 DEF Place
    <3>8. Tar => TarRead'
      BY <2>1, <2>3, <3>2, <3>4, <3>5, <3>6, <3>7
         DEF TarRead, InHeader, InData, InPadding, EntryStart, Complete, Regular
    <3> QED
      BY <2>1, <2>3, <3>1, <3>2, <3>3, <3>8 DEF Reader, Tar
  <2> QED
    BY <2>1, <2>2, <2>3
<1>2. CASE WriteInitRefuses \/ WriteInitFails
  BY <1>2, ReaderLeaves DEF WriteInitRefuses, WriteInitFails, Fetching, Untouched, streamVars
<1>3. CASE WriteInit
  <2>1. /\ at = "init" /\ at' = "data" /\ UNCHANGED <<req, content, got, chunk, held, tar, told>>
        /\ IF Tar THEN UNCHANGED <<disk, open>>
                  ELSE open' = content.entries[1].name /\ disk' = [disk EXCEPT ![open'] = <<>>]
    BY <1>3 DEF WriteInit, streamVars, codecVars
  <2>2. /\ got = 0 /\ chunk = <<>> /\ held = <<>> /\ tar = TarNone /\ disk = Nothing /\ ~told /\ Fed
        /\ req.encoding \in {"none", "lz4", "tar"} /\ Offer(content, req.encoding)
        /\ (Tar => TarRead)
    BY <2>1 DEF Reader, Untouched, Fetching, Control, Placed, Answers, Late
  <2>3. Fed'
    BY <2>1, <2>2 DEF Fed, Place
  <2>4. Tar => TarRead'
    BY <2>1, <2>2 DEF TarRead, InHeader, InData, InPadding, Complete, Regular, EntryStart, Place, FileSize, FileName
  <2>5. ASSUME ~Tar PROVE PlainRead'
    <3>1. Len(content.entries) = 1 /\ content.entries \in Seq(Entry)
      BY <1>0, <2>5, <2>2 DEF Streamed, Tar, IsContent
    <3>2. content.entries[1].name \in Names
      <4>1. content.entries[1] \in Entry
        BY <3>1, ElementOfSeq
      <4> QED
        BY <4>1 DEF Entry
    <3>3. /\ open' = FileName(1)' /\ open' = content.entries[1].name /\ disk' = [disk EXCEPT ![open'] = <<>>]
      BY <2>1, <2>5 DEF FileName
    <3>4. disk'[open'] = <<>> /\ \A n \in Names : n # open' => disk'[n] = Absent
      BY <2>2, <3>2, <3>3 DEF Nothing
    <3>5. Len(disk'[open']) = 0 /\ Len(held') = 0 /\ Len(chunk') = 0
      BY <2>1, <2>2, <3>4, EmptySeq
    <3>6. tar' = TarNone' /\ held' = <<>> /\ got' = 0
      BY <2>1, <2>2 DEF TarNone
    <3>7. \A k \in 1 .. 0 : FALSE
      OBVIOUS
    <3> QED
      BY <3>3, <3>4, <3>5, <3>6, <3>7 DEF PlainRead
  <2> QED
    BY <2>1, <2>2, <2>3, <2>4, <2>5 DEF Reader, Untouched, Fetching, Tar, TarNone
<1>4. CASE SetupDigest
  <2>1. at = "digest" /\ UNCHANGED <<req, content, got, chunk, held, tar, open, disk, told>>
        /\ at' \in {"request", "abort"}
    BY <1>4 DEF SetupDigest, streamVars, diskVars
  <2>2. CASE at' = "abort"
    BY <2>1, <2>2, ReaderLeaves DEF Fetching, Untouched
  <2>3. CASE at' = "request"
    BY <2>1, <2>3, ReaderKept DEF Untouched
  <2> QED
    BY <2>1, <2>2, <2>3
<1> QED
  BY <1>1, <1>2, <1>3, <1>4

\* A chunk that arrives is the next part of the content.
LEMMA Received ==
  ASSUME Streamed, Tarred, Control, Reader, req.way = "down", NEW n \in Nat, NEW final, Receive(n, final)
  PROVE  /\ Len(chunk') = n /\ \A k \in 1 .. n : chunk'[k] = content.cells[got + k]
         /\ Place' = got /\ Place = got
<1> DEFINE c == content.cells
           p == got + 1
           q == got + n
<1>1. /\ at = "http" /\ at' = "chunk" /\ got + n <= Len(c) /\ got' = got + n
      /\ chunk' = SubSeq(c, got + 1, got + n)
      /\ tar' = IF Tar /\ tar.state = "none" THEN [tar EXCEPT !.state = "header"] ELSE tar
      /\ UNCHANGED <<req, content, told, held, open, disk>>
  BY DEF Receive, Goto, diskVars
<1>2. /\ got \in Nat /\ Len(c) \in Nat /\ chunk = <<>> /\ Len(chunk) = 0 /\ Fed /\ ~told
      /\ (\A k \in 1 .. Len(c) : c[k] \in Cell)
      /\ Reader /\ (Tar => TarRead) /\ (~Tar => PlainRead)
  BY <1>1, EmptySeq, LenProperties, ElementOfSeq
     DEF Streamed, IsContent, Reader, Fetching, Control, Answers, Late
<1> HIDE DEF c
<1>3. p \in Int /\ q \in Int /\ (\A k \in p .. q : c[k] \in Cell) /\ q - p + 1 = n /\ (p <= q \/ n = 0)
      /\ (p <= q => n = q - p + 1) /\ \A k \in 1 .. n : p + k - 1 = got + k
  <2>1. got \in Nat /\ n \in Nat /\ Len(c) \in Nat /\ got + n <= Len(c)
    BY <1>1, <1>2
  <2>2. p .. q \subseteq 1 .. Len(c)
    BY <2>1
  <2>3. \A k \in p .. q : c[k] \in Cell
    BY <1>2, <2>2
  <2>4. p \in Int /\ q \in Int /\ q - p + 1 = n /\ (p <= q \/ n = 0) /\ (p <= q => n = q - p + 1)
    BY <2>1
  <2>5. \A k \in 1 .. n : p + k - 1 = got + k
    BY <2>1
  <2> QED
    BY <2>3, <2>4, <2>5
<1> HIDE DEF p, q
<1>4. /\ Len(SubSeq(c, p, q)) = IF p <= q THEN q - p + 1 ELSE 0
      /\ \A k \in 1 .. q - p + 1 : SubSeq(c, p, q)[k] = c[p + k - 1]
  BY <1>3, SubSeqProperties
<1>5. Len(chunk') = n /\ \A k \in 1 .. n : chunk'[k] = c[got + k]
  <2>1. chunk' = SubSeq(c, p, q)
    BY <1>1 DEF p, q
  <2>2. Len(chunk') = n
    BY <1>3, <1>4, <2>1
  <2>3. \A k \in 1 .. n : chunk'[k] = c[p + k - 1]
    BY <1>3, <1>4, <2>1
  <2> QED
    BY <1>3, <2>2, <2>3
<1>6. Place' = got /\ Place = got
  BY <1>1, <1>2, <1>5, SMTT(40) DEF Place
<1> QED
  BY <1>5, <1>6 DEF c

\* A chunk arrives.
LEMMA ReaderReceives ==
  ASSUME Streamed, Tarred, Control, Reader, req.way = "down", NEW n \in Nat, NEW final, Receive(n, final)
  PROVE  Reader'
<1> DEFINE c == content.cells
<1>1. /\ at = "http" /\ at' = "chunk" /\ got + n <= Len(c) /\ got' = got + n
      /\ tar' = IF Tar /\ tar.state = "none" THEN [tar EXCEPT !.state = "header"] ELSE tar
      /\ UNCHANGED <<req, content, told, held, open, disk>>
  BY DEF Receive, Goto, diskVars
<1>2. /\ got \in Nat /\ Len(c) \in Nat /\ chunk = <<>> /\ Len(chunk) = 0 /\ Fed /\ ~told
      /\ (\A k \in 1 .. Len(c) : c[k] \in Cell)
      /\ Reader /\ (Tar => TarRead) /\ (~Tar => PlainRead)
  BY <1>1, EmptySeq, LenProperties, ElementOfSeq
     DEF Streamed, IsContent, Reader, Fetching, Control, Answers, Late
<1> HIDE DEF c
<1>3. Len(chunk') = n /\ \A k \in 1 .. n : chunk'[k] = c[got + k]
  BY Received DEF c
<1>4. Place' = got /\ Place = got
  BY Received
<1>5. Fed'
  <2>1. Len(chunk') <= got'
    BY <1>1, <1>2, <1>3
  <2>2. \A k \in 1 .. Len(chunk') : chunk'[k] = content'.cells[Place' + k]
    BY <1>1, <1>3, <1>4 DEF c
  <2> QED
    BY <2>1, <2>2 DEF Fed
<1>6. ASSUME Tar PROVE TarRead'
  <2>1. tar'.of = tar.of /\ tar'.trailer = tar.trailer /\ tar'.header = tar.header /\ tar'.file = tar.file
        /\ tar'.padding = tar.padding
        /\ (tar.state \in {"none", "header"} => tar'.state = "header")
        /\ (tar.state \notin {"none", "header"} => tar' = tar)
    BY <1>1, <1>6 DEF Tarred, TarRecord
  <2>2. TarRead
    BY <1>2, <1>6
  <2>3. InHeader' /\ InData' /\ InPadding'
    BY <1>1, <1>4, <2>1, <2>2
       DEF TarRead, InHeader, InData, InPadding, Complete, Regular, EntryStart, FileSize, FileName
  <2>4. (tar'.trailer > 0 => tar'.state = "trailer") /\ (tar'.state = "trailer" => tar.state = "trailer")
    BY <2>1, <2>2 DEF TarRead
  <2> QED
    BY <1>1, <2>1, <2>2, <2>3, <2>4 DEF TarRead, Complete, Regular
<1>7. ASSUME ~Tar PROVE PlainRead'
  <2>1. PlainRead /\ tar' = tar
    BY <1>1, <1>2, <1>7
  <2>2. open \in Names /\ disk[open] \in Seq(Cell) /\ held \in Seq(Cell)
    BY <1>1, <1>7 DEF Streamed, Contents
  <2>3. Len(disk[open]) \in Nat /\ Len(held) \in Nat
    BY <2>2, LenProperties
  <2>4. Len(disk[open]) + Len(held) = got
    BY <1>2, <2>1, <2>3 DEF PlainRead
  <2>5. Len(disk[open]) + Len(held) + Len(chunk') = got'
    BY <1>1, <1>2, <1>3, <2>3, <2>4
  <2> QED
    BY <1>1, <2>1, <2>5 DEF PlainRead, FileName, TarNone
<1> QED
  BY <1>1, <1>2, <1>5, <1>6, <1>7 DEF Reader, Untouched, Fetching, Tar

\* What was received is all of the content when the digest is right.
LEMMA ReaderVerifies ==
  ASSUME Streamed, Tarred, Control, Reader, req.way = "down", VerifyDigest
  PROVE  Reader'
<1>1. /\ at = "got" /\ at' \in {"complete", "abort"} /\ (at' = "complete" => got = Len(content.cells))
      /\ UNCHANGED <<req, content, got, chunk, held, tar, open, disk, told>>
  BY DEF VerifyDigest, DigestRight, Proceed, FailsWith, Goto, streamVars, diskVars
<1>2. CASE at' = "abort"
  BY <1>1, <1>2, ReaderLeaves DEF Fetching, Untouched
<1>3. CASE at' = "complete"
  <2>1. /\ Offer(content, req.encoding) /\ req.encoding \in {"none", "lz4", "tar"} /\ Fed /\ chunk = <<>>
        /\ (Tar => TarRead) /\ (~Tar => PlainRead) /\ ~told
    BY <1>1 DEF Reader, Fetching, Control, Answers, Late
  <2>2. Fed'
    BY <1>1, <2>1 DEF Fed, Place
  <2>3. ASSUME Tar PROVE TarRead' /\ disk = content.files
    <3>1. TarRead /\ OfferedArchive
      BY <2>1, <2>3 DEF OfferedArchive, Tar, Streamed
    <3>2. tar.trailer = Trailer /\ Trailer > 0
      BY <1>1, <3>1, TransferAssumption DEF TarRead, Trailer, TransferAssumption
    <3>3. disk = content.files
      BY <3>1, <3>2, CompleteIs DEF TarRead
    <3>4. TarRead'
      BY <1>1, <1>3, <3>1
         DEF TarRead, InHeader, InData, InPadding, Complete, Regular, EntryStart, Place, FileSize, FileName
    <3> QED
      BY <3>3, <3>4
  <2>4. ASSUME ~Tar PROVE PlainRead' /\ disk = content.files
    <3>1. PlainRead
      BY <2>1, <2>4
    <3>2. PlainRead'
      BY <1>1, <3>1 DEF PlainRead, FileName, TarNone
    <3>3. held = <<>> /\ Len(held) = 0 /\ Len(chunk) = 0
      BY <1>1, <1>3, <2>1, <3>1, EmptySeq DEF PlainRead
    <3> DEFINE d == disk[open]
               c == content.cells
    <3>4. Len(content.entries) = 1 /\ content.entries \in Seq(Entry) /\ c \in Seq(Cell)
          /\ disk \in [Names -> Contents]
      BY <2>1, <2>4 DEF Streamed, Tar, IsContent
    <3>5. open \in Names /\ open = content.entries[1].name
      <4>1. content.entries[1] \in Entry
        BY <3>4, ElementOfSeq
      <4> QED
        BY <3>1, <4>1 DEF Entry, PlainRead, FileName
    <3>6. d \in Seq(Cell)
      <4>1. disk[open] # Absent
        BY <3>5, AbsentAssumption DEF Streamed, AbsentAssumption
      <4> QED
        BY <3>4, <3>5, <4>1 DEF Contents
    <3>7. Len(d) \in Nat /\ Len(c) \in Nat
      BY <3>4, <3>6, LenProperties
    <3>8. Len(d) = Len(c) /\ \A k \in 1 .. Len(d) : d[k] = c[k]
      <4>1. Len(d) + Len(held) + Len(chunk) = got /\ \A k \in 1 .. Len(d) : d[k] = c[k]
        BY <3>1 DEF PlainRead
      <4> HIDE DEF d, c
      <4>2. got = Len(c)
        BY <1>1, <1>3 DEF c
      <4> QED
        BY <3>3, <3>7, <4>1, <4>2
    <3>9. d = c
      <4> HIDE DEF d, c
      <4> QED
        BY <3>4, <3>6, <3>8, SeqEqual
    <3>10. content.files = [n \in Names |-> IF n = open THEN c ELSE Absent]
      BY <2>1, <2>4, <3>5 DEF Offer, Tar
    <3>11. \A n \in Names : disk[n] = content.files[n]
      BY <3>1, <3>9, <3>10 DEF PlainRead
    <3>12. disk = content.files
      <4>1. disk = [n \in Names |-> disk[n]]
        BY <3>4
      <4>2. DOMAIN content.files = Names
        BY DEF Streamed, IsContent
      <4> QED
        BY <3>10, <3>11, <4>1
    <3> QED
      BY <3>2, <3>12
  <2> QED
    BY <1>1, <1>3, <2>1, <2>2, <2>3, <2>4 DEF Reader, Untouched, Fetching, Tar
<1> QED
  BY <1>1, <1>2, <1>3

\* The server offers what it got.
LEMMA ReaderHandsOver ==
  ASSUME TypesInv, Packing, Reader, Handover
  PROVE  Reader'
<1>1. /\ req.way = "up" /\ IsTar /\ req' = [req EXCEPT !.way = "down", !.digest = "right", !.size = Len(Stored)]
      /\ at' = "asked" /\ told' = FALSE /\ UNCHANGED <<got, chunk, held, tar>>
  BY DEF Handover, codecVars
<1>2. got = 0 /\ chunk = <<>> /\ held = <<>> /\ tar = TarNone
  BY <1>1 DEF Reader, TypesInv, DownTypes, Streamed
<1>3. req \in Request
  BY DEF TypesInv, CommonTypes
<1>4. req'.way = "down" /\ req'.encoding = "tar"
  BY <1>1, <1>3 DEF IsTar, Request
<1>5. Offer(content, "tar")'
  BY HandoverOffers
<1>6. Offer(content, req.encoding)'
  BY <1>4, <1>5
<1> QED
  BY <1>1, <1>2, <1>4, <1>6 DEF Reader, Untouched, Fetching, TarNone

\* The contents that are offered are archives of their entries, or plain files.
Offered == \A s \in Downloads : Offer(s.content, s.req.encoding)

LEMMA ReaderInit == ASSUME Offered, Init PROVE Reader
<1>1. ASSUME NEW s \in Downloads, DownStarts(s.req, s.content, s.mounts, s.dest) PROVE Reader
  BY <1>1, ArchiveAssumption DEF Offered, ArchiveAssumption, DownStarts, Reader, Untouched, Fetching
<1>2. ASSUME NEW s \in Uploads, UpStarts(s.req, s.tree, s.mounts), DownIdle PROVE Reader
  BY <1>2, ArchiveAssumption DEF ArchiveAssumption, UpStarts, DownIdle, Reader
<1> QED
  BY <1>1, <1>2 DEF Init

\* The steps of the reader together.
LEMMA ReaderHttp ==
  ASSUME Streamed, Tarred, Control, Reader, req.way = "down", Http
  PROVE  Reader'
<1> USE DEF Proceed, Goto, FailsWith, Refuse
<1>1. CASE HttpConnects
  <2>1. at = "request" /\ at' = "http" /\ UNCHANGED <<req, content, got, chunk, held, tar, open, disk, told>>
    BY <1>1 DEF HttpConnects, downVars, streamVars, codecVars, diskVars
  <2> QED
    BY <2>1, ReaderKept
<1>2. CASE HttpGetFails \/ ReceiveFails
  <2>1. at' = "abort" /\ UNCHANGED <<req, content, told, disk>>
    BY <1>2 DEF HttpGetFails, ReceiveFails, downVars, streamVars, diskVars
  <2> QED
    BY <2>1, ReaderLeaves DEF Fetching, Untouched
<1>3. CASE AppendFails \/ \E n \in 0 .. Len(held) + Len(chunk) : DecompressFails(n)
  <2>1. at = "chunk" /\ at' = "abort" /\ UNCHANGED <<req, content, told>>
    BY <1>3 DEF AppendFails, DecompressFails, streamVars
  <2>2. ~told
    BY <2>1 DEF Control, Answers, Late
  <2> QED
    BY <2>1, <2>2, ReaderLeaves DEF Fetching, Untouched
<1>4. ASSUME NEW n \in Pieces, NEW final \in BOOLEAN, Receive(n, final) PROVE Reader'
  <2>1. n \in Nat
    BY DownloadAssumption DEF DownloadAssumption
  <2> QED
    BY <1>4, <2>1, ReaderReceives
<1>5. CASE AppendChunk
  BY <1>5, ReadsPlain
<1>6. ASSUME NEW n \in 0 .. Len(held) + Len(chunk), Decompress(n) PROVE Reader'
  BY <1>6, ReadsCompressed
<1> QED
  BY <1>1, <1>2, <1>3, <1>4, <1>5, <1>6 DEF Http

LEMMA ReaderUnpacks ==
  ASSUME Streamed, Tarred, Control, Reader, req.way = "down", Unpack
  PROVE  Reader'
<1>1. CASE HeaderRefused \/ ReadDataNowhere \/ ReadPaddingRefused \/ ReadTrailerRefused
           \/ TarNotExhausted \/ \E i \in DOMAIN content.entries : HeaderOpenFails(i)
  <2>1. at' = "abort" /\ UNCHANGED <<req, content, told, disk>>
    BY <1>1 DEF HeaderRefused, ReadDataNowhere, ReadPaddingRefused, ReadTrailerRefused, TarNotExhausted,
       HeaderOpenFails, TarRefuses, TarRest, Refuse, FailsWith, Goto
  <2> QED
    BY <2>1, ReaderLeaves DEF Fetching, Untouched
<1>2. ASSUME HeaderPart \/ HeaderOfZeros \/ ReadData \/ ReadPadding \/ ReadTrailer \/ TarChunkEnds
             \/ \E i \in DOMAIN content.entries : HeaderSkipped(i) \/ HeaderOpens(i)
      PROVE  Reader'
  <2>1. at = "chunk" /\ Tar
    BY <1>2 DEF HeaderPart, HeaderOfZeros, ReadData, ReadPadding, ReadTrailer, TarChunkEnds,
       HeaderSkipped, HeaderOpens, InTar
  <2>2. Unpacking
    BY <2>1 DEF Unpacking
  <2> QED
    BY <1>2, <2>2, ReadsHeaderPart, ReadsZeros, ReadsData, ReadsPadding, ReadsTrailer, ReadsToEnd,
       ReadsSkipped, ReadsOpened
<1> QED
  BY <1>1, <1>2 DEF Unpack

LEMMA ReaderEnds ==
  ASSUME Streamed, Tarred, Control, Reader, req.way = "down",
         VerifyDigest \/ WriteComplete \/ WriteAbort \/ DownCommon
  PROVE  Reader'
<1> USE DEF Fetching, Untouched
<1>1. CASE VerifyDigest
  BY <1>1, ReaderVerifies
<1>2. CASE WriteComplete
  <2>1. /\ at = "complete" /\ at' = "destroy" /\ UNCHANGED <<req, content, held, disk>>
    BY <1>2 DEF WriteComplete, streamVars, codecVars
  <2> QED
    BY <2>1 DEF Reader
<1>3. CASE WriteAbort
  <2>1. at = "abort" /\ at' = "destroy" /\ UNCHANGED <<req, content, told>>
    BY <1>3 DEF WriteAbort, Goto, streamVars
  <2>2. ~told
    BY <2>1 DEF Control, Answers, Late
  <2> QED
    BY <2>1, <2>2, ReaderLeaves
<1>4. CASE DownCommon
  <2>1. UNCHANGED <<req, content, got, chunk, held, tar, open, disk, told>>
    BY <1>4 DEF DownCommon, RefuseRequest, DataNew, DataFails, DataDestroy, Respond, Work, downVars, streamVars,
       codecVars, diskVars
  <2>2. \/ at' = at
        \/ at = "data" /\ at' = "digest"
        \/ at' \in {"end", "destroy", "reply"}
    BY <1>4 DEF DownCommon, RefuseRequest, DataNew, DataFails, DataDestroy, Respond, Work
  <2>3. CASE at' = at \/ (at = "data" /\ at' = "digest")
    BY <2>1, <2>3, ReaderKept
  <2>4. CASE at' \in {"end", "destroy", "reply"}
    BY <2>1, <2>4, ReaderLeaves
  <2> QED
    BY <2>2, <2>3, <2>4
<1> QED
  BY <1>1, <1>2, <1>3, <1>4

LEMMA ReaderStep ==
  ASSUME TypesInv, Packing, Reader, [Next]_vars
  PROVE  Reader'
<1>0. Streamed /\ Tarred /\ Control /\ CommonTypes
  BY DEF TypesInv, DownTypes
<1>1. CASE DownNext /\ UNCHANGED upVars
  <2>1. req.way = "down"
    BY <1>0, <1>1, DownRequest
  <2> QED
    BY <1>0, <1>1, <2>1, ReaderStarts, ReaderHttp, ReaderUnpacks, ReaderEnds DEF DownNext
<1>2. CASE UpNext /\ UNCHANGED downVars
  BY <1>0, <1>2, UpRequest DEF Reader, downVars, codecVars
<1>3. CASE Handover
  BY <1>3, ReaderHandsOver
<1>4. CASE UNCHANGED vars
  <2>1. UNCHANGED <<req, content, got, chunk, held, tar, open, disk, told, at>>
    BY <1>4 DEF vars, commonVars, downVars, streamVars, codecVars, diskVars
  <2> QED
    BY <2>1, ReaderKept
<1> QED
  BY <1>1, <1>2, <1>3, <1>4 DEF Next, Rest

\* What is at the destination is a part of what is wanted.
PartWritten(d) ==
  \A n \in Names : d[n] # Absent => content.files[n] # Absent /\ IsPrefix(d[n], content.files[n])

\* What is complete, or a file in part, is a part of what is wanted.
LEMMA PartOfItself == ASSUME NEW s \in Seq(Cell) PROVE IsPrefix(s, s)
<1>1. Len(s) \in Nat
  BY LenProperties
<1> QED
  BY <1>1, PrefixIs

LEMMA CompleteIsPart ==
  ASSUME OfferedArchive, NEW i
  PROVE  PartWritten(Complete(i))
<1>1. \A n \in Names : content.files[n] \in Seq(Cell) \cup {Absent}
  BY DEF OfferedArchive, IsContent
<1>2. \A n \in Names : Complete(i)[n] # Absent => Complete(i)[n] = content.files[n]
  BY DEF Complete, Whole
<1> QED
  BY <1>1, <1>2, PartOfItself DEF PartWritten

LEMMA FileIsPart ==
  ASSUME OfferedArchive, NEW i \in 1 .. Len(content.entries), Regular(i), NEW m \in Nat,
         m <= content.entries[i].size, Complete(i - 1)[FileName(i)] = Absent
  PROVE  PartWritten([Complete(i - 1) EXCEPT ![FileName(i)] = DataOf(i, m)])
<1> DEFINE d == [Complete(i - 1) EXCEPT ![FileName(i)] = DataOf(i, m)]
           w == content.entries[i].size
<1>1. content.entries \in Seq(Entry) /\ Len(content.entries) \in Nat
  BY LenProperties DEF OfferedArchive, IsContent
<1>2. content.entries[i] \in Entry
  BY <1>1, ElementOfSeq
<1>3. w \in Nat /\ FileName(i) \in Names /\ i \in Nat
  BY <1>1, <1>2 DEF Entry, FileName
<1>4. content.files[FileName(i)] = DataOf(i, w)
  BY CompleteIs
<1> HIDE DEF w
<1>5. /\ DataOf(i, m) \in Seq(Cell) /\ Len(DataOf(i, m)) = m /\ \A k \in 1 .. m : DataOf(i, m)[k] = <<"data", i, k>>
      /\ DataOf(i, w) \in Seq(Cell) /\ Len(DataOf(i, w)) = w /\ \A k \in 1 .. w : DataOf(i, w)[k] = <<"data", i, k>>
  BY <1>3, DataIsSeq
<1>6. m <= w
  BY DEF w
<1>7. IsPrefix(DataOf(i, m), DataOf(i, w))
  <2>1. ASSUME NEW k \in 1 .. m PROVE DataOf(i, m)[k] = DataOf(i, w)[k]
    <3>1. k \in 1 .. w
      BY <1>3, <1>6
    <3>2. DataOf(i, m)[k] = <<"data", i, k>>
      BY <1>5
    <3>3. DataOf(i, w)[k] = <<"data", i, k>>
      BY <1>5, <3>1
    <3> QED
      BY <3>2, <3>3
  <2> QED
    BY <1>5, <1>6, <2>1, PrefixIs
<1>8. DataOf(i, w) # Absent
  BY <1>5, AbsentAssumption DEF AbsentAssumption
<1>9. PartWritten(Complete(i - 1))
  BY CompleteIsPart
<1>10. d[FileName(i)] = DataOf(i, m) /\ \A n \in Names : n # FileName(i) => d[n] = Complete(i - 1)[n]
  BY <1>3 DEF Complete, Whole
<1> HIDE DEF d
<1>11. PartWritten(d)
  BY <1>4, <1>7, <1>8, <1>9, <1>10 DEF PartWritten
<1> QED
  BY <1>11 DEF d

\* What a plain download has brought so far is a part of the one file.
LEMMA PlainIsPart ==
  ASSUME Streamed, ~Tar, Offer(content, req.encoding), req.encoding \in {"none", "lz4"},
         NEW f \in Names, f = FileName(1), NEW d, \A n \in Names : n # f => d[n] = Absent,
         d[f] \in Seq(Cell), Len(d[f]) <= Len(content.cells),
         \A k \in 1 .. Len(d[f]) : d[f][k] = content.cells[k]
  PROVE  PartWritten(d)
<1>1. content.files = [n \in Names |-> IF n = f THEN content.cells ELSE Absent]
  BY DEF Offer, FileName
<1>2. content.cells \in Seq(Cell) /\ content.cells # Absent
  BY AbsentAssumption DEF Streamed, IsContent, AbsentAssumption
<1>3. IsPrefix(d[f], content.cells)
  BY <1>2, PrefixIs
<1> QED
  BY <1>1, <1>2, <1>3 DEF PartWritten
-----------------------------------------------------------------------------
(***************************************************************************)
(* The steps of the promise.                                               *)
(***************************************************************************)
\* The verdict and the record of Promise, as its instance has them.
Verdict == CASE req.way = "up" -> "idle"
             [] req.way = "down" /\ code = "none" -> "none"
             [] req.way = "down" /\ code = "0" -> "ok"
             [] OTHER -> "error"
Kept == kept /\ req.way = "down"
Promised == <<content.files, Stays, lost, Verdict, Kept>>

\* What stays of a file: all of it, or nothing of what was written to it.
LEMMA StaysIs ==
  ASSUME NEW n \in Names
  PROVE  /\ disk[n] = Absent => Stays[n] = Absent
         /\ n \notin lost => Stays[n] = disk[n]
         /\ n \in lost /\ disk[n] # Absent => Stays[n] = <<>>
         /\ disk'[n] = Absent => Stays'[n] = Absent
         /\ n \notin lost' => Stays'[n] = disk'[n]
         /\ n \in lost' /\ disk'[n] # Absent => Stays'[n] = <<>>
BY DEF Stays

LEMMA StaysKept == ASSUME UNCHANGED <<disk, lost>> PROVE Stays' = Stays
BY DEF Stays

LEMMA StaysNothing ==
  /\ disk = Nothing => Stays = Nothing
  /\ disk' = Nothing => Stays' = Nothing
BY AbsentAssumption DEF Stays, Nothing

\* The start of a file.
LEMMA EmptyPrefix == ASSUME NEW t \in Seq(Cell) PROVE <<>> # Absent /\ IsPrefix(<<>>, t) /\ IsPrefix(t, t)
<1>1. <<>> \in Seq(Cell) /\ Len(<<>>) = 0 /\ Len(t) \in Nat
  BY EmptySeq, LenProperties
<1>2. <<>> # Absent
  BY <1>1, AbsentAssumption DEF AbsentAssumption
<1>3. IsPrefix(t, t)
  BY <1>1, PrefixIs, PartOfItself
<1> DEFINE none == <<>>
<1>4. none \in Seq(Cell) /\ Len(none) <= Len(t)
  BY <1>1
<1>5. \A k \in 1 .. Len(none) : none[k] = t[k]
  BY <1>1
<1> HIDE DEF none
<1>6. IsPrefix(none, t)
  BY ONLY <1>4, <1>5, PrefixIs, t \in Seq(Cell)
<1> QED
  BY <1>2, <1>3, <1>6 DEF none

\* A file of which less stays than before.
LEMMA LessStays ==
  ASSUME Streamed, lost \subseteq lost', NEW n \in Names, disk'[n] = disk[n], Stays'[n] # Stays[n]
  PROVE  /\ n \in lost' /\ Stays[n] # Absent /\ Stays'[n] # Absent /\ IsPrefix(Stays'[n], Stays[n])
<1>1. disk[n] # Absent /\ n \in lost' /\ n \notin lost
  BY StaysIs
<1>2. disk[n] \in Seq(Cell)
  BY <1>1 DEF Streamed, Contents
<1>3. Stays[n] = disk[n] /\ Stays'[n] = <<>>
  BY <1>1, StaysIs
<1> QED
  BY <1>1, <1>2, <1>3, EmptyPrefix

\* The download writes.
LEMMA WriteRefines ==
  ASSUME Streamed, req.way = "down", code = "none", UNCHANGED <<req, code, kept, content>>, PartWritten(disk'),
         lost \subseteq lost',
         \A n \in Names : disk'[n] # disk[n] =>
           disk'[n] # Absent /\ (disk[n] # Absent => IsPrefix(disk[n], disk'[n]))
  PROVE  Promise!Write
<1>1. Verdict = "none" /\ Verdict' = Verdict /\ content.files' = content.files /\ Kept' = Kept
  BY DEF Verdict, Kept
<1>2. ASSUME NEW n \in Names, Stays'[n] # Stays[n]
      PROVE  \/ /\ Stays'[n] # Absent /\ content.files[n] # Absent /\ IsPrefix(Stays'[n], content.files[n])
                /\ Stays[n] # Absent => IsPrefix(Stays[n], Stays'[n])
             \/ n \in lost' /\ Stays[n] # Absent /\ Stays'[n] # Absent /\ IsPrefix(Stays'[n], Stays[n])
  <2>1. CASE disk'[n] = disk[n]
    BY <1>2, <2>1, LessStays
  <2>2. CASE disk'[n] # disk[n]
    <3>1. disk'[n] # Absent /\ (disk[n] # Absent => IsPrefix(disk[n], disk'[n]))
      BY <2>2
    <3>2. content.files[n] # Absent /\ content.files[n] \in Seq(Cell) /\ IsPrefix(disk'[n], content.files[n])
      BY <3>1 DEF PartWritten, Streamed, IsContent
    <3>3. CASE n \notin lost'
      <4>1. Stays[n] = disk[n] /\ Stays'[n] = disk'[n]
        BY <3>3, StaysIs
      <4> QED
        BY <3>1, <3>2, <4>1
    <3>4. CASE n \in lost'
      <4>1. Stays'[n] = <<>> /\ <<>> # Absent /\ IsPrefix(<<>>, content.files[n])
        BY <3>1, <3>2, <3>4, StaysIs, EmptyPrefix
      <4>2. CASE disk[n] = Absent
        BY <3>2, <4>1, <4>2, StaysIs
      <4>3. CASE disk[n] # Absent
        <5>1. disk[n] \in Seq(Cell)
          BY <4>3 DEF Streamed, Contents
        <5>2. n \notin lost /\ Stays[n] = disk[n]
          BY <1>2, <4>1, <4>3, StaysIs
        <5> QED
          BY <3>4, <4>1, <4>3, <5>1, <5>2, EmptyPrefix
      <4> QED
        BY <4>2, <4>3
    <3> QED
      BY <3>3, <3>4
  <2> QED
    BY <2>1, <2>2
<1> QED
  BY <1>1, <1>2 DEF Promise!Write, Promise!Grows, Promise!Shrinks, Promise!IsPrefix, IsPrefix, Verdict, Kept

\* A file is closed and lost.
LEMMA LossRefines ==
  ASSUME Streamed, req.way = "down", code = "none", UNCHANGED <<req, code, kept, content, disk>>, lost \subseteq lost'
  PROVE  Promise!Write
<1>1. Verdict = "none" /\ Verdict' = Verdict /\ content.files' = content.files /\ Kept' = Kept
  BY DEF Verdict, Kept
<1>2. ASSUME NEW n \in Names, Stays'[n] # Stays[n]
      PROVE  n \in lost' /\ Stays[n] # Absent /\ Stays'[n] # Absent /\ IsPrefix(Stays'[n], Stays[n])
  BY <1>2, LessStays
<1> QED
  BY <1>1, <1>2 DEF Promise!Write, Promise!Shrinks, Promise!IsPrefix, IsPrefix, Verdict, Kept

\* A file is made, or grows.
LEMMA MadeRefines ==
  ASSUME Streamed, req.way = "down", code = "none", UNCHANGED <<req, code, kept, content>>, lost \subseteq lost',
         PartWritten(disk'), NEW n \in Names, disk[n] = Absent, disk' = [disk EXCEPT ![n] = <<>>]
  PROVE  Promise!Write
<1>1. disk'[n] # Absent /\ \A m \in Names : m # n => disk'[m] = disk[m]
  BY MadeTypes DEF Streamed
<1> QED
  BY <1>1, WriteRefines

LEMMA AppendRefines ==
  ASSUME Streamed, req.way = "down", code = "none", UNCHANGED <<req, code, kept, content>>, lost \subseteq lost',
         PartWritten(disk'), open # Absent, NEW s \in Seq(Cell), disk' = Appended(s)
  PROVE  Promise!Write
<1> DEFINE d == disk[open]
<1>1. open \in Names /\ d \in Seq(Cell)
  BY DEF Streamed, Contents
<1>2. /\ disk'[open] = d \o s /\ disk'[open] # Absent
      /\ \A m \in Names \ {open} : disk'[m] = disk[m]
  BY AppendedTypes
<1>3. Len(d) \in Nat /\ Len(s) \in Nat
  BY <1>1, LenProperties
<1>4. /\ d \o s \in Seq(Cell) /\ Len(d \o s) = Len(d) + Len(s)
      /\ \A k \in 1 .. Len(d) + Len(s) : (d \o s)[k] = IF k <= Len(d) THEN d[k] ELSE s[k - Len(d)]
  BY <1>1, ConcatProperties
<1> HIDE DEF d
<1>5. /\ Len(d) <= Len(d \o s) /\ \A k \in 1 .. Len(d) : d[k] = (d \o s)[k]
  BY <1>3, <1>4
<1>6. IsPrefix(d, d \o s)
  BY <1>1, <1>4, <1>5, PrefixIs
<1> QED
  BY <1>1, <1>2, <1>6, WriteRefines DEF d

\* The download goes on, or an upload does.
LEMMA NothingRefines ==
  ASSUME UNCHANGED <<req, code, kept, content, disk, lost>>
  PROVE  UNCHANGED Promised
BY StaysKept DEF Promised, Verdict, Kept

LEMMA UploadRefines ==
  ASSUME req.way = "up", UNCHANGED <<req, content, disk, lost>>
  PROVE  UNCHANGED Promised
BY StaysKept DEF Promised, Verdict, Kept

\* One file after some bytes were added to it is a part of the wanted one.
LEMMA PlainWriteRefines ==
  ASSUME Streamed, req.way = "down", code = "none", UNCHANGED <<req, code, kept, content>>, lost \subseteq lost',
         ~Tar, Offer(content, req.encoding), req.encoding \in {"none", "lz4"}, PlainRead, open # Absent,
         NEW s \in Seq(Cell), disk' = Appended(s), Len(disk'[open]) <= Len(content.cells),
         \A k \in 1 .. Len(disk'[open]) : disk'[open][k] = content.cells[k]
  PROVE  Promise!Write
<1>1. open \in Names /\ open = FileName(1) /\ \A n \in Names : n # open => disk[n] = Absent
  BY DEF Streamed, PlainRead
<1>2. disk'[open] \in Seq(Cell) /\ \A n \in Names \ {open} : disk'[n] = disk[n]
  BY AppendedTypes
<1>3. PartWritten(disk')
  BY <1>1, <1>2, PlainIsPart
<1> QED
  BY <1>3, AppendRefines

\* The destination of a plain download is made.
LEMMA InitRefines ==
  ASSUME Streamed, Control, Reader, req.way = "down", WriteInit
  PROVE  Promise!Next \/ UNCHANGED Promised
<1>1. /\ at = "init" /\ UNCHANGED <<req, code, kept, content, lost>>
      /\ IF Tar THEN UNCHANGED disk
                ELSE disk' = [disk EXCEPT ![content.entries[1].name] = <<>>]
  BY DEF WriteInit, Proceed, Goto, streamVars
<1>2. CASE Tar
  BY <1>1, <1>2, NothingRefines
<1>3. CASE ~Tar
  <2> DEFINE f == content.entries[1].name
  <2>1. code = "none" /\ disk = Nothing
    BY <1>1 DEF Control, Answers, Placed
  <2>2. /\ req.encoding \in {"none", "lz4"} /\ Offer(content, req.encoding)
    BY <1>1, <1>3 DEF Reader, Fetching, Tar
  <2>3. f \in Names
    <3>1. Len(content.entries) = 1 /\ content.entries \in Seq(Entry)
      BY <2>2 DEF Streamed, IsContent
    <3>2. content.entries[1] \in Entry
      BY <3>1, ElementOfSeq
    <3> QED
      BY <3>2 DEF Entry
  <2>4. f = FileName(1)
    BY DEF FileName
  <2> HIDE DEF f
  <2>5. /\ disk[f] = Absent /\ disk' = [disk EXCEPT ![f] = <<>>]
        /\ disk'[f] = <<>> /\ \A n \in Names : n # f => disk'[n] = Absent
    BY <1>1, <1>3, <2>1, <2>3 DEF f, Nothing
  <2>6. /\ disk'[f] \in Seq(Cell) /\ Len(disk'[f]) = 0 /\ Len(content.cells) \in Nat
    BY <2>5, EmptySeq, LenProperties DEF Streamed, IsContent
  <2>7. PartWritten(disk')
    <3> DEFINE d == disk'
    <3>1. /\ \A n \in Names : n # f => d[n] = Absent
          /\ d[f] \in Seq(Cell) /\ Len(d[f]) <= Len(content.cells)
          /\ \A k \in 1 .. Len(d[f]) : d[f][k] = content.cells[k]
      BY <2>5, <2>6
    <3> HIDE DEF d
    <3>2. PartWritten(d)
      BY <1>3, <2>2, <2>3, <2>4, <3>1, PlainIsPart
    <3> QED
      BY <3>2 DEF d
  <2>8. Promise!Write
    BY <1>1, <2>1, <2>3, <2>5, <2>7, MadeRefines
  <2> QED
    BY <2>8 DEF Promise!Next
<1> QED
  BY <1>2, <1>3

\* A chunk of a plain download is written.
LEMMA PlainChunkRefines ==
  ASSUME Streamed, Tarred, Control, Reader, req.way = "down",
         AppendChunk \/ \E n \in 0 .. Len(held) + Len(chunk) : Decompress(n)
  PROVE  Promise!Next
<1>1. PICK s : disk' = Appended(s) /\ s \in Seq(Cell)
  <2>1. chunk \in Seq(Cell) /\ held \in Seq(Cell)
    BY DEF Streamed
  <2>2. CASE AppendChunk
    BY <2>1, <2>2 DEF AppendChunk
  <2>3. ASSUME NEW n \in 0 .. Len(held) + Len(chunk), Decompress(n)
        PROVE  \E s : disk' = Appended(s) /\ s \in Seq(Cell)
    BY <2>3, InputIs DEF Decompress
  <2> QED
    BY <2>2, <2>3
<1>2. /\ at = "chunk" /\ ~Tar /\ at' \in {"got", "http"} /\ chunk' = <<>>
      /\ UNCHANGED <<req, content, code, kept, got, open, lost>>
  BY DEF AppendChunk, Decompress, ChunkDone, Proceed, Goto, Tar
<1>3. Reader'
  BY ReadsPlain, ReadsCompressed
<1>4. PlainRead /\ Offer(content, req.encoding) /\ req.encoding \in {"none", "lz4"} /\ open # Absent
      /\ got \in Nat /\ got <= Len(content.cells) /\ Len(content.cells) \in Nat
  BY <1>2, PlainIs DEF Fetching, Streamed
<1>5. PlainRead'
  BY <1>2, <1>3 DEF Reader, Fetching, Tar
<1>6. code = "none"
  BY <1>2 DEF Control, Answers
<1>7. disk'[open] \in Seq(Cell)
  BY <1>1, <1>4, AppendedTypes
<1>8. Len(disk'[open]) \in Nat /\ held' \in Seq(Cell)
  <2>1. held' \in Seq(Cell)
    BY StreamedHttp DEF Streamed, Http
  <2> QED
    BY <1>7, <2>1, LenProperties
<1>9. Len(held') \in Nat /\ Len(chunk') \in Nat
  BY <1>2, <1>8, LenProperties, EmptySeq
<1>10. /\ Len(disk'[open]) + Len(held') + Len(chunk') = got
       /\ \A k \in 1 .. Len(disk'[open]) : disk'[open][k] = content.cells[k]
  BY <1>2, <1>5 DEF PlainRead
<1>11. Len(disk'[open]) <= Len(content.cells)
  BY ONLY <1>4, <1>8, <1>9, <1>10
<1>12. Promise!Write
  BY <1>1, <1>2, <1>4, <1>6, <1>10, <1>11, PlainWriteRefines
<1> QED
  BY <1>12 DEF Promise!Next

\* The data of an archive is written.
LEMMA DataRefines ==
  ASSUME Unpacking, tar.state = "data", NEW n \in 0 .. Len(chunk), tar.file + n <= FileSize,
         n > 0 => open # Absent /\ disk' = Appended(First(n)), n = 0 => disk' = disk,
         UNCHANGED <<req, code, kept, content, lost>>, code = "none"
  PROVE  Promise!Next \/ UNCHANGED Promised
<1> DEFINE i == tar.of
           m == tar.file + n
<1>1. CASE n = 0
  BY <1>1, NothingRefines
<1>2. CASE n > 0
  <2>1. /\ ~Regular(i) => n = 0
        /\ Regular(i) => disk' = [Complete(i - 1) EXCEPT ![open] = DataOf(i, m)]
    BY DataWritten
  <2>2. Regular(i)
    BY <1>2, <2>1
  <2>3. open = FileName(i) /\ Complete(i - 1)[open] = Absent
    BY <2>2, UnpackingIs DEF TarRead, InData
  <2>4. i \in 1 .. Len(content.entries) /\ FileSize = content.entries[i].size /\ tar.file \in Nat
        /\ OfferedArchive /\ Len(chunk) \in Nat
    BY CurrentEntry, UnpackingIs DEF FileSize, TarRecord
  <2>5. m \in Nat /\ m <= content.entries[i].size
    BY <2>4
  <2> HIDE DEF m
  <2>6. PartWritten([Complete(i - 1) EXCEPT ![FileName(i)] = DataOf(i, m)])
    BY <2>2, <2>3, <2>4, <2>5, FileIsPart
  <2>7. PartWritten(disk')
    BY <2>1, <2>2, <2>3, <2>6
  <2>8. First(n) \in Seq(Cell) /\ disk' = Appended(First(n)) /\ open # Absent
    BY <1>2, UnpackingIs, Cuts
  <2>9. Streamed /\ req.way = "down"
    BY DEF Unpacking
  <2>10. Promise!Write
    BY <2>7, <2>8, <2>9, AppendRefines
  <2> QED
    BY <2>10 DEF Promise!Next
<1>3. n = 0 \/ n > 0
  BY UnpackingIs
<1> QED
  BY <1>1, <1>2, <1>3

\* One pass of the reader of an archive.
LEMMA UnpackRefines ==
  ASSUME Streamed, Tarred, Control, Reader, req.way = "down", Unpack
  PROVE  Promise!Next \/ UNCHANGED Promised
<1>1. at = "chunk" /\ Tar /\ UNCHANGED <<req, code, kept, content>> /\ lost \subseteq lost'
  BY DEF Close, Unkept, Unpack, HeaderPart, HeaderOfZeros, HeaderRefused, HeaderSkipped, HeaderOpens, HeaderOpenFails, ReadData,
     ReadDataNowhere, ReadPadding, ReadPaddingRefused, ReadTrailer, ReadTrailerRefused, TarChunkEnds,
     TarNotExhausted, InTar, TarRefuses, Refuse, FailsWith, Proceed, Goto, ReadHeader, TarRest, ChunkDone,
     downVars, streamVars, diskVars
<1>2. Unpacking /\ code = "none"
  BY <1>1 DEF Unpacking, Control, Answers
<1>3. CASE disk' = disk
  BY <1>1, <1>2, <1>3, LossRefines DEF Promise!Next
<1>4. CASE ReadData
  <2>0. lost' = lost
    BY <1>4 DEF ReadData
  <2>1. tar.state = "data"
    BY <1>2, <1>4, DataStep
  <2>2. PICK n \in 0 .. Len(chunk) :
          /\ tar.file + n <= FileSize
          /\ n > 0 => open # Absent /\ disk' = Appended(First(n))
          /\ n = 0 => disk' = disk
    BY <1>2, <1>4, DataStep
  <2> QED
    BY <1>1, <1>2, <2>0, <2>1, <2>2, DataRefines
<1>5. ASSUME NEW i \in DOMAIN content.entries, HeaderOpens(i)
      PROVE  Promise!Next
  <2>1. /\ tar.state = "header" /\ HeaderFull /\ HeaderIs(i) /\ Regular(i) /\ ReadHeader(StartData(i))
        /\ disk[FileName(i)] = Absent /\ disk' = [disk EXCEPT ![FileName(i)] = <<>>]
    BY <1>5 DEF HeaderOpens, InTar, EntryOk, FileName
  <2>2. i \in 1 .. Len(content.entries) /\ disk = Complete(i - 1)
    BY <1>2, <2>1, ReadsNextHeader
  <2>3. OfferedArchive /\ content.entries \in Seq(Entry)
    BY <1>2, UnpackingIs
  <2>4. content.entries[i] \in Entry
    BY <2>3, ElementOfSeq, <2>2
  <2>5. FileName(i) \in Names /\ content.entries[i].size \in Nat
    BY <2>4 DEF FileName, Entry
  <2>6. DataOf(i, 0) = <<>>
    BY DEF DataOf
  <2>7. 0 \in Nat /\ 0 <= content.entries[i].size
    BY <2>5
  <2>8. PartWritten([Complete(i - 1) EXCEPT ![FileName(i)] = DataOf(i, 0)])
    BY <2>1, <2>2, <2>3, <2>7, FileIsPart
  <2>9. PartWritten(disk')
    BY <2>1, <2>2, <2>6, <2>8
  <2>10. Promise!Write
    BY <1>1, <1>2, <2>1, <2>5, <2>9, MadeRefines
  <2> QED
    BY <2>10 DEF Promise!Next
<1>6. ReadData \/ (\E i \in DOMAIN content.entries : HeaderOpens(i)) \/ disk' = disk
  BY DEF Unpack, HeaderPart, HeaderOfZeros, HeaderRefused, HeaderSkipped, HeaderOpenFails,
     ReadDataNowhere, ReadPadding, ReadPaddingRefused, ReadTrailer, ReadTrailerRefused, TarChunkEnds,
     TarNotExhausted, TarRefuses, downVars, diskVars
<1> QED
  BY <1>3, <1>4, <1>5, <1>6

\* Nothing is added.
LEMMA NothingAppended ==
  ASSUME Streamed, open # Absent
  PROVE  First(0) = <<>> /\ Appended(First(0)) = disk
<1>1. chunk \in Seq(Cell) /\ Len(chunk) \in Nat /\ disk[open] \in Seq(Cell) /\ disk \in [Names -> Contents]
  BY LenProperties DEF Streamed, Contents
<1>2. First(0) \in Seq(Cell) /\ Len(First(0)) = 0
  <2>1. 0 \in 0 .. Len(chunk)
    BY <1>1
  <2> QED
    BY <1>1, <2>1, Cuts
<1>3. First(0) = <<>>
  BY <1>2, EmptySeq
<1>4. disk[open] \o <<>> = disk[open]
  BY <1>1, ConcatEmptySeq
<1> QED
  BY <1>1, <1>3, <1>4 DEF Appended

\* A part of a chunk is written.
LEMMA AppendFailsRefines ==
  ASSUME Streamed, Tarred, Control, Reader, req.way = "down", AppendFails
  PROVE  Promise!Next \/ UNCHANGED Promised
<1>1. /\ at = "chunk" /\ open # Absent /\ UNCHANGED <<req, code, kept, content, lost>>
      /\ req.encoding = "none" \/ tar.state = "data"
  BY DEF AppendFails, Refuse, FailsWith, Goto, streamVars
<1>2. PICK n \in 0 .. Len(chunk) - 1 : (Tar => tar.file + n < FileSize) /\ disk' = Appended(First(n))
  BY DEF AppendFails
<1>3. code = "none" /\ chunk \in Seq(Cell) /\ Len(chunk) \in Nat
  BY <1>1, LenProperties DEF Control, Answers, Streamed
<1>4. n \in 0 .. Len(chunk) /\ n \in Nat
  BY <1>3
<1>5. CASE Tar
  <2>1. Unpacking /\ tar.state = "data"
    BY <1>1, <1>5 DEF Unpacking, Tar
  <2>2. tar.file + n <= FileSize
    <3>1. tar.file \in Nat /\ FileSize \in Nat
      BY <2>1, CurrentEntry, UnpackingIs DEF TarRecord
    <3> QED
      BY <1>2, <1>4, <1>5, <3>1
  <2>3. n = 0 => disk' = disk
    BY <1>1, <1>2, NothingAppended
  <2> QED
    BY <1>1, <1>2, <1>3, <1>4, <2>1, <2>2, <2>3, DataRefines
<1>6. CASE ~Tar
  <2>1. PlainRead /\ Offer(content, req.encoding) /\ req.encoding \in {"none", "lz4"}
        /\ Len(held) \in Nat /\ got \in Nat /\ Len(content.cells) \in Nat /\ got <= Len(content.cells)
    BY <1>1, <1>6, PlainIs DEF Fetching, Streamed
  <2>2. req.encoding = "none"
    <3>1. tar.state = "none"
      BY <2>1, TarNoneIs DEF PlainRead
    <3> QED
      BY <1>1, <3>1
  <2> DEFINE a == First(n)
  <2>3. a \in Seq(Cell) /\ Len(a) = n /\ \A k \in 1 .. n : a[k] = chunk[k]
    BY <1>3, <1>4, Cuts
  <2>4. \A k \in 1 .. Len(chunk) : chunk[k] = content.cells[Len(disk[open]) + k]
    BY <1>1, <2>2, PlainPlace
  <2> HIDE DEF a
  <2>5. ASSUME NEW k \in 1 .. Len(a) PROVE a[k] = content.cells[Len(disk[open]) + k]
    <3>1. k \in 1 .. Len(chunk) /\ k \in 1 .. n
      BY <1>3, <1>4, <2>3
    <3> QED
      BY <2>3, <2>4, <3>1
  <2>6. /\ Len(disk[open]) \in Nat /\ Len(Appended(a)[open]) = Len(disk[open]) + Len(a)
        /\ \A k \in 1 .. Len(Appended(a)[open]) : Appended(a)[open][k] = content.cells[k]
    BY <1>1, <1>6, <2>1, <2>3, <2>5, PlainAppended
  <2>7. Len(disk[open]) + Len(held) + Len(chunk) = got
    BY <2>1 DEF PlainRead
  <2>8. disk' = Appended(a)
    BY <1>2 DEF a
  <2>9. Len(disk'[open]) <= Len(content.cells)
    <3>1. Len(disk'[open]) = Len(disk[open]) + n
      BY <2>3, <2>6, <2>8
    <3> QED
      BY ONLY <1>3, <1>4, <2>1, <2>6, <2>7, <3>1
  <2>10. Promise!Write
    BY <1>1, <1>3, <1>6, <2>1, <2>3, <2>6, <2>8, <2>9, PlainWriteRefines
  <2> QED
    BY <2>10 DEF Promise!Next
<1> QED
  BY <1>5, <1>6

\* A part of what was decompressed is written.
LEMMA DecompressFailsRefines ==
  ASSUME Streamed, Tarred, Control, Reader, req.way = "down",
         NEW n \in 0 .. Len(held) + Len(chunk), DecompressFails(n)
  PROVE  Promise!Next
<1> DEFINE a == SubSeq(Input, 1, n)
           d == Len(disk[open])
<1>1. /\ at = "chunk" /\ req.encoding = "lz4" /\ ~Tar /\ disk' = Appended(a)
      /\ UNCHANGED <<req, code, kept, content, lost>>
  BY DEF DecompressFails, Refuse, FailsWith, Goto, streamVars, Tar
<1>2. code = "none"
  BY <1>1 DEF Control, Answers
<1>3. /\ PlainRead /\ Offer(content, req.encoding) /\ got \in Nat /\ Len(content.cells) \in Nat
      /\ got <= Len(content.cells)
  BY <1>1, PlainIs DEF Fetching, Streamed
<1>4. /\ d \in Nat /\ d + Len(Input) = got /\ n <= Len(Input) /\ Len(Input) \in Nat /\ n \in Nat
      /\ \A k \in 1 .. Len(Input) : Input[k] = content.cells[d + k]
      /\ a \in Seq(Cell) /\ Len(a) = n /\ \A k \in 1 .. n : a[k] = Input[k]
  BY <1>1, InputIs
<1> HIDE DEF a, d
<1>5. \A k \in 1 .. Len(a) : a[k] = content.cells[d + k]
  BY <1>4
<1>6. /\ open # Absent /\ Len(Appended(a)[open]) = d + n
      /\ \A k \in 1 .. Len(Appended(a)[open]) : Appended(a)[open][k] = content.cells[k]
  BY <1>1, <1>3, <1>4, <1>5, PlainAppended DEF d
<1>7. Len(disk'[open]) <= Len(content.cells)
  <2>1. Len(disk'[open]) = d + n
    BY <1>1, <1>6
  <2> QED
    BY ONLY <1>3, <1>4, <2>1
<1>8. Promise!Write
  BY <1>1, <1>2, <1>3, <1>4, <1>6, <1>7, PlainWriteRefines
<1> QED
  BY <1>8 DEF Promise!Next

\* Files are taken back.
LEMMA DiscardRefines ==
  ASSUME Streamed, req.way = "down", code = "none", UNCHANGED <<req, code, content>>, lost \subseteq lost',
         \A n \in Names : disk'[n] \in {disk[n], Absent}, disk' = Nothing \/ kept'
  PROVE  Promise!Next
<1>1. Verdict = "none" /\ Verdict' = Verdict /\ content.files' = content.files
  BY DEF Verdict
<1>2. Promise!Nothing = Nothing
  BY DEF Promise!Nothing, Nothing
<1>3. ASSUME NEW n \in Names, Stays'[n] # Stays[n], Stays'[n] # Absent
      PROVE  n \in lost' /\ Stays[n] # Absent /\ IsPrefix(Stays'[n], Stays[n])
  <2>1. disk'[n] = disk[n]
    BY <1>3, StaysIs
  <2> QED
    BY <1>3, <2>1, LessStays
<1>4. \A n \in Names : Stays'[n] \in {Stays[n], Absent} \/ Promise!Shrinks(n)
  BY <1>3 DEF Promise!Shrinks, Promise!IsPrefix, IsPrefix
<1>5. Stays' # Nothing => Kept'
  BY StaysNothing DEF Kept
<1>6. Promise!Discard
  BY <1>1, <1>2, <1>4, <1>5 DEF Promise!Discard, Verdict, Kept
<1> QED
  BY <1>6 DEF Promise!Next

\* The response is sent.
LEMMA AnswerRefines ==
  ASSUME req.way = "down", code = "none", code' # "none", UNCHANGED <<req, content, disk, lost, kept>>,
         code' = "0" => disk = content.files, code' # "0" => disk = Nothing \/ kept
  PROVE  Promise!Next
<1>1. Verdict = "none" /\ Verdict' \in {"ok", "error"} /\ (Verdict' = "ok" <=> code' = "0")
      /\ content.files' = content.files
  BY DEF Verdict
<1>2. Promise!Nothing = Nothing
  BY DEF Promise!Nothing, Nothing
<1>3. Stays' = Stays /\ (disk = Nothing => Stays = Nothing) /\ Kept' = Kept /\ (kept => Kept)
  BY StaysKept, StaysNothing DEF Kept
<1>4. code' = "0" => \A n \in Names \ lost : Stays[n] = content.files[n]
  BY StaysIs
<1>5. Promise!Answer
  BY <1>1, <1>2, <1>3, <1>4 DEF Promise!Answer, Verdict, Kept
<1> QED
  BY <1>5 DEF Promise!Next

\* Every step of a download, the request of the server for one, and the first state.
LEMMA DownRefines ==
  ASSUME Streamed, Tarred, Control, Reader, Control', DownNext
  PROVE  Promise!Next \/ UNCHANGED Promised
<1> USE DEF Proceed, Goto, FailsWith, Refuse
<1>0. req.way = "down" /\ UNCHANGED <<req, content>>
  BY DownRequest, ContentKept
<1>1. CASE CheckSize \/ WriteInitRefuses \/ WriteInitFails \/ SetupDigest
  <2>1. UNCHANGED <<code, kept, disk, lost>>
    BY <1>1 DEF CheckSize, WriteInitRefuses, WriteInitFails, SetupDigest, downVars, diskVars
  <2> QED
    BY <1>0, <2>1, NothingRefines
<1>2. CASE WriteInit
  BY <1>0, <1>2, InitRefines
<1>3. CASE \/ HttpConnects \/ HttpGetFails \/ ReceiveFails
           \/ \E n \in Pieces, final \in BOOLEAN : Receive(n, final)
  <2>1. UNCHANGED <<code, kept, disk, lost>>
    BY <1>3 DEF HttpConnects, HttpGetFails, ReceiveFails, Receive, downVars, diskVars
  <2> QED
    BY <1>0, <2>1, NothingRefines
<1>4. CASE AppendChunk \/ \E n \in 0 .. Len(held) + Len(chunk) : Decompress(n)
  BY <1>0, <1>4, PlainChunkRefines
<1>5. CASE AppendFails \/ \E n \in 0 .. Len(held) + Len(chunk) : DecompressFails(n)
  BY <1>0, <1>5, AppendFailsRefines, DecompressFailsRefines
<1>6. CASE Unpack
  BY <1>0, <1>6, UnpackRefines
<1>7. CASE VerifyDigest \/ WriteComplete
  <2>1. UNCHANGED <<code, kept, disk>> /\ lost \subseteq lost'
    BY <1>7 DEF VerifyDigest, WriteComplete, Close, Unkept, diskVars
  <2>2. code = "none"
    BY <1>7 DEF VerifyDigest, WriteComplete, Control, Answers
  <2> QED
    BY <1>0, <2>1, <2>2, LossRefines DEF Promise!Next
<1>8. CASE WriteAbort
  <2>1. code = "none" /\ code' = code
    BY <1>8 DEF WriteAbort, Control, Answers
  <2>2. (\A n \in Names : disk'[n] \in {disk[n], Absent}) /\ (disk' = Nothing \/ kept') /\ lost \subseteq lost'
    BY <1>8 DEF WriteAbort, Remains, Nothing, Unkept
  <2> QED
    BY <1>0, <2>1, <2>2, DiscardRefines
<1>9. CASE DownCommon
  <2>0. disk' = disk /\ lost' = lost
    BY <1>9 DEF DownCommon, downVars, diskVars
  <2>1. CASE DataNew("digest") \/ DataDestroy \/ Work
    <3>1. UNCHANGED <<code, kept>>
      BY <2>1 DEF DataNew, DataDestroy, Work, histVars
    <3> QED
      BY <1>0, <2>0, <3>1, NothingRefines
  <2>2. CASE DataFails
    <3>1. code = "none" /\ code' = code /\ kept' = TRUE
      BY <2>2 DEF DataFails, Control, Answers
    <3> QED
      BY <1>0, <2>0, <3>1, DiscardRefines
  <2>3. CASE RefuseRequest
    <3>1. /\ code = "none" /\ disk = Nothing /\ kept' = kept
          /\ code' \in {"EPIPE", "dropped"}
      BY <2>3 DEF RefuseRequest, histVars, Control, Answers, Placed
    <3> QED
      BY <1>0, <2>0, <3>1, AnswerRefines
  <2>4. CASE Respond
    <3>1. at = "reply" /\ code = "none" /\ at' = "end" /\ told' = told /\ kept' = kept
      BY <2>4 DEF Respond, histVars, Control, Answers
    <3>2. code' # "none" /\ (code' = "0" <=> told)
      BY <3>1 DEF Control, Answers
    <3>3. (told => disk = content.files) /\ (~told => disk = Nothing \/ kept)
      BY <1>0, <3>1 DEF Reader, Control, Placed, Late
    <3> QED
      BY <1>0, <2>0, <3>1, <3>2, <3>3, AnswerRefines
  <2> QED
    BY <1>9, <2>1, <2>2, <2>3, <2>4 DEF DownCommon
<1> QED
  BY <1>1, <1>2, <1>3, <1>4, <1>5, <1>6, <1>7, <1>8, <1>9 DEF DownNext, Http

LEMMA HandoverRefines ==
  ASSUME Control, Control', CommonTypes, Handover
  PROVE  Promise!Next
<1>1. /\ req.way = "up" /\ req' = [req EXCEPT !.way = "down", !.digest = "right", !.size = Len(Stored)]
      /\ code' = "none" /\ kept' = FALSE /\ disk' = disk /\ lost' = lost
  BY DEF Handover, diskVars
<1>2. req'.way = "down"
  BY <1>1 DEF CommonTypes, Request
<1>3. disk = Nothing
  BY <1>1 DEF Control, Placed
<1>4. Verdict = "idle" /\ Verdict' = "none" /\ Kept' = FALSE
  BY <1>1, <1>2 DEF Verdict, Kept
<1>5. Promise!Nothing = Nothing
  BY DEF Promise!Nothing, Nothing
<1>6. Stays = Nothing /\ Stays' = Nothing
  BY <1>1, <1>3, StaysNothing
<1>7. Promise!Ask
  BY <1>1, <1>3, <1>4, <1>5, <1>6 DEF Promise!Ask, Verdict, Kept, Promise!Nothing, Nothing
<1> QED
  BY <1>7 DEF Promise!Next

LEMMA PromiseInit == ASSUME Init PROVE Promise!Init
<1>1. Promise!Nothing = Nothing
  BY DEF Promise!Nothing, Nothing
<1>2. ASSUME NEW s \in Downloads, DownStarts(s.req, s.content, s.mounts, s.dest) PROVE Promise!Init
  <2>1. req.way = "down" /\ code = "none" /\ kept = FALSE /\ disk = Nothing /\ lost = {}
    BY <1>2, ArchiveAssumption DEF ArchiveAssumption, DownStarts
  <2>2. Verdict = "none" /\ Kept = FALSE
    BY <2>1 DEF Verdict, Kept
  <2> QED
    BY <1>1, <2>1, <2>2, StaysNothing DEF Promise!Init, Verdict, Kept
<1>3. ASSUME NEW s \in Uploads, UpStarts(s.req, s.tree, s.mounts), DownIdle PROVE Promise!Init
  <2>1. req.way = "up" /\ disk = Nothing /\ lost = {}
    BY <1>3, ArchiveAssumption DEF ArchiveAssumption, UpStarts, DownIdle
  <2>2. Verdict = "idle" /\ Kept = FALSE
    BY <2>1 DEF Verdict, Kept
  <2> QED
    BY <1>1, <2>1, <2>2, StaysNothing DEF Promise!Init, Verdict, Kept
<1> QED
  BY <1>2, <1>3 DEF Init

LEMMA PromiseStep ==
  ASSUME TypesInv, TypesInv', Reader, [Next]_vars
  PROVE  Promise!Next \/ UNCHANGED Promised
<1>0. Streamed /\ Tarred /\ Control /\ CommonTypes /\ Control'
  BY DEF TypesInv, DownTypes
<1>1. CASE DownNext
  BY <1>0, <1>1, DownRefines
<1>2. CASE UpNext /\ UNCHANGED downVars
  <2>1. req.way = "up" /\ req' = req
    BY <1>0, <1>2, UpRequest
  <2> QED
    BY <1>2, <2>1, UploadRefines DEF downVars, streamVars, diskVars
<1>3. CASE Handover
  BY <1>0, <1>3, HandoverRefines
<1>4. CASE UNCHANGED vars
  BY <1>4, NothingRefines DEF vars, commonVars, histVars, downVars, streamVars, diskVars
<1> QED
  BY <1>1, <1>2, <1>3, <1>4 DEF Next, Rest

-----------------------------------------------------------------------------
\* What the promise rests on.
ReadInv == TypesInv /\ Packing /\ Reader

LEMMA ReadInvariant == ASSUME Offered PROVE Spec => []ReadInv
<1>1. Init => ReadInv
  BY TypesInvInit, PackingInit, ReaderInit DEF ReadInv
<1>2. ReadInv /\ [Next]_vars => ReadInv'
  BY TypesInvStep, PackingStep, ReaderStep DEF ReadInv
<1> QED
  BY <1>1, <1>2, PTL DEF Spec

(***************************************************************************)
(* A download to the file system, of an archive or of a plain file, keeps  *)
(* the promise of Extraction: below the destination there is never a byte  *)
(* that the request did not ask for, each file grows along its content, the*)
(* answer is a success only with all the files there, and a failure takes  *)
(* back what was written or puts it on record (download.c:181, unpack.c:94,*)
(* filesystem.c:304).  It takes an archive of the entries, whole or cut    *)
(* short or with wrong bytes outside of the data, whose entries that are no*)
(* files have no data behind a file.                                       *)
(***************************************************************************)
THEOREM Extracts == ASSUME Offered PROVE Spec => ExtractsReference
<1>1. Init => Promise!Init
  BY PromiseInit
<1>2. ReadInv /\ ReadInv' /\ [Next]_vars => [Promise!Next]_Promised
  BY PromiseStep DEF ReadInv
<1>3. Promise!Spec <=> Promise!Init /\ [][Promise!Next]_Promised
  BY DEF Promise!Spec, Promised, Verdict, Kept
<1> QED
  BY <1>1, <1>2, <1>3, ReadInvariant, PTL DEF Spec, ExtractsReference

\* What an upload of a directory sends.
PackInv == TypesInv /\ Packing

SendsArchive == req.way = "up" /\ IsTar /\ told => sent = Archived(listing)

(***************************************************************************)
(* An upload of a directory that the application is told of as done has    *)
(* sent the archive of the files it listed, header, data and padding each in*)
(* its block, however its files grow or shrink meanwhile and wherever the  *)
(* chunks end: a file that cannot fill its entry fails the upload          *)
(* (ztar/pack.c:87, upload.c:369).                                         *)
(***************************************************************************)
THEOREM PacksArchive == Spec => []SendsArchive
<1>1. Init => PackInv
  BY TypesInvInit, PackingInit DEF PackInv
<1>2. PackInv /\ [Next]_vars => PackInv'
  BY TypesInvStep, PackingStep DEF PackInv
<1>3. PackInv => SendsArchive
  BY DEF PackInv, Packing, SendsArchive
<1> QED
  BY <1>1, <1>2, <1>3, PTL DEF Spec
===============================================================================
