-------------------------- MODULE GoodTransferProofs --------------------------
(***************************************************************************)
(* Proof of GoodTransfers (Archive.tla), the promise of file_transfer/ as  *)
(* a whole: a download of what is in order, and an upload of a source that *)
(* stays as it is, end without an error unless a call outside of the       *)
(* library fails, and an upload that ended well sent all of its source.    *)
(*                                                                         *)
(* The upload comes first.  Walks is the walk of folder_to_tar_core.c over *)
(* the directories, Announces and SendsFile what upload.c and its streams  *)
(* say and send of it, UpFine that nothing of it is refused; together they *)
(* are Uploading.  The download follows: GoodArchive is an archive in      *)
(* order, which the reader of tar_to_folder_core.c nowhere refuses, and    *)
(* Ordered puts that together with Arrived, AtTrailer and DownFine.        *)
(***************************************************************************)
EXTENDS ExtractionProofs, FunctionTheorems

\* h adds up the blocks of a set of entries, whichever is taken first.
AddsUp(h, sizes, S) ==
  \A s \in SUBSET S : \A x \in s : h[s] = Blocks(sizes, x) + h[s \ {x}]

\* A sum over a set does not depend on the order in which it is taken.
LEMMA SumsAnyOrder ==
  ASSUME NEW sizes, NEW S, IsFiniteSet(S), \A e \in S : Blocks(sizes, e) \in Nat
  PROVE  /\ Sums(sizes, S) \in [SUBSET S -> Nat] /\ Sums(sizes, S)[{}] = 0
         /\ AddsUp(Sums(sizes, S), sizes, S)
<1> DEFINE h == Sums(sizes, S)
           B(x) == Blocks(sizes, x)
           Bad == {n \in Nat : \E s \in SUBSET S : Cardinality(s) = n /\ \E x \in s : h[s] # B(x) + h[s \ {x}]}
<1>1. /\ h \in [SUBSET S -> Nat]
      /\ \A s \in SUBSET S : h[s] = IF s = {} THEN 0 ELSE B(Some(s)) + h[s \ {Some(s)}]
  BY SumsDefined
<1>2. \A x \in S : B(x) \in Nat
  OBVIOUS
<1> HIDE DEF h, B
<1>3. \A n \in Bad : n # 0 /\ n - 1 \in Bad
  <2> SUFFICES ASSUME NEW n \in Nat, NEW s \in SUBSET S, Cardinality(s) = n,
                      NEW x \in s, h[s] # B(x) + h[s \ {x}], n - 1 \notin Bad
               PROVE  FALSE
    <3>1. ASSUME NEW n \in Nat, NEW s \in SUBSET S, Cardinality(s) = n, NEW x \in s
          PROVE  n # 0
      BY <3>1, SubsetCounts
    <3> QED
      BY <3>1
  <2> DEFINE y == Some(s)
             t == s \ {y}
             u == s \ {x}
             v == (s \ {y}) \ {x}
  <2>1. /\ y \in s /\ n \in Nat \ {0} /\ t \in SUBSET S /\ u \in SUBSET S /\ v \in SUBSET S
        /\ Cardinality(t) = n - 1 /\ Cardinality(u) = n - 1
    BY SubsetCounts
  <2>2. h[s] = B(y) + h[t]
    BY <1>1, <2>1
  <2>3. y # x
    BY <2>2
  <2>4. x \in t /\ y \in u /\ v = t \ {x} /\ v = u \ {y}
    BY <2>1, <2>3
  <2>5. h[t] = B(x) + h[v] /\ h[u] = B(y) + h[v]
    <3>1. n - 1 \in Nat
      BY <2>1
    <3>2. \A w \in SUBSET S : Cardinality(w) = n - 1 => \A z \in w : h[w] = B(z) + h[w \ {z}]
      BY <3>1
    <3>3. (\A z \in t : h[t] = B(z) + h[t \ {z}]) /\ \A z \in u : h[u] = B(z) + h[u \ {z}]
      <4> HIDE DEF t, u, Bad
      <4> QED
        BY <2>1, <3>2
    <3> HIDE DEF t, u, v, y, Bad
    <3> QED
      BY <2>4, <3>3
  <2>6. h[v] \in Nat /\ B(x) \in Nat /\ B(y) \in Nat
    <3>1. h[v] \in Nat
      <4> HIDE DEF v
      <4> QED
        BY <1>1, <2>1
    <3> QED
      BY <1>2, <2>1, <3>1
  <2> HIDE DEF t, u, v, y
  <2> QED
    BY <2>2, <2>5, <2>6 DEF u
<1>4. Bad = {}
  <2>1. Bad \subseteq Nat
    OBVIOUS
  <2> HIDE DEF Bad
  <2> QED
    BY <1>3, <2>1, NoCounterexample
<1>5. \A s \in SUBSET S : \A x \in s : h[s] = B(x) + h[s \ {x}]
  <2> SUFFICES ASSUME NEW s \in SUBSET S, NEW x \in s PROVE h[s] = B(x) + h[s \ {x}]
    OBVIOUS
  <2>1. Cardinality(s) \in Nat
    BY SubsetCounts
  <2> QED
    BY <1>4, <2>1
<1>6. AddsUp(h, sizes, S)
  BY <1>5 DEF AddsUp, B
<1> QED
  BY <1>1, <1>6 DEF h

\* The entries of a sequence add up to where the next one starts.
LEMMA StartIsSum ==
  ASSUME NEW sizes, NEW l \in Seq(Entry), NEW S, S = {l[k] : k \in 1 .. Len(l)}, IsFiniteSet(S),
         \A i, j \in 1 .. Len(l) : l[i] = l[j] => i = j,
         \A e \in S : sizes[e.name] = e.size
  PROVE  Start(l, Len(l)) = Sums(sizes, S)[S]
<1> DEFINE T(n) == {l[k] : k \in 1 .. n}
<1>1. Len(l) \in Nat /\ \A i \in 1 .. Len(l) : l[i] \in S /\ l[i] \in Entry
  BY LenProperties, ElementOfSeq
<1>2. \A e \in S : e \in Entry
  BY <1>1
<1>3. ASSUME NEW e \in S
      PROVE  e.size \in Nat /\ Blocks(sizes, e) = Block + e.size + Padding(e.size) /\ Blocks(sizes, e) \in Nat
  <2>1. e.size \in Nat
    BY <1>2 DEF Entry
  <2>2. Blocks(sizes, e) = Block + e.size + Padding(e.size)
    BY DEF Blocks, FileBlocks
  <2>3. Padding(e.size) \in Nat /\ Block \in Nat
    BY <2>1, PaddingIsNat, TransferAssumption DEF TransferAssumption
  <2> QED
    BY <2>1, <2>2, <2>3
<1>4. PICK h : h = Sums(sizes, S) /\ h \in [SUBSET S -> Nat] /\ h[{}] = 0 /\ AddsUp(h, sizes, S)
  <2>1. \A e \in S : Blocks(sizes, e) \in Nat
    BY <1>3
  <2> QED
    BY <2>1, SumsAnyOrder
<1> DEFINE Bad == {n \in Nat : n <= Len(l) /\ Start(l, n) # h[T(n)]}
<1>5. \A n \in Bad : n # 0 /\ n - 1 \in Bad
  <2> SUFFICES ASSUME NEW n \in Nat, n <= Len(l), Start(l, n) # h[T(n)], n = 0 \/ n - 1 \notin Bad
               PROVE  FALSE
    OBVIOUS
  <2>1. n # 0
    <3>1. T(0) = {}
      OBVIOUS
    <3>2. Start(l, 0) = 0
      BY Starts
    <3> HIDE DEF T
    <3> QED
      BY <1>4, <3>1, <3>2
  <2>2. n \in 1 .. Len(l) /\ n - 1 \in Nat /\ n - 1 <= Len(l)
    BY <1>1, <2>1
  <2>3. Start(l, n - 1) = h[T(n - 1)]
    BY <2>1, <2>2
  <2>4. T(n) \in SUBSET S /\ l[n] \in T(n) /\ T(n) \ {l[n]} = T(n - 1)
    <3>1. T(n) \in SUBSET S
      BY <1>1, <2>2
    <3>2. l[n] \in T(n)
      BY <2>2
    <3>3. T(n - 1) \subseteq T(n) \ {l[n]}
      BY <1>1, <2>2
    <3>4. T(n) \ {l[n]} \subseteq T(n - 1)
      BY <1>1, <2>2
    <3> QED
      BY <3>1, <3>2, <3>3, <3>4
  <2>5. h[T(n)] = Blocks(sizes, l[n]) + h[T(n - 1)]
    <3> HIDE DEF T
    <3> QED
      BY <1>4, <2>4, SMTT(40) DEF AddsUp
  <2>6. Start(l, n) = Start(l, n - 1) + Block + l[n].size + Padding(l[n].size)
    BY <2>2, Starts
  <2>7. Blocks(sizes, l[n]) = Block + l[n].size + Padding(l[n].size)
    BY <1>1, <1>3, <2>2
  <2>8. Start(l, n - 1) \in Nat /\ l[n].size \in Nat /\ Padding(l[n].size) \in Nat /\ Block \in Nat
    <3>1. l[n].size \in Nat
      BY <1>1, <1>3, <2>2
    <3>2. n - 1 \in 0 .. Len(l)
      BY <2>2, <1>1
    <3> QED
      BY <3>1, <3>2, PaddingIsNat, Starts, TransferAssumption DEF TransferAssumption
  <2> HIDE DEF T
  <2> QED
    BY <2>3, <2>5, <2>6, <2>7, <2>8
<1>6. Bad = {}
  <2>1. Bad \subseteq Nat
    OBVIOUS
  <2> HIDE DEF Bad
  <2> QED
    BY <1>5, <2>1, NoCounterexample
<1>7. Start(l, Len(l)) = h[T(Len(l))]
  <2>1. Len(l) \in Nat /\ Len(l) \notin Bad
    BY <1>1, <1>6
  <2> HIDE DEF T
  <2> QED
    BY <2>1
<1>8. T(Len(l)) = S
  OBVIOUS
<1> HIDE DEF T
<1> QED
  BY <1>4, <1>7, <1>8

(***************************************************************************)
(* The walk over a source.                                                 *)
(***************************************************************************)
\* pos says how many entries of each directory were taken: these were entered, those files taken.
Entered(t, pos, d) ==
  d = Root \/ \E p \in DOMAIN t.dirs : \E k \in 1 .. pos[p] :
                t.dirs[p][k].kind = "dir" /\ t.dirs[p][k].name = d
\* The files among what was taken.
Took(t, pos) ==
  {e \in AllFiles(t) : \E d \in DOMAIN t.dirs : \E k \in 1 .. pos[d] : t.dirs[d][k] = e}
\* One more entry of d is taken.
Stepped(pos, d) == [pos EXCEPT ![d] = @ + 1]

\* s is the chain of open directories, each open once; unless a fault cut the walk short, every
\* other directory that was entered was read to its end.
Walking(t, pos, s, w, cut) ==
  /\ pos \in [DOMAIN t.dirs -> Nat] /\ \A d \in DOMAIN t.dirs : pos[d] <= Len(t.dirs[d])
  /\ s \in Seq(DOMAIN t.dirs) /\ Len(s) = Len(w)
  /\ \A i \in 1 .. Len(s) : w[i] = SubSeq(t.dirs[s[i]], pos[s[i]] + 1, Len(t.dirs[s[i]]))
  /\ \A i, j \in 1 .. Len(s) : s[i] = s[j] => i = j
  /\ \A i \in 1 .. Len(s) : Entered(t, pos, s[i])
  /\ \A d \in DOMAIN t.dirs : pos[d] > 0 => Entered(t, pos, d)
  /\ ~cut => \A d \in DOMAIN t.dirs :
               Entered(t, pos, d) /\ (\A i \in 1 .. Len(s) : s[i] # d) => pos[d] = Len(t.dirs[d])

\* What the directories of a source hold.
LEMMA SourceIs ==
  ASSUME NEW t, IsTree(t)
  PROVE  /\ \A d \in DOMAIN t.dirs :
              /\ t.dirs[d] \in Seq(Entry) /\ Len(t.dirs[d]) \in Nat /\ DOMAIN t.dirs[d] = 1 .. Len(t.dirs[d])
              /\ \A k \in 1 .. Len(t.dirs[d]) :
                   /\ t.dirs[d][k] \in Entry
                   /\ t.dirs[d][k].kind = "file" => t.dirs[d][k] \in AllFiles(t)
                   /\ t.dirs[d][k].kind = "dir" => t.dirs[d][k].name \in DOMAIN t.dirs
         /\ \A e \in AllFiles(t) : e \in Entry /\ e.kind = "file"
              /\ \E d \in DOMAIN t.dirs : \E k \in 1 .. Len(t.dirs[d]) : t.dirs[d][k] = e
<1>1. ASSUME NEW d \in DOMAIN t.dirs
      PROVE  /\ t.dirs[d] \in Seq(Entry) /\ Len(t.dirs[d]) \in Nat /\ DOMAIN t.dirs[d] = 1 .. Len(t.dirs[d])
             /\ \A k \in 1 .. Len(t.dirs[d]) : t.dirs[d][k] \in Entry
             /\ \A k \in DOMAIN t.dirs[d] : t.dirs[d][k].kind = "dir" => t.dirs[d][k].name \in DOMAIN t.dirs
  <2>1. t.dirs[d] \in Seq(Entry)
        /\ \A k \in DOMAIN t.dirs[d] : t.dirs[d][k].kind = "dir" => t.dirs[d][k].name \in DOMAIN t.dirs
    BY DEF IsTree
  <2> QED
    BY <2>1, LenProperties, ElementOfSeq
<1>3. \A e : e \in Entries(t) <=> \E d \in DOMAIN t.dirs : \E k \in 1 .. Len(t.dirs[d]) : t.dirs[d][k] = e
  <2>1. \A d \in DOMAIN t.dirs : ToSet(t.dirs[d]) = {t.dirs[d][k] : k \in 1 .. Len(t.dirs[d])}
    BY <1>1 DEF ToSet
  <2>2. \A e : e \in Entries(t) <=> \E d \in DOMAIN t.dirs : e \in ToSet(t.dirs[d])
    BY DEF Entries
  <2>3. ASSUME NEW e, NEW d \in DOMAIN t.dirs
        PROVE  e \in ToSet(t.dirs[d]) <=> \E k \in 1 .. Len(t.dirs[d]) : t.dirs[d][k] = e
    BY <2>1
  <2> QED
    BY <2>2, <2>3
<1>4. \A e : e \in AllFiles(t) <=> e \in Entries(t) /\ e.kind = "file"
  BY DEF AllFiles
<1> QED
  BY <1>1, <1>3, <1>4

\* What is left of a directory begins behind what was taken of it, and its first entry was not
\* taken before, under whatever name.
IsNext(t, pos, d, rest) ==
  /\ d \in DOMAIN t.dirs /\ pos[d] \in Nat /\ pos[d] + 1 \in 1 .. Len(t.dirs[d])
  /\ Head(rest) = t.dirs[d][pos[d] + 1] /\ Tail(rest) = SubSeq(t.dirs[d], pos[d] + 2, Len(t.dirs[d]))
  /\ \A x \in DOMAIN t.dirs : \A k \in 1 .. pos[x] : t.dirs[x][k].name # Head(rest).name

\* What one more entry e of a directory adds.
IsStep(t, pos, d, e) ==
  /\ Stepped(pos, d) \in [DOMAIN t.dirs -> Nat] /\ Stepped(pos, d)[d] = pos[d] + 1
  /\ \A x \in DOMAIN t.dirs : x # d => Stepped(pos, d)[x] = pos[x]
  /\ \A x : Entered(t, Stepped(pos, d), x) <=> Entered(t, pos, x) \/ (e.kind = "dir" /\ e.name = x)
  /\ Took(t, Stepped(pos, d)) = Took(t, pos) \cup (IF e.kind = "file" THEN {e} ELSE {})

\* An entry that is taken is the next one of the deepest directory.
LEMMA NextIs ==
  ASSUME NEW t, IsTree(t), InOneTree(t), NEW pos, NEW s, NEW w, NEW cut, Walking(t, pos, s, w, cut),
         NEW n, n = Len(w), n # 0, w[n] # <<>>
  PROVE  n \in 1 .. Len(s) /\ IsNext(t, pos, s[n], w[n])
<1> DEFINE d == s[n]
           q == t.dirs[d]
           m == pos[d]
<1>1. n \in 1 .. Len(s) /\ d \in DOMAIN t.dirs /\ m \in Nat /\ m <= Len(q) /\ w[n] = SubSeq(q, m + 1, Len(q))
  <2>1. s \in Seq(DOMAIN t.dirs) /\ Len(s) = n
    BY DEF Walking
  <2>2. n \in 1 .. Len(s) /\ d \in DOMAIN t.dirs
    BY <2>1, LenProperties, ElementOfSeq
  <2>3. m \in Nat /\ m <= Len(q) /\ w[n] = SubSeq(q, m + 1, Len(q))
    BY <2>2 DEF Walking
  <2> QED
    BY <2>2, <2>3
<1>2. q \in Seq(Entry) /\ Len(q) \in Nat
  BY <1>1, SourceIs
<1> HIDE DEF d
<1> HIDE DEF q
<1> HIDE DEF m
<1>3. m < Len(q)
  <2>1. CASE m >= Len(q)
    <3>1. SubSeq(q, m + 1, Len(q)) = <<>>
      BY <1>1, <1>2, <2>1
    <3> QED
      BY <1>1, <3>1
  <2> QED
    BY <1>1, <1>2, <2>1
<1>4. Head(w[n]) = q[m + 1]
  BY <1>1, <1>2, <1>3
<1>5. Tail(w[n]) = SubSeq(q, m + 2, Len(q))
  BY <1>1, <1>2, <1>3
<1>6. ASSUME NEW x \in DOMAIN t.dirs, NEW k \in 1 .. pos[x] PROVE t.dirs[x][k].name # q[m + 1].name
  <2>1. pos[x] \in Nat /\ pos[x] <= Len(t.dirs[x]) /\ Len(t.dirs[x]) \in Nat
        /\ DOMAIN t.dirs[x] = 1 .. Len(t.dirs[x])
    BY SourceIs DEF Walking
  <2>2. k \in DOMAIN t.dirs[x]
    BY <2>1
  <2>3. DOMAIN q = 1 .. Len(q) /\ m + 1 \in DOMAIN q
    <3>1. DOMAIN q = 1 .. Len(q)
      BY <1>2
    <3> QED
      BY <1>1, <1>2, <1>3, <3>1
  <2>4. \A d1, d2 \in DOMAIN t.dirs : \A k1 \in DOMAIN t.dirs[d1], k2 \in DOMAIN t.dirs[d2] :
          t.dirs[d1][k1].name = t.dirs[d2][k2].name => d1 = d2 /\ k1 = k2
    BY DEF InOneTree
  <2>5. t.dirs[x][k].name = t.dirs[d][m + 1].name => x = d /\ k = m + 1
    BY <1>1, <2>2, <2>3, <2>4 DEF q
  <2>6. ~(x = d /\ k = m + 1)
    BY <1>1, <2>1 DEF m
  <2> QED
    BY <2>5, <2>6 DEF q
<1>7. m + 1 \in 1 .. Len(q)
  BY <1>1, <1>2, <1>3
<1>8. \A x \in DOMAIN t.dirs : \A k \in 1 .. pos[x] : t.dirs[x][k].name # Head(w[n]).name
  BY <1>4, <1>6
<1> QED
  BY <1>1, <1>4, <1>5, <1>7, <1>8 DEF IsNext, d, q, m

\* Nor is it anything but one more.
LEMMA SteppedIs ==
  ASSUME NEW t, IsTree(t), NEW pos \in [DOMAIN t.dirs -> Nat], NEW d \in DOMAIN t.dirs,
         pos[d] + 1 \in 1 .. Len(t.dirs[d]), NEW e, e = t.dirs[d][pos[d] + 1]
  PROVE  IsStep(t, pos, d, e)
<1> DEFINE pos2 == Stepped(pos, d)
<1>1. pos2 \in [DOMAIN t.dirs -> Nat] /\ pos2[d] = pos[d] + 1 /\ \A x \in DOMAIN t.dirs : x # d => pos2[x] = pos[x]
  BY DEF Stepped
<1>2. pos[d] \in Nat /\ 1 .. pos2[d] = (1 .. pos[d]) \cup {pos[d] + 1}
  BY <1>1
<1> HIDE DEF pos2
<1>3. ASSUME NEW x PROVE Entered(t, pos2, x) <=> Entered(t, pos, x) \/ (e.kind = "dir" /\ e.name = x)
  <2>1. CASE x = Root
    BY <2>1 DEF Entered
  <2>2. CASE x # Root
    <3>1. ASSUME Entered(t, pos2, x) PROVE Entered(t, pos, x) \/ (e.kind = "dir" /\ e.name = x)
      <4>1. PICK p \in DOMAIN t.dirs : \E k \in 1 .. pos2[p] : t.dirs[p][k].kind = "dir" /\ t.dirs[p][k].name = x
        BY <2>2, <3>1 DEF Entered
      <4>2. PICK k \in 1 .. pos2[p] : t.dirs[p][k].kind = "dir" /\ t.dirs[p][k].name = x
        BY <4>1
      <4>3. CASE k \in 1 .. pos[p]
        BY <4>2, <4>3 DEF Entered
      <4>4. CASE k \notin 1 .. pos[p]
        <5>1. p = d /\ k = pos[d] + 1
          BY <1>1, <1>2, <4>4
        <5> QED
          BY <4>2, <5>1
      <4> QED
        BY <4>3, <4>4
    <3>2. ASSUME Entered(t, pos, x) PROVE Entered(t, pos2, x)
      <4>1. PICK p \in DOMAIN t.dirs : \E k \in 1 .. pos[p] : t.dirs[p][k].kind = "dir" /\ t.dirs[p][k].name = x
        BY <2>2, <3>2 DEF Entered
      <4>2. \A k \in 1 .. pos[p] : k \in 1 .. pos2[p]
        BY <1>1, <1>2
      <4> QED
        BY <4>1, <4>2 DEF Entered
    <3>3. ASSUME e.kind = "dir", e.name = x PROVE Entered(t, pos2, x)
      <4>1. pos[d] + 1 \in 1 .. pos2[d]
        BY <1>2
      <4> QED
        BY <3>3, <4>1 DEF Entered
    <3> QED
      BY <3>1, <3>2, <3>3
  <2> QED
    BY <2>1, <2>2
<1>4. Took(t, pos2) = Took(t, pos) \cup (IF e.kind = "file" THEN {e} ELSE {})
  <2>1. ASSUME NEW f \in Took(t, pos2) PROVE f \in Took(t, pos) \/ (f = e /\ e.kind = "file")
    <3>1. f \in AllFiles(t) /\ f.kind = "file"
      BY DEF Took, AllFiles
    <3>2. PICK p \in DOMAIN t.dirs : \E k \in 1 .. pos2[p] : t.dirs[p][k] = f
      BY DEF Took
    <3>3. PICK k \in 1 .. pos2[p] : t.dirs[p][k] = f
      BY <3>2
    <3>4. CASE k \in 1 .. pos[p]
      BY <3>1, <3>3, <3>4 DEF Took
    <3>5. CASE k \notin 1 .. pos[p]
      <4>1. p = d /\ k = pos[d] + 1
        BY <1>1, <1>2, <3>5
      <4> QED
        BY <3>1, <3>3, <4>1
    <3> QED
      BY <3>4, <3>5
  <2>2. ASSUME NEW f \in Took(t, pos) PROVE f \in Took(t, pos2)
    <3>1. PICK p \in DOMAIN t.dirs : \E k \in 1 .. pos[p] : t.dirs[p][k] = f
      BY DEF Took
    <3>2. \A k \in 1 .. pos[p] : k \in 1 .. pos2[p]
      BY <1>1, <1>2
    <3> QED
      BY <3>1, <3>2 DEF Took
  <2>3. ASSUME e.kind = "file" PROVE e \in Took(t, pos2)
    <3>1. e \in AllFiles(t)
      BY <2>3, SourceIs
    <3>2. pos[d] + 1 \in 1 .. pos2[d]
      BY <1>2
    <3> QED
      BY <3>1, <3>2 DEF Took
  <2> QED
    BY <2>1, <2>2, <2>3
<1> QED
  BY <1>1, <1>3, <1>4 DEF IsStep, pos2

\* What holds of a walk holds of one that is cut short.
LEMMA WalkIsCut ==
  ASSUME NEW t, NEW pos, NEW s, NEW w, NEW cut, NEW cut2, cut => cut2
  PROVE  Walking(t, pos, s, w, cut) => Walking(t, pos, s, w, cut2)
BY DEF Walking

\* The walk with the next entry taken, as long as that was no directory or the rest does not matter.
LEMMA WalkTakes ==
  ASSUME NEW t, IsTree(t), InOneTree(t), NEW pos, NEW s, NEW w, NEW cut, Walking(t, pos, s, w, cut),
         w # <<>>, w \in Seq(Seq(Entry)), NEW n, n = Len(w), w[n] # <<>>,
         Head(w[n]).kind # "dir" \/ cut, NEW w2, w2 = [w EXCEPT ![n] = Tail(@)]
  PROVE  Walking(t, Stepped(pos, s[n]), s, w2, cut)
<1> DEFINE d == s[n]
           pos2 == Stepped(pos, d)
           e == Head(w[n])
<1>0. n \in Nat /\ n # 0 /\ DOMAIN w = 1 .. n
  BY EmptySeq, LenProperties
<1>1. /\ n \in 1 .. Len(s) /\ d \in DOMAIN t.dirs /\ pos[d] \in Nat /\ pos[d] + 1 \in 1 .. Len(t.dirs[d])
      /\ e = t.dirs[d][pos[d] + 1] /\ Tail(w[n]) = SubSeq(t.dirs[d], pos[d] + 2, Len(t.dirs[d]))
  <2>1. n \in 1 .. Len(s) /\ IsNext(t, pos, d, w[n])
    BY <1>0, NextIs
  <2> QED
    BY <2>1 DEF IsNext
<1>2. pos \in [DOMAIN t.dirs -> Nat] /\ s \in Seq(DOMAIN t.dirs) /\ Len(s) = n
  BY DEF Walking
<1>3. /\ pos2 \in [DOMAIN t.dirs -> Nat] /\ pos2[d] = pos[d] + 1
      /\ \A x \in DOMAIN t.dirs : x # d => pos2[x] = pos[x]
      /\ \A x : Entered(t, pos2, x) <=> Entered(t, pos, x) \/ (e.kind = "dir" /\ e.name = x)
  <2>1. IsStep(t, pos, d, e)
    BY <1>1, <1>2, SteppedIs
  <2> QED
    BY <2>1 DEF IsStep
<1>4. \A i \in 1 .. Len(s) : s[i] \in DOMAIN t.dirs
  BY <1>2, ElementOfSeq
<1>5. Len(w2) = n /\ w2[n] = Tail(w[n]) /\ \A i \in 1 .. n : i # n => w2[i] = w[i]
  BY <1>0
<1> HIDE DEF d
<1> HIDE DEF pos2
<1> HIDE DEF e
<1>6. \A x \in DOMAIN t.dirs : pos2[x] <= Len(t.dirs[x])
  <2> SUFFICES ASSUME NEW x \in DOMAIN t.dirs PROVE pos2[x] <= Len(t.dirs[x])
    OBVIOUS
  <2>1. CASE x = d
    BY <1>1, <1>3, <2>1
  <2>2. CASE x # d
    BY <1>3, <2>2 DEF Walking
  <2> QED
    BY <2>1, <2>2
<1>7. \A i \in 1 .. Len(s) : w2[i] = SubSeq(t.dirs[s[i]], pos2[s[i]] + 1, Len(t.dirs[s[i]]))
  <2> SUFFICES ASSUME NEW i \in 1 .. Len(s) PROVE w2[i] = SubSeq(t.dirs[s[i]], pos2[s[i]] + 1, Len(t.dirs[s[i]]))
    OBVIOUS
  <2>1. CASE i = n
    <3>1. pos2[d] + 1 = pos[d] + 2
      BY <1>1, <1>3
    <3>2. w2[i] = SubSeq(t.dirs[d], pos2[d] + 1, Len(t.dirs[d]))
      BY <1>1, <1>5, <2>1, <3>1
    <3> QED
      BY <2>1, <3>2 DEF d
  <2>2. CASE i # n
    <3>1. s[i] # d
      BY <1>1, <2>2 DEF Walking, d
    <3>2. pos2[s[i]] = pos[s[i]]
      BY <1>3, <1>4, <3>1
    <3>3. w2[i] = w[i]
      BY <1>2, <1>5, <2>2
    <3> QED
      BY <3>2, <3>3 DEF Walking
  <2> QED
    BY <2>1, <2>2
<1>8. \A i \in 1 .. Len(s) : Entered(t, pos2, s[i])
  BY <1>3 DEF Walking
<1>9. \A x \in DOMAIN t.dirs : pos2[x] > 0 => Entered(t, pos2, x)
  <2> SUFFICES ASSUME NEW x \in DOMAIN t.dirs, pos2[x] > 0 PROVE Entered(t, pos2, x)
    OBVIOUS
  <2>1. CASE x = d
    <3>1. x = s[n]
      BY <2>1 DEF d
    <3> QED
      BY <1>1, <1>8, <3>1
  <2>2. CASE x # d
    BY <1>3, <2>2 DEF Walking
  <2> QED
    BY <2>1, <2>2
<1>10. ASSUME ~cut, NEW x \in DOMAIN t.dirs, Entered(t, pos2, x), \A i \in 1 .. Len(s) : s[i] # x
       PROVE  pos2[x] = Len(t.dirs[x])
  <2>1. Entered(t, pos, x) /\ x # d
    BY <1>1, <1>3, <1>10 DEF d, e
  <2> QED
    BY <1>3, <1>10, <2>1 DEF Walking
<1>11. Walking(t, pos2, s, w2, cut)
  BY <1>2, <1>3, <1>5, <1>6, <1>7, <1>8, <1>9, <1>10 DEF Walking
<1> QED
  BY <1>11 DEF pos2, d

\* A directory that is entered was not open yet, so that the chain is never longer than there
\* are directories.
LEMMA WalkEnters ==
  ASSUME NEW t, IsTree(t), InOneTree(t), NEW pos, NEW s, NEW w, NEW cut, Walking(t, pos, s, w, cut),
         w # <<>>, w \in Seq(Seq(Entry)), NEW n, n = Len(w), w[n] # <<>>, Head(w[n]).kind = "dir"
  PROVE  /\ LET x == Head(w[n]).name IN
            Walking(t, Stepped(pos, s[n]), Append(s, x), Append([w EXCEPT ![n] = Tail(@)], t.dirs[x]), cut)
         /\ n < Cardinality(DOMAIN t.dirs)
<1> DEFINE d == s[n]
           x == Head(w[n]).name
           pos2 == Stepped(pos, d)
           w2 == [w EXCEPT ![n] = Tail(@)]
           w3 == Append(w2, t.dirs[x])
           s3 == Append(s, x)
           e == Head(w[n])
<1>0. n \in Nat /\ n # 0 /\ DOMAIN w = 1 .. n /\ w2 \in Seq(Seq(Entry)) /\ Len(w2) = n
  <2>1. n \in Nat /\ n # 0 /\ DOMAIN w = 1 .. n
    BY EmptySeq, LenProperties
  <2>2. n \in 1 .. Len(w) /\ w[n] \in Seq(Entry)
    BY <2>1, ElementOfSeq
  <2>3. Tail(w[n]) \in Seq(Entry)
    BY <2>2
  <2>4. w2 \in Seq(Seq(Entry)) /\ Len(w2) = n
    BY <2>1, <2>2, <2>3, ExceptSeq
  <2> QED
    BY <2>1, <2>4
<1>1. /\ n \in 1 .. Len(s) /\ d \in DOMAIN t.dirs /\ pos[d] \in Nat /\ pos[d] + 1 \in 1 .. Len(t.dirs[d])
      /\ e = t.dirs[d][pos[d] + 1]
      /\ \A y \in DOMAIN t.dirs : \A k \in 1 .. pos[y] : t.dirs[y][k].name # e.name
  <2>1. n \in 1 .. Len(s) /\ IsNext(t, pos, d, w[n])
    BY <1>0, NextIs
  <2> QED
    BY <2>1 DEF IsNext
<1>2. Walking(t, pos2, s, w2, TRUE)
  <2>1. Walking(t, pos, s, w, TRUE)
    BY WalkIsCut
  <2> QED
    BY <2>1, WalkTakes
<1>3. pos \in [DOMAIN t.dirs -> Nat] /\ s \in Seq(DOMAIN t.dirs) /\ Len(s) = n
  BY DEF Walking
<1>4. /\ \A y \in DOMAIN t.dirs : y # d => pos2[y] = pos[y]
      /\ \A y : Entered(t, pos2, y) <=> Entered(t, pos, y) \/ e.name = y
  <2>1. e.kind = "dir"
    OBVIOUS
  <2>2. IsStep(t, pos, d, e)
    BY <1>1, <1>3, SteppedIs
  <2> QED
    BY <2>1, <2>2 DEF IsStep
<1>5. x \in DOMAIN t.dirs /\ x # Root
  <2>1. DOMAIN t.dirs[d] = 1 .. Len(t.dirs[d])
        /\ (t.dirs[d][pos[d] + 1].kind = "dir" => t.dirs[d][pos[d] + 1].name \in DOMAIN t.dirs)
    BY <1>1, SourceIs
  <2>2. t.dirs[d][pos[d] + 1].kind = "dir" => t.dirs[d][pos[d] + 1].name # Root
    <3>1. \A y \in DOMAIN t.dirs : \A k \in DOMAIN t.dirs[y] : t.dirs[y][k].kind = "dir" => t.dirs[y][k].name # Root
      BY DEF InOneTree
    <3> HIDE DEF d
    <3> QED
      BY <1>1, <2>1, <3>1
  <2> QED
    BY <1>1, <2>1, <2>2
<1>6. ~Entered(t, pos, x)
  BY <1>1, <1>5 DEF Entered
<1>7. \A i \in 1 .. Len(s) : s[i] # x
  BY <1>6 DEF Walking
<1>8. pos[x] = 0 /\ x # d /\ pos2[x] = 0
  <2>1. ~(pos[x] > 0)
    BY <1>5, <1>6 DEF Walking
  <2>2. pos[x] \in Nat
    BY <1>3, <1>5
  <2>3. x # d
    BY <1>1, <1>7
  <2> QED
    BY <1>4, <1>5, <2>1, <2>2, <2>3
<1>9. /\ s3 \in Seq(DOMAIN t.dirs) /\ Len(s3) = n + 1 /\ Len(w3) = n + 1
      /\ s3[n + 1] = x /\ \A i \in 1 .. n : s3[i] = s[i]
      /\ w3[n + 1] = t.dirs[x] /\ \A i \in 1 .. n : w3[i] = w2[i]
  <2>1. s3 \in Seq(DOMAIN t.dirs) /\ Len(s3) = n + 1 /\ s3[n + 1] = x /\ \A i \in 1 .. n : s3[i] = s[i]
    <3> HIDE DEF x
    <3> QED
      BY <1>3, <1>5, AppendProperties
  <2>2. t.dirs[x] \in Seq(Entry)
    BY <1>5, SourceIs
  <2> HIDE DEF w2
  <2>3. Len(w3) = n + 1 /\ w3[n + 1] = t.dirs[x] /\ \A i \in 1 .. n : w3[i] = w2[i]
    BY <1>0, <2>2, AppendProperties
  <2> QED
    BY <2>1, <2>3
<1> HIDE DEF d
<1> HIDE DEF pos2
<1> HIDE DEF w2
<1> HIDE DEF s3
<1> HIDE DEF w3
<1>10. \A i \in 1 .. Len(s3) : w3[i] = SubSeq(t.dirs[s3[i]], pos2[s3[i]] + 1, Len(t.dirs[s3[i]]))
  <2> SUFFICES ASSUME NEW i \in 1 .. Len(s3)
               PROVE  w3[i] = SubSeq(t.dirs[s3[i]], pos2[s3[i]] + 1, Len(t.dirs[s3[i]]))
    OBVIOUS
  <2>1. CASE i = n + 1
    <3> HIDE DEF x
    <3>1. t.dirs[x] \in Seq(Entry)
      BY <1>5, SourceIs
    <3>2. t.dirs[x] = SubSeq(t.dirs[x], 1, Len(t.dirs[x]))
      BY <3>1
    <3> QED
      BY <1>8, <1>9, <2>1, <3>2, SMTT(40)
  <2>2. CASE i # n + 1
    <3>1. i \in 1 .. n
      BY <1>0, <1>9, <2>2
    <3> QED
      BY <1>2, <1>3, <1>9, <3>1 DEF Walking
  <2> QED
    BY <2>1, <2>2
<1>11. \A i, j \in 1 .. Len(s3) : s3[i] = s3[j] => i = j
  <2> SUFFICES ASSUME NEW i \in 1 .. Len(s3), NEW j \in 1 .. Len(s3), s3[i] = s3[j] PROVE i = j
    OBVIOUS
  <2>1. /\ i \in 1 .. n \/ i = n + 1
        /\ j \in 1 .. n \/ j = n + 1
    BY <1>0, <1>9, SMTT(40)
  <2>2. CASE i \in 1 .. n /\ j \in 1 .. n
    BY <1>3, <1>9, <2>2 DEF Walking
  <2> HIDE DEF x
  <2> QED
    BY <1>3, <1>7, <1>9, <2>1, <2>2
<1>12. \A i \in 1 .. Len(s3) : Entered(t, pos2, s3[i])
  <2> SUFFICES ASSUME NEW i \in 1 .. Len(s3) PROVE Entered(t, pos2, s3[i])
    OBVIOUS
  <2>1. i \in 1 .. n \/ i = n + 1
    BY <1>0, <1>9
  <2> QED
    BY <1>2, <1>3, <1>4, <1>9, <2>1 DEF Walking
<1>13. ASSUME ~cut, NEW y \in DOMAIN t.dirs, Entered(t, pos2, y), \A i \in 1 .. Len(s3) : s3[i] # y
       PROVE  pos2[y] = Len(t.dirs[y])
  <2>1. n + 1 \in 1 .. Len(s3) /\ \A i \in 1 .. n : i \in 1 .. Len(s3)
    BY <1>0, <1>9
  <2>2. x # y /\ \A i \in 1 .. Len(s) : s[i] # y
    BY <1>3, <1>9, <1>13, <2>1
  <2>3. Entered(t, pos, y) /\ y # d
    BY <1>1, <1>4, <1>13, <2>2 DEF d
  <2> QED
    BY <1>4, <1>13, <2>2, <2>3 DEF Walking
<1>14. Walking(t, pos2, s3, w3, cut)
  <2>1. pos2 \in [DOMAIN t.dirs -> Nat] /\ (\A y \in DOMAIN t.dirs : pos2[y] <= Len(t.dirs[y]))
        /\ \A y \in DOMAIN t.dirs : pos2[y] > 0 => Entered(t, pos2, y)
    BY <1>2 DEF Walking
  <2> QED
    BY <1>9, <1>10, <1>11, <1>12, <1>13, <2>1 DEF Walking
<1>15. n < Cardinality(DOMAIN t.dirs)
  <2> DEFINE Chain == {s3[i] : i \in 1 .. n + 1}
             f == [i \in 1 .. n + 1 |-> s3[i]]
  <2>1. f \in Bijection(1 .. n + 1, Chain)
    <3>1. f \in [1 .. n + 1 -> Chain]
      OBVIOUS
    <3>2. \A a, b \in 1 .. n + 1 : f[a] = f[b] => a = b
      BY <1>9, <1>11
    <3>3. \A y \in Chain : \E a \in 1 .. n + 1 : f[a] = y
      OBVIOUS
    <3> QED
      BY <3>1, <3>2, <3>3, Fun_IsBij
  <2>2. Cardinality(Chain) = n + 1 /\ IsFiniteSet(Chain)
    <3> HIDE DEF f, Chain
    <3>1. IsFiniteSet(1 .. n + 1) /\ Cardinality(1 .. n + 1) = n + 1
      <4>1. n + 1 \in Nat /\ 1 \in Int /\ n + 1 \in Int
        BY <1>0
      <4> QED
        BY <1>0, <4>1, FS_Interval
    <3>2. ExistsBijection(1 .. n + 1, Chain)
      BY <2>1 DEF ExistsBijection
    <3> QED
      BY <3>1, <3>2, FS_Bijection
  <2>3. Chain \subseteq DOMAIN t.dirs
    BY <1>9, ElementOfSeq
  <2>4. IsFiniteSet(DOMAIN t.dirs)
    BY DEF IsTree
  <2>5. Cardinality(Chain) <= Cardinality(DOMAIN t.dirs)
    <3> HIDE DEF Chain
    <3> QED
      BY <2>3, <2>4, FS_Subset
  <2>6. Cardinality(DOMAIN t.dirs) \in Nat
    BY <2>4, FS_CardinalityType
  <2> HIDE DEF Chain
  <2> QED
    BY <1>0, <2>2, <2>5, <2>6
<1> QED
  BY <1>14, <1>15 DEF pos2, d, w2, w3, s3

\* A sequence without its last element.
LEMMA FrontIs ==
  ASSUME NEW S, NEW s \in Seq(S), s # <<>>
  PROVE  /\ Front(s) \in Seq(S) /\ Len(Front(s)) = Len(s) - 1
         /\ \A i \in 1 .. Len(s) - 1 : Front(s)[i] = s[i]
<1>1. Len(s) \in Nat /\ Len(s) # 0
  BY EmptySeq, LenProperties
<1>2. \A i \in 1 .. Len(s) - 1 : s[i] \in S
  BY <1>1, ElementOfSeq
<1>3. Front(s) \in Seq(S)
  BY <1>1, <1>2, SubSeqProperties DEF Front
<1>4. Front(s) = SubSeq(s, 1, Len(s) - 1)
  BY DEF Front
<1>5. Len(SubSeq(s, 1, Len(s) - 1)) = Len(s) - 1 /\ \A i \in 1 .. Len(s) - 1 : SubSeq(s, 1, Len(s) - 1)[i] = s[i]
  <2> DEFINE m == Len(s) - 1
  <2>1. m \in Int /\ 1 <= m + 1 /\ m - 1 + 1 = m /\ \A i \in 1 .. m : 1 + i - 1 = i /\ s[i] \in S
    BY <1>1, <1>2
  <2>2. m \in Nat
    BY <1>1
  <2> HIDE DEF m
  <2>3. /\ Len(SubSeq(s, 1, m)) = IF 1 <= m THEN m - 1 + 1 ELSE 0
        /\ \A i \in 1 .. m - 1 + 1 : SubSeq(s, 1, m)[i] = s[1 + i - 1]
    BY <2>1, SubSeqProperties
  <2>4. Len(SubSeq(s, 1, m)) = m /\ \A i \in 1 .. m : SubSeq(s, 1, m)[i] = s[i]
    BY <2>1, <2>2, <2>3
  <2> QED
    BY <2>4 DEF m
<1> QED
  BY <1>3, <1>4, <1>5, Zenon

\* The deepest directory is left at its end, or in a walk that is cut short.
LEMMA WalkAscends ==
  ASSUME NEW t, IsTree(t), NEW pos, NEW s, NEW w, NEW cut, Walking(t, pos, s, w, cut),
         w # <<>>, w \in Seq(Seq(Entry)), NEW cut2, cut => cut2, Last(w) = <<>> \/ cut2
  PROVE  Walking(t, pos, Front(s), Front(w), cut2)
<1> DEFINE n == Len(w)
           s2 == Front(s)
           w2 == Front(w)
<1>1. n \in Nat /\ n - 1 \in Nat /\ s \in Seq(DOMAIN t.dirs) /\ Len(s) = n /\ w[n] = Last(w)
  <2>1. n \in Nat /\ n # 0
    BY EmptySeq, LenProperties
  <2> QED
    BY <2>1 DEF Walking, Last
<1>2. /\ s2 \in Seq(DOMAIN t.dirs) /\ Len(s2) = n - 1 /\ Len(w2) = n - 1
      /\ \A i \in 1 .. n - 1 : s2[i] = s[i] /\ w2[i] = w[i]
  <2>1. s # <<>>
    BY <1>1
  <2>2. s2 \in Seq(DOMAIN t.dirs) /\ Len(s2) = n - 1 /\ \A i \in 1 .. n - 1 : s2[i] = s[i]
    BY <1>1, <2>1, FrontIs
  <2>3. Len(w2) = n - 1 /\ \A i \in 1 .. n - 1 : w2[i] = w[i]
    BY <1>1 DEF Front
  <2> QED
    BY <2>2, <2>3
<1> HIDE DEF s2
<1> HIDE DEF w2
<1>3. \A i \in 1 .. Len(s2) : i \in 1 .. Len(s) /\ i \in 1 .. n - 1
  BY <1>1, <1>2
<1>4. /\ \A i \in 1 .. Len(s2) : w2[i] = SubSeq(t.dirs[s2[i]], pos[s2[i]] + 1, Len(t.dirs[s2[i]]))
      /\ \A i, j \in 1 .. Len(s2) : s2[i] = s2[j] => i = j
      /\ \A i \in 1 .. Len(s2) : Entered(t, pos, s2[i])
  BY <1>2, <1>3 DEF Walking
<1>5. ASSUME ~cut2, NEW d \in DOMAIN t.dirs, Entered(t, pos, d), \A i \in 1 .. Len(s2) : s2[i] # d
      PROVE  pos[d] = Len(t.dirs[d])
  <2>1. CASE s[n] = d
    <3>1. w[n] = SubSeq(t.dirs[d], pos[d] + 1, Len(t.dirs[d])) /\ w[n] = <<>>
      <4>1. n \in 1 .. Len(s)
        BY <1>1, <1>2
      <4> QED
        BY <1>1, <1>5, <2>1, <4>1 DEF Walking
    <3>2. pos[d] \in Nat /\ pos[d] <= Len(t.dirs[d]) /\ Len(t.dirs[d]) \in Nat /\ t.dirs[d] \in Seq(Entry)
      BY SourceIs DEF Walking
    <3> QED
      BY <3>1, <3>2, SMTT(40)
  <2>2. CASE s[n] # d
    <3>1. \A i \in 1 .. Len(s) : i = n \/ i \in 1 .. Len(s2)
      BY <1>1, <1>2
    <3>2. \A i \in 1 .. Len(s2) : s2[i] = s[i]
      BY <1>2, <1>3
    <3>3. \A i \in 1 .. Len(s) : s[i] # d
      BY <1>5, <2>2, <3>1, <3>2
    <3> QED
      BY <1>5, <3>3 DEF Walking
  <2> QED
    BY <2>1, <2>2
<1>6. Walking(t, pos, s2, w2, cut2)
  BY <1>2, <1>4, <1>5 DEF Walking
<1> QED
  BY <1>6 DEF s2, w2

\* A walk that came to its end, and was not cut short, has taken every file.
LEMMA WalkEnds ==
  ASSUME NEW t, IsTree(t), InOneTree(t), NEW pos, NEW s, NEW w, Walking(t, pos, s, w, FALSE), w = <<>>
  PROVE  Took(t, pos) = AllFiles(t)
<1>1. \A d \in DOMAIN t.dirs : Entered(t, pos, d) => pos[d] = Len(t.dirs[d])
  <2>1. Len(s) = 0
    BY DEF Walking
  <2> QED
    BY <2>1 DEF Walking
<1>2. \A d \in DOMAIN t.dirs : /\ Len(t.dirs[d]) \in Nat /\ DOMAIN t.dirs[d] = 1 .. Len(t.dirs[d])
  BY SourceIs
<1>3. PICK level \in [DOMAIN t.dirs -> 0 .. Cardinality(DOMAIN t.dirs)] :
        \A d \in DOMAIN t.dirs \ {Root} :
          \E p \in DOMAIN t.dirs : \E k \in DOMAIN t.dirs[p] :
            t.dirs[p][k].kind = "dir" /\ t.dirs[p][k].name = d /\ level[p] < level[d]
  BY DEF InOneTree
<1>4. \A d \in DOMAIN t.dirs : level[d] \in Nat
  <2>1. Cardinality(DOMAIN t.dirs) \in Nat
    BY FS_CardinalityType DEF IsTree
  <2> QED
    BY <2>1
<1>5. \A d \in DOMAIN t.dirs : Entered(t, pos, d)
  <2> DEFINE Bad == {level[d] : d \in {x \in DOMAIN t.dirs : ~Entered(t, pos, x)}}
  <2>1. Bad \subseteq Nat
    BY <1>4
  <2>2. CASE Bad # {}
    <3>1. PICK m \in Bad : \A y \in Bad : ~(y < m)
      <4> HIDE DEF Bad
      <4> QED
        BY <2>1, <2>2, LeastNumber
    <3>2. PICK d \in DOMAIN t.dirs : ~Entered(t, pos, d) /\ level[d] = m
      BY <3>1
    <3>3. d # Root
      BY <3>2 DEF Entered
    <3>7. PICK p \in DOMAIN t.dirs : \E k \in DOMAIN t.dirs[p] :
            t.dirs[p][k].kind = "dir" /\ t.dirs[p][k].name = d /\ level[p] < level[d]
      BY <1>3, <3>2, <3>3
    <3>4. PICK k \in DOMAIN t.dirs[p] :
            t.dirs[p][k].kind = "dir" /\ t.dirs[p][k].name = d /\ level[p] < level[d]
      BY <3>7
    <3>5. Entered(t, pos, p)
      BY <3>1, <3>2, <3>4
    <3>6. k \in 1 .. pos[p]
      BY <1>1, <1>2, <3>4, <3>5
    <3> QED
      BY <3>2, <3>4, <3>6 DEF Entered
  <2> QED
    BY <2>2
<1>6. ASSUME NEW e \in AllFiles(t) PROVE e \in Took(t, pos)
  <2>1. PICK d \in DOMAIN t.dirs : \E k \in 1 .. Len(t.dirs[d]) : t.dirs[d][k] = e
    BY SourceIs
  <2>2. pos[d] = Len(t.dirs[d])
    BY <1>1, <1>5, <2>1
  <2> QED
    BY <2>1, <2>2 DEF Took
<1> QED
  BY <1>6 DEF Took

\* The files of a source have names of their own.
LEMMA NamesAreOwn ==
  ASSUME NEW t, IsTree(t), InOneTree(t), NEW e \in AllFiles(t), NEW f \in AllFiles(t), e.name = f.name
  PROVE  e = f
<1>1. PICK d \in DOMAIN t.dirs : \E k \in 1 .. Len(t.dirs[d]) : t.dirs[d][k] = e
  BY SourceIs
<1>2. PICK k \in 1 .. Len(t.dirs[d]) : t.dirs[d][k] = e
  BY <1>1
<1>3. PICK c \in DOMAIN t.dirs : \E k2 \in 1 .. Len(t.dirs[c]) : t.dirs[c][k2] = f
  BY SourceIs
<1>4. PICK j \in 1 .. Len(t.dirs[c]) : t.dirs[c][j] = f
  BY <1>3
<1>5. k \in DOMAIN t.dirs[d] /\ j \in DOMAIN t.dirs[c]
  BY <1>2, <1>4, SourceIs
<1>6. \A d1, d2 \in DOMAIN t.dirs : \A k1 \in DOMAIN t.dirs[d1], k2 \in DOMAIN t.dirs[d2] :
        t.dirs[d1][k1].name = t.dirs[d2][k2].name => d1 = d2 /\ k1 = k2
  BY DEF InOneTree
<1>7. d = c /\ k = j
  BY <1>2, <1>4, <1>5, <1>6
<1> QED
  BY <1>2, <1>4, <1>7

\* The size that is recorded of a file is its own.
LEMMA SizesAreOwn ==
  ASSUME NEW t, IsTree(t), InOneTree(t), NEW e \in AllFiles(t)
  PROVE  Sizes(t)[e.name] = e.size
<1> DEFINE own == {f \in AllFiles(t) : f.name = e.name}
<1>1. own = {e}
  BY NamesAreOwn
<1>2. (CHOOSE f \in own : TRUE) = e
  BY <1>1
<1>3. e.name \in Names
  BY SourceIs DEF Entry
<1>4. Sizes(t)[e.name] = IF own = {} THEN 0 ELSE (CHOOSE f \in own : TRUE).size
  BY <1>3 DEF Sizes
<1> HIDE DEF own
<1> QED
  BY <1>1, <1>2, <1>4

\* Every file that was taken is in the archive, or is about to be; without a disturbance as it is.
Listed(t, pos, l, p, cut) ==
  /\ \A i \in 1 .. Len(l) : \E e \in Took(t, pos) : l[i].name = e.name /\ (~cut => l[i] = e)
  /\ p.state = "header" =>
       /\ p.entry \in Took(t, pos) /\ p.entry.path.fits
       /\ \A i \in 1 .. Len(l) : l[i].name # p.entry.name
       /\ ~cut => p.expected = p.entry.size
  /\ \A e \in Took(t, pos) :
       \/ p.state = "header" /\ p.entry = e
       \/ \E i \in 1 .. Len(l) : l[i].name = e.name

\* The walk of an upload, and what it has put into the listing so far, which is all of the source
\* once the archive has its trailer, if nothing disturbed it.
Walks ==
  req.way = "up" =>
    /\ InOneTree(tree) /\ InOrder(listing)
    /\ ~disturbed => length = Sizes(tree)
    /\ at \in {"asked", "readinit"} => listing = <<>>
    /\ IsTar /\ at \in Reading =>
         \E pos, s : Walking(tree, pos, s, walk, disturbed) /\ Listed(tree, pos, listing, pack, disturbed)
    /\ IsTar /\ pack.state \in {"trailer", "done"} /\ ~disturbed => ToSet(listing) = AllFiles(tree)
    /\ IsTar /\ (at \in {"answer", "complete"} \/ told) => pack.state = "done"

\* Nor does a change of what is not about to be listed matter.
LEMMA ListedIsCut ==
  ASSUME NEW t, NEW pos, NEW l, NEW p, NEW q, NEW cut, NEW cut2, cut => cut2,
         q = p \/ (p.state # "header" /\ q.state # "header"), Listed(t, pos, l, p, cut)
  PROVE  Listed(t, pos, l, q, cut2)
<1>1. \A i \in 1 .. Len(l) : \E e \in Took(t, pos) : l[i].name = e.name /\ (~cut => l[i] = e)
  BY DEF Listed
<1>2. \A i \in 1 .. Len(l) : \E e \in Took(t, pos) : l[i].name = e.name /\ (~cut2 => l[i] = e)
  BY <1>1
<1>3. CASE q = p
  BY <1>2, <1>3 DEF Listed
<1>4. CASE p.state # "header" /\ q.state # "header"
  BY <1>2, <1>4 DEF Listed
<1> QED
  BY <1>3, <1>4

\* A step that neither reads a directory nor packs.
LEMMA WalkedKept ==
  ASSUME Walks, Control, UNCHANGED <<req, tree, listing, pack>>, disturbed => disturbed',
         ~disturbed' => length' = length,
         at' \in {"asked", "readinit"} => at \in {"asked", "readinit"},
         at' \in Reading => at \in Reading /\ walk' = walk,
         (at' \in {"answer", "complete"} \/ told') => at \in {"answer", "complete"} \/ told \/ ~IsTar \/ pack.state = "done"
  PROVE  Walks'
<1> SUFFICES ASSUME req.way = "up" PROVE Walks'
  BY DEF Walks
<1>1. IsTar' <=> IsTar
  BY DEF IsTar
<1>2. InOneTree(tree') /\ InOrder(listing') /\ (~disturbed' => length' = Sizes(tree'))
      /\ (at' \in {"asked", "readinit"} => listing' = <<>>)
  BY DEF Walks
<1>3. ASSUME IsTar', at' \in Reading
      PROVE  \E pos, s : Walking(tree', pos, s, walk', disturbed') /\ Listed(tree', pos, listing', pack', disturbed')
  <2>1. PICK pos, s : Walking(tree, pos, s, walk, disturbed) /\ Listed(tree, pos, listing, pack, disturbed)
    BY <1>1, <1>3 DEF Walks
  <2>2. Walking(tree, pos, s, walk, disturbed')
    BY <2>1, WalkIsCut
  <2>3. Listed(tree, pos, listing, pack, disturbed')
    BY <2>1, ListedIsCut
  <2> QED
    BY <1>3, <2>2, <2>3
<1>4. IsTar' /\ pack'.state \in {"trailer", "done"} /\ ~disturbed' => ToSet(listing') = AllFiles(tree')
  BY <1>1 DEF Walks
<1>5. IsTar' /\ (at' \in {"answer", "complete"} \/ told') => pack'.state = "done"
  BY <1>1 DEF Walks
<1> QED
  BY <1>2, <1>3, <1>4, <1>5 DEF Walks

\* A pass of the packer that goes on.
LEMMA WalkedGoesOn ==
  ASSUME Walks, Control, req.way = "up", IsTar, at = "pack", at' = "pack", UNCHANGED <<req, tree, told>>,
         disturbed => disturbed', length' = length, InOrder(listing'),
         NEW pos, NEW s, Walking(tree, pos, s, walk', disturbed'), Listed(tree, pos, listing', pack', disturbed'),
         pack'.state \in {"trailer", "done"} /\ ~disturbed' => ToSet(listing') = AllFiles(tree)
  PROVE  Walks'
<1>1. IsTar' <=> IsTar
  BY DEF IsTar
<1>2. InOneTree(tree') /\ (~disturbed' => length' = Sizes(tree'))
  BY DEF Walks
<1>3. ~told'
  BY DEF Control, Answers, Late
<1>4. \E p, x : Walking(tree', p, x, walk', disturbed') /\ Listed(tree', p, listing', pack', disturbed')
  OBVIOUS
<1>5. at' \notin {"asked", "readinit", "answer", "complete"}
  OBVIOUS
<1> QED
  BY <1>1, <1>2, <1>3, <1>4, <1>5 DEF Walks

\* What the walk has before it are entries.
LEMMA WalkIsEntries ==
  ASSUME UpTypes
  PROVE  walk \in Seq(Seq(Entry))
<1>1. walk \in Seq(Seq(Known))
  BY DEF UpTypes
<1>2. Known \subseteq Entry
  BY DEF Known
<1>3. ASSUME NEW q \in Seq(Known) PROVE q \in Seq(Entry)
  <2>1. Len(q) \in Nat /\ q = [i \in 1 .. Len(q) |-> q[i]] /\ \A i \in 1 .. Len(q) : q[i] \in Known
    BY LenProperties, ElementOfSeq
  <2> QED
    BY <1>2, <2>1
<1>4. Len(walk) \in Nat /\ walk = [i \in 1 .. Len(walk) |-> walk[i]] /\ \A i \in 1 .. Len(walk) : walk[i] \in Seq(Known)
  BY <1>1, LenProperties, ElementOfSeq
<1>5. \A i \in 1 .. Len(walk) : walk[i] \in Seq(Entry)
  BY <1>3, <1>4
<1> QED
  BY <1>4, <1>5

\* The walk before a pass that takes an entry.
LEMMA EnteringIs ==
  ASSUME UpTypes, Walks, req.way = "up", InPack("next"), walk # <<>>
  PROVE  /\ IsTar /\ at = "pack" /\ pack.state = "next" /\ InOneTree(tree) /\ IsTree(tree)
         /\ walk \in Seq(Seq(Entry)) /\ walk[Len(walk)] = Deepest
         /\ Taken = [walk EXCEPT ![Len(walk)] = Tail(@)] /\ Len(walk) # 0
         /\ \E pos, s : Walking(tree, pos, s, walk, disturbed) /\ Listed(tree, pos, listing, pack, disturbed)
<1>1. IsTar /\ at = "pack" /\ pack.state = "next" /\ InOneTree(tree) /\ IsTree(tree)
  BY DEF InPack, UpTypes, Walks
<1>2. walk \in Seq(Seq(Entry)) /\ Len(walk) # 0
  BY WalkIsEntries, EmptySeq
<1>3. walk[Len(walk)] = Deepest /\ Taken = [walk EXCEPT ![Len(walk)] = Tail(@)]
  BY DEF Deepest, Last, Taken
<1> QED
  BY <1>1, <1>2, <1>3 DEF Walks, Reading

\* A directory that was read to its end is left.
LEMMA WalkedAscends ==
  ASSUME UpTypes, Control, Walks, req.way = "up", Ascend
  PROVE  Walks'
<1>1. /\ InPack("next") /\ walk # <<>> /\ walk' = Front(walk) /\ at' = "pack"
      /\ UNCHANGED <<req, tree, told, length, listing, pack>>
      /\ (Deepest = <<>> /\ disturbed' = disturbed) \/ disturbed' = TRUE
  BY DEF Ascend, UpGoto, packVars
<1>2. PICK pos, s : Walking(tree, pos, s, walk, disturbed) /\ Listed(tree, pos, listing, pack, disturbed)
  BY <1>1, EnteringIs
<1>3. Walking(tree, pos, Front(s), walk', disturbed')
  <2>1. disturbed => disturbed'
    BY <1>1
  <2>2. Last(walk) = <<>> \/ disturbed'
    BY <1>1 DEF Deepest
  <2> QED
    BY <1>1, <1>2, <2>1, <2>2, EnteringIs, WalkAscends
<1>4. Listed(tree, pos, listing', pack', disturbed')
  BY <1>1, <1>2, ListedIsCut
<1>5. pack'.state = "next" /\ at = "pack" /\ IsTar /\ InOrder(listing')
  BY <1>1, EnteringIs DEF Walks
<1>6. disturbed => disturbed'
  BY <1>1
<1> QED
  BY <1>1, <1>3, <1>4, <1>5, <1>6, WalkedGoesOn

\* The walk with that entry taken, or behind the directory that it is.
LEMMA TakenWalks ==
  ASSUME UpTypes, Walks, req.way = "up", Entering, NEW pos, NEW s, Walking(tree, pos, s, walk, disturbed),
         NEW cut, disturbed => cut
  PROVE  /\ Head(Deepest).kind # "dir" \/ cut => Walking(tree, Stepped(pos, s[Len(walk)]), s, Taken, cut)
         /\ Head(Deepest).kind = "dir" =>
              /\ Len(walk) < Cardinality(DOMAIN tree.dirs)
              /\ LET x == Head(Deepest).name IN
                 Walking(tree, Stepped(pos, s[Len(walk)]), Append(s, x), Append(Taken, tree.dirs[x]), disturbed)
<1>1. InPack("next") /\ walk # <<>> /\ Deepest # <<>>
  BY DEF Entering
<1>2. IsTree(tree) /\ InOneTree(tree) /\ walk \in Seq(Seq(Entry))
  BY <1>1, EnteringIs
<1>3. PICK n : n = Len(walk)
  OBVIOUS
<1>4. walk[n] = Deepest /\ Taken = [walk EXCEPT ![n] = Tail(@)]
  BY <1>1, <1>3, EnteringIs
<1>5. ASSUME Head(walk[n]).kind # "dir" \/ cut
      PROVE  Walking(tree, Stepped(pos, s[n]), s, Taken, cut)
  <2>1. Walking(tree, pos, s, walk, cut)
    BY WalkIsCut
  <2> QED
    BY <1>1, <1>2, <1>3, <1>4, <1>5, <2>1, WalkTakes
<1>6. ASSUME Head(walk[n]).kind = "dir"
      PROVE  /\ n < Cardinality(DOMAIN tree.dirs)
             /\ LET x == Head(walk[n]).name IN
                Walking(tree, Stepped(pos, s[n]), Append(s, x), Append([walk EXCEPT ![n] = Tail(@)], tree.dirs[x]), disturbed)
  BY <1>1, <1>2, <1>3, <1>4, <1>6, WalkEnters
<1> QED
  BY <1>3, <1>4, <1>5, <1>6

\* A step of the walk over what is no file.
LEMMA PassedIsListed ==
  ASSUME UpTypes, Walks, req.way = "up", Entering, NEW pos, NEW s, Walking(tree, pos, s, walk, disturbed),
         Listed(tree, pos, listing, pack, disturbed), Head(Deepest).kind # "file", pack' = pack, listing' = listing,
         disturbed => disturbed'
  PROVE  Listed(tree, Stepped(pos, s[Len(walk)]), listing', pack', disturbed')
<1> DEFINE d == s[Len(walk)]
           e == Head(Deepest)
<1>1. Entering => InPack("next") /\ walk # <<>> /\ Deepest # <<>>
  BY DEF Entering
<1>2. IsNext(tree, pos, d, walk[Len(walk)])
  BY <1>1, EnteringIs, NextIs
<1>3. IsStep(tree, pos, d, e)
  <2>1. pos \in [DOMAIN tree.dirs -> Nat] /\ IsTree(tree)
    BY <1>1, EnteringIs DEF Walking
  <2>2. d \in DOMAIN tree.dirs /\ pos[d] + 1 \in 1 .. Len(tree.dirs[d]) /\ e = tree.dirs[d][pos[d] + 1]
    BY <1>1, <1>2, EnteringIs DEF IsNext
  <2> QED
    BY <2>1, <2>2, SteppedIs
<1>4. Took(tree, Stepped(pos, d)) = Took(tree, pos)
  BY <1>3 DEF IsStep
<1>5. Listed(tree, pos, listing', pack', disturbed')
  BY ListedIsCut
<1> QED
  BY <1>4, <1>5 DEF Listed

\* A directory is entered, and what is neither a file nor a directory is passed.
LEMMA WalkedPasses ==
  ASSUME UpTypes, Control, Walks, req.way = "up", PassOther \/ EnterDirectory
  PROVE  Walks'
<1>1. /\ Entering /\ InPack("next") /\ walk # <<>> /\ Deepest # <<>> /\ at' = "pack"
      /\ Head(Deepest).kind \in {"dir", "other"}
      /\ UNCHANGED <<req, tree, told, length, listing, pack>>
      /\ (disturbed => disturbed')
  BY DEF PassOther, EnterDirectory, PackRest, UpProceed, UpGoto, packVars, Entering
<1>2. PICK pos, s : Walking(tree, pos, s, walk, disturbed) /\ Listed(tree, pos, listing, pack, disturbed)
  BY <1>1, EnteringIs
<1> DEFINE pos2 == Stepped(pos, s[Len(walk)])
<1>3. Listed(tree, pos2, listing', pack', disturbed')
  BY <1>1, <1>2, PassedIsListed
<1>4. \E x : Walking(tree, pos2, x, walk', disturbed')
  <2>1. CASE walk' = Taken /\ (Head(Deepest).kind = "other" \/ disturbed')
    <3>1. Walking(tree, pos2, s, Taken, disturbed')
      BY <1>1, <1>2, <2>1, TakenWalks
    <3> QED
      BY <2>1, <3>1
  <2>2. CASE walk' = Append(Taken, tree.dirs[Head(Deepest).name]) /\ disturbed' = disturbed /\ Head(Deepest).kind = "dir"
    <3>1. Walking(tree, pos2, Append(s, Head(Deepest).name), Append(Taken, tree.dirs[Head(Deepest).name]), disturbed)
      BY <1>1, <1>2, <2>2, TakenWalks
    <3> QED
      BY <2>2, <3>1
  <2> QED
    BY <2>1, <2>2 DEF PassOther, EnterDirectory
<1>5. pack'.state = "next" /\ at = "pack" /\ IsTar /\ InOrder(listing')
  BY <1>1, EnteringIs DEF Walks
<1> HIDE DEF pos2
<1>6. PICK x : Walking(tree, pos2, x, walk', disturbed')
  BY <1>4
<1> QED
  BY <1>1, <1>3, <1>5, <1>6, WalkedGoesOn

\* A file is opened.
LEMMA WalkedNextFile ==
  ASSUME UpTypes, Control, Walks, req.way = "up", NextFile
  PROVE  Walks'
<1> DEFINE e == Head(Deepest)
           l == listing
<1>1. /\ Entering /\ InPack("next") /\ walk # <<>> /\ Deepest # <<>> /\ at' = "pack" /\ walk' = Taken
      /\ e.kind = "file" /\ e.path.fits
      /\ UNCHANGED <<req, tree, told, length, listing, disturbed>>
  BY DEF NextFile, PackRest, UpProceed, UpGoto, Entering
<1>2. PICK pos, s : Walking(tree, pos, s, walk, disturbed) /\ Listed(tree, pos, l, pack, disturbed)
  BY <1>1, EnteringIs
<1>3. IsTar /\ at = "pack" /\ pack.state = "next" /\ InOneTree(tree) /\ IsTree(tree) /\ InOrder(listing)
      /\ walk[Len(walk)] = Deepest /\ (~disturbed => length = Sizes(tree))
  BY <1>1, EnteringIs DEF Walks
<1>4. pack'.state = "header" /\ pack'.entry = e /\ pack'.expected = length[e.name]
  <2>1. pack \in PackRecord
    BY DEF UpTypes
  <2> QED
    BY <2>1 DEF NextFile, PackRecord
<1> DEFINE d == s[Len(walk)]
           pos2 == Stepped(pos, d)
<1>5. IsNext(tree, pos, d, Deepest)
  <2>1. Len(walk) # 0
    BY <1>1, EnteringIs
  <2> QED
    BY <1>1, <1>2, <1>3, <2>1, NextIs
<1>6. /\ d \in DOMAIN tree.dirs /\ pos[d] + 1 \in 1 .. Len(tree.dirs[d]) /\ e = tree.dirs[d][pos[d] + 1]
      /\ \A x \in DOMAIN tree.dirs : \A k \in 1 .. pos[x] : tree.dirs[x][k].name # e.name
  BY <1>5 DEF IsNext
<1>7. IsStep(tree, pos, d, e)
  <2>1. pos \in [DOMAIN tree.dirs -> Nat]
    BY <1>2 DEF Walking
  <2> QED
    BY <1>3, <1>6, <2>1, SteppedIs
<1> HIDE DEF e
<1>8. Took(tree, pos2) = Took(tree, pos) \cup {e}
  BY <1>1, <1>7 DEF IsStep
<1>9. Walking(tree, pos2, s, walk', disturbed')
  <2>1. Walking(tree, pos2, s, Taken, disturbed')
    BY <1>1, <1>2, TakenWalks DEF e
  <2> QED
    BY <1>1, <2>1
<1>10. \A f \in Took(tree, pos) : f.name # e.name
  BY <1>6 DEF Took
<1>11. ~disturbed => length[e.name] = e.size
  <2>1. e \in AllFiles(tree)
    BY <1>1, <1>3, <1>6, SourceIs
  <2> QED
    BY <1>3, <2>1, SizesAreOwn
<1> HIDE DEF d, pos2, l
<1>12. \A i \in 1 .. Len(l) : \E f \in Took(tree, pos) : l[i].name = f.name /\ (~disturbed => l[i] = f)
  BY <1>2 DEF Listed
<1>13. \A f \in Took(tree, pos) : \E i \in 1 .. Len(l) : l[i].name = f.name
  BY <1>2, <1>3 DEF Listed
<1>14. Listed(tree, pos2, l, pack', disturbed)
  <2>1. \A i \in 1 .. Len(l) : \E f \in Took(tree, pos2) : l[i].name = f.name /\ (~disturbed => l[i] = f)
    BY <1>8, <1>12
  <2>2. e \in Took(tree, pos2) /\ \A i \in 1 .. Len(l) : l[i].name # e.name
    BY <1>8, <1>10, <1>12
  <2>3. \A f \in Took(tree, pos2) : e = f \/ \E i \in 1 .. Len(l) : l[i].name = f.name
    BY <1>8, <1>13
  <2> QED
    BY <1>1, <1>4, <1>11, <2>1, <2>2, <2>3 DEF Listed
<1>15. Listed(tree, pos2, listing', pack', disturbed')
  BY <1>1, <1>14 DEF l
<1>16. pack'.state \notin {"trailer", "done"} /\ InOrder(listing')
  BY <1>1, <1>3, <1>4
<1>17. disturbed => disturbed'
  BY <1>1
<1> QED
  BY <1>1, <1>3, <1>9, <1>15, <1>16, <1>17, WalkedGoesOn

\* The walk ends when no directory is open, and then every file was taken.
LEMMA WalksToTheEnd ==
  ASSUME UpTypes, Control, Filled, Walks, req.way = "up", NoMoreFiles
  PROVE  Walks'
<1>1. /\ InPack("next") /\ walk = <<>> /\ at = "pack" /\ at' = "pack" /\ pack.state = "next" /\ walk' = walk
      /\ UNCHANGED <<req, tree, told, length, listing, disturbed>>
  BY DEF NoMoreFiles, PackRest, UpProceed, UpGoto, InPack
<1>2. IsTar /\ InOneTree(tree) /\ IsTree(tree) /\ InOrder(listing) /\ disturbed \in BOOLEAN /\ listing \in Seq(Entry)
  BY <1>1 DEF UpTypes, Walks, Filled
<1>3. PICK pos, s : Walking(tree, pos, s, walk, disturbed) /\ Listed(tree, pos, listing, pack, disturbed)
  BY <1>1, <1>2 DEF Walks, Reading
<1>4. pack'.state = "trailer"
  <2>1. pack \in PackRecord
    BY DEF UpTypes
  <2> QED
    BY <2>1 DEF NoMoreFiles, PackRecord
<1>5. Listed(tree, pos, listing', pack', disturbed')
  BY <1>1, <1>3, <1>4, ListedIsCut
<1>6. ASSUME ~disturbed PROVE ToSet(listing) = AllFiles(tree)
  <2>1. Walking(tree, pos, s, walk, FALSE)
    BY <1>3, <1>6 DEF Walking
  <2>2. Took(tree, pos) = AllFiles(tree)
    BY <1>1, <1>2, <2>1, WalkEnds
  <2>3. \A i \in 1 .. Len(listing) : listing[i] \in AllFiles(tree)
    BY <1>3, <1>6, <2>2 DEF Listed
  <2>4. ASSUME NEW e \in AllFiles(tree) PROVE \E i \in 1 .. Len(listing) : listing[i] = e
    <3>1. PICK i \in 1 .. Len(listing) : listing[i].name = e.name
      BY <1>1, <1>3, <2>2 DEF Listed
    <3> QED
      BY <1>2, <2>3, <3>1, NamesAreOwn
  <2>5. DOMAIN listing = 1 .. Len(listing)
    BY <1>2, LenProperties
  <2>6. ToSet(listing) = {listing[i] : i \in 1 .. Len(listing)}
    BY <2>5 DEF ToSet
  <2> QED
    BY <2>3, <2>4, <2>6
<1>7. Walking(tree, pos, s, walk', disturbed') /\ (disturbed => disturbed') /\ InOrder(listing')
      /\ (pack'.state \in {"trailer", "done"} /\ ~disturbed' => ToSet(listing') = AllFiles(tree))
  BY <1>1, <1>2, <1>3, <1>6
<1> QED
  BY <1>1, <1>2, <1>5, <1>7, WalkedGoesOn

\* An entry in order after others keeps them in order.
LEMMA InOrderAppend ==
  ASSUME NEW l \in Seq(Entry), InOrder(l), NEW e \in Entry,
         e.path.fits, SafePath(e.path, FALSE, FALSE), \A i \in 1 .. Len(l) : l[i].name # e.name, e.kind = "file"
  PROVE  InOrder(Append(l, e))
<1> DEFINE l2 == Append(l, e)
<1>1. /\ Len(l) \in Nat /\ DOMAIN l = 1 .. Len(l) /\ DOMAIN l2 = 1 .. Len(l) + 1
      /\ l2[Len(l) + 1] = e /\ \A i \in 1 .. Len(l) : l2[i] = l[i]
  BY LenProperties, AppendProperties
<1> HIDE DEF l2
<1>2. \A i \in 1 .. Len(l) + 1 : i \in 1 .. Len(l) \/ i = Len(l) + 1
  BY <1>1
<1>3. \A i \in DOMAIN l2 : IF l2[i].kind = "file" THEN l2[i].path.fits /\ SafePath(l2[i].path, FALSE, FALSE)
                                                  ELSE l2[i].size = 0
  <2> TAKE i \in DOMAIN l2
  <2>1. CASE i \in 1 .. Len(l)
    <3>1. i \in DOMAIN l /\ l2[i] = l[i]
      BY <1>1, <2>1
    <3>2. IF l[i].kind = "file" THEN l[i].path.fits /\ SafePath(l[i].path, FALSE, FALSE) ELSE l[i].size = 0
      BY <3>1 DEF InOrder
    <3> QED
      BY <3>1, <3>2
  <2>2. CASE i = Len(l) + 1
    BY <1>1, <2>2
  <2> QED
    BY <1>1, <1>2, <2>1, <2>2
<1>4. ASSUME NEW i \in DOMAIN l2, NEW j \in DOMAIN l2, l2[i].kind = "file", l2[j].kind = "file", l2[i].name = l2[j].name
      PROVE  i = j
  <2>1. CASE i \in 1 .. Len(l) /\ j \in 1 .. Len(l)
    BY <1>1, <1>4, <2>1 DEF InOrder
  <2>2. CASE i = Len(l) + 1 \/ j = Len(l) + 1
    BY <1>1, <1>2, <1>4, <2>2
  <2> QED
    BY <1>1, <1>2, <2>1, <2>2
<1>5. InOrder(l2)
  BY <1>3, <1>4 DEF InOrder
<1> QED
  BY <1>5 DEF l2

\* A header lists the file that is open.
LEMMA WalksHeader ==
  ASSUME UpTypes, Control, Packing, Walks, req.way = "up", PackHeader
  PROVE  Walks'
<1> DEFINE x == [pack.entry EXCEPT !.size = pack.expected]
           l == listing
           l2 == Append(l, x)
<1>1. /\ at = "pack" /\ at' = "pack" /\ pack.state = "header" /\ walk' = walk
      /\ listing' = l2 /\ UNCHANGED <<req, tree, told, length, disturbed>>
  BY DEF PackHeader, PackRest, UpProceed, UpGoto, InPack
<1>2. IsTar /\ InOneTree(tree) /\ IsTree(tree) /\ InOrder(l) /\ l \in Seq(Entry) /\ pack \in PackRecord
      /\ pack.entry \in Entry /\ pack.entry.kind = "file"
  BY <1>1 DEF UpTypes, Walks, Packing
<1>3. PICK pos, s : Walking(tree, pos, s, walk, disturbed) /\ Listed(tree, pos, l, pack, disturbed)
  BY <1>1, <1>2 DEF Walks, Reading
<1>4. pack'.state \in {"next", "data"}
  BY <1>2 DEF PackHeader, PackRecord
<1>5. /\ pack.entry \in Took(tree, pos) /\ pack.entry.path.fits
      /\ \A i \in 1 .. Len(l) : l[i].name # pack.entry.name
      /\ ~disturbed => pack.expected = pack.entry.size
  BY <1>1, <1>3 DEF Listed
<1>6. /\ x \in Entry /\ x.name = pack.entry.name /\ x.path = pack.entry.path /\ x.kind = "file"
      /\ ~disturbed => x = pack.entry
  BY <1>2, <1>5 DEF Entry, PackRecord
<1> HIDE DEF x
<1>7. SafePath(x.path, FALSE, FALSE)
  <2>1. pack.entry \in AllFiles(tree)
    BY <1>5 DEF Took
  <2>2. PICK d \in DOMAIN tree.dirs : \E k \in 1 .. Len(tree.dirs[d]) : tree.dirs[d][k] = pack.entry
    BY <1>2, <2>1, SourceIs
  <2>3. PICK k \in 1 .. Len(tree.dirs[d]) : tree.dirs[d][k] = pack.entry
    BY <2>2
  <2>4. k \in DOMAIN tree.dirs[d]
    BY <1>2, <2>3, SourceIs
  <2>5. SafePath(tree.dirs[d][k].path, FALSE, FALSE)
    BY <1>2, <2>4 DEF InOneTree
  <2> QED
    BY <1>6, <2>3, <2>5
<1>8. InOrder(l2)
  BY <1>2, <1>5, <1>6, <1>7, InOrderAppend
<1>9. /\ Len(l) \in Nat /\ Len(l2) = Len(l) + 1 /\ l2[Len(l) + 1] = x /\ \A i \in 1 .. Len(l) : l2[i] = l[i]
  BY <1>2, <1>6, LenProperties, AppendProperties
<1> HIDE DEF l2, l
<1>10. \A i \in 1 .. Len(l2) : i \in 1 .. Len(l) \/ i = Len(l) + 1
  BY <1>9
<1>11. \A i \in 1 .. Len(l) : i \in 1 .. Len(l2)
  BY <1>9
<1>12. Len(l) + 1 \in 1 .. Len(l2)
  BY <1>9
<1>13. \A i \in 1 .. Len(l) : \E f \in Took(tree, pos) : l[i].name = f.name /\ (~disturbed => l[i] = f)
  BY <1>3 DEF Listed
<1>14. \A i \in 1 .. Len(l2) : \E f \in Took(tree, pos) : l2[i].name = f.name /\ (~disturbed => l2[i] = f)
  BY <1>5, <1>6, <1>9, <1>10, <1>13
<1>15. \A f \in Took(tree, pos) : f = pack.entry \/ \E i \in 1 .. Len(l) : l[i].name = f.name
  BY <1>3 DEF Listed
<1>16. \A f \in Took(tree, pos) : \E i \in 1 .. Len(l2) : l2[i].name = f.name
  BY <1>6, <1>9, <1>11, <1>12, <1>15
<1>17. Listed(tree, pos, l2, pack', disturbed)
  BY <1>4, <1>14, <1>16 DEF Listed
<1>18. Listed(tree, pos, listing', pack', disturbed') /\ Walking(tree, pos, s, walk', disturbed')
  BY <1>1, <1>3, <1>17
<1>19. InOrder(listing') /\ (disturbed => disturbed') /\ pack'.state \notin {"trailer", "done"}
  BY <1>1, <1>4, <1>8
<1> QED
  BY <1>1, <1>2, <1>18, <1>19, WalkedGoesOn

\* The data, the padding and the trailer leave the walk alone.
LEMMA WalksPacking ==
  ASSUME UpTypes, Control, Walks, req.way = "up", PackData \/ PackPadding \/ PackTrailer
  PROVE  Walks'
<1>1. /\ at = "pack" /\ at' = "pack" /\ walk' = walk /\ pack.state # "header"
      /\ UNCHANGED <<listing, req, tree, told, length, disturbed>>
  BY DEF PackData, PackPadding, PackTrailer, PackRest, UpProceed, UpGoto, InPack
<1>2. IsTar /\ InOrder(listing)
  BY <1>1 DEF UpTypes, Walks
<1>3. PICK pos, s : Walking(tree, pos, s, walk, disturbed) /\ Listed(tree, pos, listing, pack, disturbed)
  BY <1>1, <1>2 DEF Walks, Reading
<1>4. pack'.state # "header" /\ (pack'.state \in {"trailer", "done"} => pack.state \in {"trailer", "done"})
  <2>1. pack \in PackRecord
    BY DEF UpTypes
  <2>2. CASE PackData
    BY <2>1, <2>2 DEF PackData, PackRecord
  <2>3. CASE PackPadding
    BY <2>1, <2>3 DEF PackPadding, PackRecord, InPack
  <2>4. CASE PackTrailer
    BY <2>1, <2>4 DEF PackTrailer, PackRecord, InPack
  <2> QED
    BY <2>2, <2>3, <2>4
<1>5. Listed(tree, pos, listing', pack', disturbed')
  BY <1>1, <1>3, <1>4, ListedIsCut
<1>6. Walking(tree, pos, s, walk', disturbed') /\ InOrder(listing') /\ (disturbed => disturbed')
  BY <1>1, <1>2, <1>3
<1>7. pack'.state \in {"trailer", "done"} /\ ~disturbed' => ToSet(listing') = AllFiles(tree)
  BY <1>1, <1>2, <1>4 DEF Walks
<1> QED
  BY <1>1, <1>2, <1>5, <1>6, <1>7, WalkedGoesOn

\* The steps that neither read a directory nor pack.
LEMMA WalksStarting ==
  ASSUME UpTypes, Control, Walks, req.way = "up",
         (\E e \in AllFiles(tree) : Change(e.name)) \/ AskRead \/ ReadInitFails
  PROVE  Walks'
<1>1. CASE \E e \in AllFiles(tree) : Change(e.name)
  <2>1. PICK e \in AllFiles(tree) : Change(e.name)
    BY <1>1
  <2>2. /\ UNCHANGED <<req, tree, listing, pack, walk, at, told>> /\ disturbed' = TRUE
        /\ at \in Reading
    BY <2>1 DEF Change, commonVars, readVars, packVars, Reading
  <2> QED
    BY <2>2, WalkedKept
<1>2. CASE AskRead
  <2>1. /\ UNCHANGED <<req, tree, listing, pack, walk, disturbed, length, told>> /\ at = "asked" /\ at' = "readinit"
    BY <1>2 DEF AskRead, UpProceed, UpGoto, upVars, sourceVars, readVars, packVars
  <2> QED
    BY <2>1, WalkedKept DEF Reading
<1>3. CASE ReadInitFails
  <2>1. /\ UNCHANGED <<req, tree, listing, pack, walk, disturbed, length, told>> /\ at' = "destroy"
    BY <1>3 DEF ReadInitFails, UpGoto, upVars, sourceVars, readVars, packVars
  <2> QED
    BY <2>1, WalkedKept DEF Reading
<1> QED
  BY <1>1, <1>2, <1>3

\* So do the steps of the connection.
LEMMA WalksPut ==
  ASSUME UpTypes, Control, Walks, req.way = "up",
         PutRefused \/ PutConnects \/ PutTar \/ PutFile \/ ReadFails
  PROVE  Walks'
<1>1. CASE PutRefused \/ ReadFails
  <2>1. /\ UNCHANGED <<req, tree, listing, pack, walk, disturbed, length, told>> /\ at' = "abort"
    BY <1>1 DEF PutRefused, ReadFails, PutFailsWith, UpGoto, upVars, sourceVars, readVars, packVars
  <2> QED
    BY <2>1, WalkedKept DEF Reading
<1>2. CASE PutConnects \/ PutTar \/ PutFile
  <2>1. /\ UNCHANGED <<req, tree, listing, pack, walk, disturbed, length, told>>
        /\ at \in {"request", "put"} /\ at' \in {"put", "pack", "send"}
    BY <1>2 DEF PutConnects, PutTar, PutFile, UpProceed, UpGoto, upVars, sourceVars, readVars, packVars
  <2> QED
    BY <2>1, WalkedKept DEF Reading
<1> QED
  BY <1>1, <1>2

\* A pass that fails ends the walk.
LEMMA WalksStops ==
  ASSUME UpTypes, Control, Walks, req.way = "up",
         PackStops \/ EntryFails \/ PackHeaderFails \/ PackDataTruncated
  PROVE  Walks'
<1>1. CASE PackStops
  <2>1. /\ UNCHANGED <<req, tree, listing, pack, walk, disturbed, length, told>> /\ at = "pack" /\ at' = "send"
    BY <1>1 DEF PackStops, UpProceed, UpGoto, sourceVars, readVars
  <2> QED
    BY <2>1, WalkedKept DEF Reading
<1>2. CASE EntryFails \/ PackHeaderFails \/ PackDataTruncated
  <2>1. /\ UNCHANGED <<req, tree, listing, pack, disturbed, length, told>> /\ at' = "abort"
    BY <1>2 DEF EntryFails, PackHeaderFails, PackDataTruncated, PackRefuses, PutFailsWith, UpGoto, packVars
  <2> QED
    BY <2>1, WalkedKept DEF Reading
<1> QED
  BY <1>1, <1>2

\* Every pass of the archive.
LEMMA WalksPack ==
  ASSUME UpTypes, Filled, Control, Packing, Walks, req.way = "up", Pack
  PROVE  Walks'
<1>1. CASE PackStops \/ EntryFails \/ PackHeaderFails \/ PackDataTruncated
  BY <1>1, WalksStops
<1>2. CASE Ascend
  BY <1>2, WalkedAscends
<1>3. CASE PassOther \/ EnterDirectory
  BY <1>3, WalkedPasses
<1>4. CASE NextFile
  BY <1>4, WalkedNextFile
<1>5. CASE NoMoreFiles
  BY <1>5, WalksToTheEnd
<1>6. CASE PackHeader
  BY <1>6, WalksHeader
<1>7. CASE PackData \/ PackPadding \/ PackTrailer
  BY <1>7, WalksPacking
<1> QED
  BY <1>1, <1>2, <1>3, <1>4, <1>5, <1>6, <1>7 DEF Pack

\* What is left of the upload after a pass.
LEMMA WalksEnd ==
  ASSUME UpTypes, Control, Packing, Walks, req.way = "up",
         \/ SendChunk \/ SendFails \/ ServerAccepts \/ ServerRefuses
         \/ ReadComplete \/ ReadAbort \/ UpCommon
  PROVE  Walks'
<1>1. CASE SendChunk
  <2>1. /\ UNCHANGED <<req, tree, listing, pack, walk, disturbed, length, told>> /\ at = "send"
        /\ at' = IF exhausted THEN "answer" ELSE "put"
    BY <1>1 DEF SendChunk, UpProceed, UpGoto, sourceVars, readVars, packVars
  <2>2. IsTar /\ exhausted => pack.state = "done"
    BY <2>1 DEF Packing
  <2> QED
    BY <2>1, <2>2, WalkedKept DEF Reading
<1>2. CASE SendFails \/ ServerRefuses \/ ReadAbort
  <2>1. /\ UNCHANGED <<req, tree, listing, pack, disturbed, length, told>> /\ at' \in {"abort", "destroy"}
    BY <1>2 DEF SendFails, ServerRefuses, ReadAbort, UpProceed, PutFailsWith, UpGoto, upVars, sourceVars, packVars
  <2> QED
    BY <2>1, WalkedKept DEF Reading
<1>3. CASE ServerAccepts \/ ReadComplete
  <2>1. /\ UNCHANGED <<req, tree, listing, pack, disturbed, length>> /\ at' \in {"complete", "destroy"}
        /\ at \in {"answer", "complete"}
    BY <1>3 DEF ServerAccepts, ReadComplete, UpProceed, UpGoto, upVars, sourceVars, packVars
  <2> QED
    BY <2>1, WalkedKept DEF Reading
<1>4. CASE UpCommon
  <2>1. UNCHANGED <<req, tree, listing, pack, walk, disturbed, length, told>>
    BY <1>4 DEF UpCommon, RefuseRequest, DataNew, DataFails, DataDestroy, Respond, Work, upVars, sourceVars, readVars, packVars
  <2>2. at' = at \/ at' \in Late \/ (at = "data" /\ at' = "request")
    BY <1>4 DEF UpCommon, RefuseRequest, DataNew, DataFails, DataDestroy, Respond, Work, Late
  <2> QED
    BY <2>1, <2>2, WalkedKept DEF Reading, Late
<1> QED
  BY <1>1, <1>2, <1>3, <1>4

\* The walk begins with the root, of which nothing was taken.
LEMMA WalkBegins ==
  ASSUME NEW t, IsTree(t), NEW pos, pos = [d \in DOMAIN t.dirs |-> 0], NEW cut, NEW p, p.state = "next"
  PROVE  Walking(t, pos, <<Root>>, <<t.dirs[Root]>>, cut) /\ Listed(t, pos, <<>>, p, cut)
<1> DEFINE s == <<Root>>
           w == <<t.dirs[Root]>>
<1>1. /\ s \in Seq(DOMAIN t.dirs) /\ Len(s) = 1 /\ Len(w) = 1 /\ s[1] = Root /\ w[1] = t.dirs[Root]
      /\ Root \in DOMAIN t.dirs
  <2>1. Root \in DOMAIN t.dirs
    BY DEF IsTree
  <2> DEFINE D == DOMAIN t.dirs
             x == t.dirs[Root]
  <2> HIDE DEF D, x
  <2>2. \A r \in D : <<r>> \in Seq(D) /\ Len(<<r>>) = 1 /\ <<r>>[1] = r
    OBVIOUS
  <2>3. Len(<<x>>) = 1 /\ <<x>>[1] = x
    OBVIOUS
  <2> QED
    BY <2>1, <2>2, <2>3 DEF D, x
<1> HIDE DEF s, w
<1>2. pos \in [DOMAIN t.dirs -> Nat] /\ \A d \in DOMAIN t.dirs : pos[d] = 0 /\ Len(t.dirs[d]) \in Nat
  BY SourceIs
<1>3. SubSeq(t.dirs[Root], 1, Len(t.dirs[Root])) = t.dirs[Root]
  BY <1>1, SourceIs, SubSeqProperties
<1>4. \A d \in DOMAIN t.dirs : 1 .. pos[d] = {}
  BY <1>2
<1>5. \A x : Entered(t, pos, x) <=> x = Root
  BY <1>4 DEF Entered
<1>6. Took(t, pos) = {}
  BY <1>4 DEF Took
<1>7. \A i \in 1 .. Len(s) : w[i] = SubSeq(t.dirs[s[i]], pos[s[i]] + 1, Len(t.dirs[s[i]]))
  <2>1. pos[Root] + 1 = 1
    BY <1>1, <1>2
  <2> QED
    BY <2>1, <1>1, <1>3
<1>8. Walking(t, pos, s, w, cut)
  <2>1. \A d \in DOMAIN t.dirs : pos[d] <= Len(t.dirs[d]) /\ ~(pos[d] > 0)
    BY <1>2
  <2>2. \A i \in 1 .. Len(s) : i = 1
    BY <1>1
  <2>3. 1 \in 1 .. Len(s)
    BY <1>1
  <2> QED
    BY <1>1, <1>2, <1>5, <1>7, <2>1, <2>2, <2>3 DEF Walking
<1>9. Listed(t, pos, <<>>, p, cut)
  BY <1>6 DEF Listed
<1> QED
  BY <1>8, <1>9 DEF s, w

\* The walk is set up at the root.
LEMMA WalksReadInit ==
  ASSUME UpTypes, Control, Walks, req.way = "up", ReadInit
  PROVE  Walks'
<1>1. /\ at = "readinit" /\ at' = "data" /\ UNCHANGED <<req, tree, length, listing, pack, told>>
      /\ (disturbed => disturbed') /\ (IsTar => walk' = <<tree.dirs[Root]>>)
  <2>1. /\ at = "readinit" /\ at' = "data" /\ UNCHANGED <<req, tree, length, listing, pack, told>>
    BY DEF ReadInit, UpGoto, packVars
  <2>2. disturbed => disturbed'
    BY DEF ReadInit
  <2>3. IsTar => walk' = <<tree.dirs[Root]>>
    BY DEF ReadInit
  <2> QED
    BY <2>1, <2>2, <2>3
<1>2. listing = <<>> /\ pack.state = "next" /\ IsTree(tree) /\ ~told /\ InOneTree(tree) /\ InOrder(listing)
      /\ (~disturbed => length = Sizes(tree))
  BY <1>1 DEF Walks, UpTypes, Control, Answers, Late
<1>3. Walking(tree, [d \in DOMAIN tree.dirs |-> 0], <<Root>>, <<tree.dirs[Root]>>, disturbed')
      /\ Listed(tree, [d \in DOMAIN tree.dirs |-> 0], <<>>, pack, disturbed')
  BY <1>2, WalkBegins
<1>4. IsTar => \E pos, s : Walking(tree, pos, s, walk', disturbed') /\ Listed(tree, pos, listing', pack', disturbed')
  <2>1. HAVE IsTar
  <2>2. walk' = <<tree.dirs[Root]>> /\ listing' = <<>> /\ pack' = pack
    BY <1>1, <1>2, <2>1
  <2> QED
    BY <1>3, <2>2
<1> QED
  BY <1>1, <1>2, <1>4 DEF Walks, IsTar

\* Every step of an upload.
LEMMA WalksUp ==
  ASSUME UpTypes, Filled, Control, Packing, Walks, UpNext
  PROVE  Walks'
<1>1. req.way = "up"
  BY UpRequest
<1>2. CASE (\E e \in AllFiles(tree) : Change(e.name)) \/ AskRead \/ ReadInitFails
  BY <1>1, <1>2, WalksStarting
<1>3. CASE ReadInit
  BY <1>1, <1>3, WalksReadInit
<1>4. CASE PutRefused \/ PutConnects \/ PutTar \/ PutFile \/ ReadFails
  BY <1>1, <1>4, WalksPut
<1>5. CASE Pack
  BY <1>1, <1>5, WalksPack
<1>6. CASE \/ SendChunk \/ SendFails \/ ServerAccepts \/ ServerRefuses
           \/ ReadComplete \/ ReadAbort \/ UpCommon
  BY <1>1, <1>6, WalksEnd
<1> QED
  BY <1>2, <1>3, <1>4, <1>5, <1>6 DEF UpNext

\* The sources of the uploads are trees, as a file system has them.
Sourced == \A s \in Uploads : InOneTree(s.tree)

\* The walk before it began.
LEMMA WalksInit == ASSUME Sourced, Init PROVE Walks
<1>1. CASE \E s \in Downloads : DownStarts(s.req, s.content, s.mounts, s.dest) /\ UpIdle
  BY <1>1, ArchiveAssumption DEF DownStarts, Walks
<1>2. CASE \E s \in Uploads : UpStarts(s.req, s.tree, s.mounts) /\ DownIdle
  <2>1. PICK u \in Uploads : UpStarts(u.req, u.tree, u.mounts)
    BY <1>2
  <2>2. /\ at = "asked" /\ tree = u.tree /\ length = Sizes(tree) /\ pack = PackNone /\ listing = <<>> /\ told = FALSE
        /\ InOneTree(tree)
    BY <2>1 DEF UpStarts, Sourced
  <2>3. InOrder(<<>>)
    BY DEF InOrder
  <2> QED
    BY <2>2, <2>3 DEF Walks, PackNone, Reading
<1> QED
  BY <1>1, <1>2 DEF Init

\* The walk is kept by every step.
LEMMA WalksStep ==
  ASSUME TypesInv, Packing, Walks, [Next]_vars
  PROVE  Walks'
<1>1. CASE UpNext
  BY <1>1, WalksUp DEF TypesInv
<1>2. CASE DownNext \/ Handover
  <2>1. req'.way = "down"
    <3>1. CASE DownNext
      BY <3>1, DownRequest DEF TypesInv
    <3>2. CASE Handover
      BY <3>2 DEF Handover, TypesInv, CommonTypes, Request
    <3> QED
      BY <1>2, <3>1, <3>2
  <2> QED
    BY <2>1 DEF Walks
<1>3. CASE UNCHANGED vars
  <2>1. UNCHANGED <<at, req, tree, length, told, listing, pack, walk, disturbed>>
    BY <1>3 DEF vars, commonVars, upVars, sourceVars, readVars, packVars
  <2> QED
    BY <2>1, WalkedKept DEF TypesInv
<1> QED
  BY <1>1, <1>2, <1>3 DEF Next, Rest

(***************************************************************************)
(* What an upload of a directory announced, and the file it has open.      *)
(***************************************************************************)
\* The size of the archive of a source.
Total(t) == Sums(Sizes(t), AllFiles(t))[AllFiles(t)] + Trailer
\* The server has the whole body, or the service was told so.
Delivered == at \in {"answer", "complete"} \/ told
\* A file is open for what its entry still needs.
Expects == pack.expected = length[reads] /\ (pack.state = "data" => pack.written < pack.expected)
\* An upload of a directory announced the size of its archive.
Announces ==
  req.way = "up" /\ IsTar /\ ~disturbed =>
    /\ at \in Reading \/ Delivered => announced = Total(tree)
    /\ at \in Reading /\ pack.state \in {"header", "data"} => Expects

\* A step that neither announces nor opens a file.
LEMMA AnnouncesKept ==
  ASSUME Announces, UNCHANGED <<req, tree, announced>>, disturbed => disturbed',
         at' \in Reading \/ Delivered' => at \in Reading \/ Delivered,
         ~disturbed' /\ at' \in Reading /\ pack'.state \in {"header", "data"} =>
           Expects' \/ (at \in Reading /\ UNCHANGED <<pack, length, reads>>)
  PROVE  Announces'
<1>1. /\ req'.way = req.way /\ (IsTar' <=> IsTar) /\ Total(tree') = Total(tree)
  BY DEF IsTar
<1>2. UNCHANGED <<pack, length, reads>> => (Expects' <=> Expects)
  BY DEF Expects
<1> QED
  BY <1>1, <1>2 DEF Announces

\* The steps of an upload that do not pack.
LEMMA AnnouncesUp ==
  ASSUME UpTypes, Control, Walks, Announces, req.way = "up",
         \/ (\E e \in AllFiles(tree) : Change(e.name)) \/ AskRead \/ ReadInitFails
         \/ PutRefused \/ PutConnects \/ PutTar \/ PutFile \/ ReadFails
         \/ SendChunk \/ SendFails \/ ServerAccepts \/ ServerRefuses
         \/ ReadComplete \/ ReadAbort \/ UpCommon
  PROVE  Announces'
<1>1. CASE \E e \in AllFiles(tree) : Change(e.name)
  <2>1. UNCHANGED <<req, tree, announced, at, told>> /\ disturbed' = TRUE
    BY <1>1 DEF Change, commonVars, readVars
  <2> QED
    BY <2>1, AnnouncesKept DEF Delivered
<1>2. CASE AskRead \/ ReadInitFails
  <2>1. UNCHANGED <<req, tree, announced, disturbed, told>> /\ at' \in {"readinit", "destroy"}
    BY <1>2 DEF AskRead, ReadInitFails, UpProceed, UpGoto, upVars, sourceVars, readVars
  <2> QED
    BY <2>1, AnnouncesKept DEF Reading, Delivered
<1>3. CASE PutRefused \/ ReadFails \/ SendFails \/ ServerRefuses \/ ReadAbort
  <2>1. UNCHANGED <<req, tree, announced, disturbed, told>> /\ at' \in {"abort", "destroy"}
    BY <1>3 DEF PutRefused, ReadFails, SendFails, ServerRefuses, ReadAbort, PutFailsWith, UpProceed, UpGoto,
                upVars, sourceVars, readVars
  <2> QED
    BY <2>1, AnnouncesKept DEF Reading, Delivered
<1>4. CASE PutConnects \/ PutTar \/ SendChunk
  <2>1. UNCHANGED <<req, tree, announced, disturbed, told, pack, length, reads>> /\ at \in Reading
    BY <1>4 DEF PutConnects, PutTar, SendChunk, UpProceed, UpGoto, upVars, sourceVars, readVars, packVars, Reading
  <2> QED
    BY <2>1, AnnouncesKept
<1>5. CASE PutFile
  BY <1>5 DEF PutFile, UpProceed, UpGoto, Announces, IsTar
<1>6. CASE ServerAccepts \/ ReadComplete
  <2>1. UNCHANGED <<req, tree, announced, disturbed>> /\ at \in {"answer", "complete"} /\ at' \in {"complete", "destroy"}
    BY <1>6 DEF ServerAccepts, ReadComplete, UpProceed, UpGoto, upVars, sourceVars, readVars
  <2> QED
    BY <2>1, AnnouncesKept DEF Reading, Delivered
<1>7. CASE UpCommon
  <2>1. UNCHANGED <<req, tree, announced, disturbed, told, pack, length, reads>>
    BY <1>7 DEF UpCommon, RefuseRequest, DataNew, DataFails, DataDestroy, Respond, Work, upVars, sourceVars, readVars, packVars
  <2>2. at' = at \/ at' \in Late \/ (at = "data" /\ at' = "request")
    BY <1>7 DEF UpCommon, RefuseRequest, DataNew, DataFails, DataDestroy, Respond, Work, Late
  <2> QED
    BY <2>1, <2>2, AnnouncesKept DEF Reading, Late, Delivered
<1> QED
  BY <1>1, <1>2, <1>3, <1>4, <1>5, <1>6, <1>7

\* The size is added up when the read begins.
LEMMA AnnouncesReadInit ==
  ASSUME UpTypes, Control, Walks, Announces, req.way = "up", ReadInit
  PROVE  Announces'
<1>1. /\ at = "readinit" /\ at' = "data" /\ UNCHANGED <<req, tree, length, pack>>
  BY DEF ReadInit, UpGoto, packVars
<1>2. pack.state = "next" /\ IsTree(tree) /\ (disturbed \/ length = Sizes(tree))
  BY <1>1 DEF UpTypes, Walks
<1>3. ASSUME IsTar, ~disturbed' PROVE announced' = Total(tree)
  <2>1. ~disturbed /\ announced' = ArchiveSize(AllFiles(tree))
    BY <1>3 DEF ReadInit, Walked
  <2>2. length = Sizes(tree)
    BY <1>2, <2>1
  <2>3. ArchiveSize(AllFiles(tree)) = Sums(length, AllFiles(tree))[AllFiles(tree)] + Trailer
    BY SizeIsSum
  <2> QED
    BY <2>1, <2>2, <2>3 DEF Total
<1> QED
  BY <1>1, <1>2, <1>3 DEF Announces, IsTar

\* Every pass of the archive.
LEMMA AnnouncesPack ==
  ASSUME UpTypes, Filled, Control, Packing, Announces, req.way = "up", Pack
  PROVE  Announces'
<1>1. at = "pack" /\ IsTar /\ pack \in PackRecord /\ Laid
  <2>1. at = "pack"
    BY DEF Pack, PackStops, Ascend, EnterDirectory, PassOther, NextFile, EntryFails, NoMoreFiles, PackHeader,
           PackHeaderFails, PackData, PackDataTruncated, PackPadding, PackTrailer, Entering, InPack
  <2> QED
    BY <2>1 DEF UpTypes, Packing, Reading
<1>2. UNCHANGED <<req, tree, announced, length, told>> /\ (disturbed => disturbed')
  BY DEF Pack, PackStops, Ascend, EnterDirectory, PassOther, NextFile, EntryFails, NoMoreFiles, PackHeader,
         PackHeaderFails, PackData, PackDataTruncated, PackPadding, PackTrailer, PackRest, PackRefuses, PutFailsWith,
         UpProceed, UpGoto, sourceVars, readVars
<1>3. at' \in Reading \/ Delivered' => at \in Reading \/ Delivered
  BY <1>1 DEF Reading
<1>4. CASE PackStops
  <2>1. UNCHANGED <<pack, reads>>
    BY <1>4 DEF PackStops, readVars
  <2> QED
    BY <1>1, <1>2, <1>3, <2>1, AnnouncesKept DEF Reading
<1>5. CASE Ascend \/ EnterDirectory \/ PassOther
  <2>1. pack' = pack /\ pack.state = "next"
    BY <1>5 DEF Ascend, EnterDirectory, PassOther, Entering, InPack, packVars
  <2> QED
    BY <1>2, <1>3, <2>1, AnnouncesKept
<1>6. CASE EntryFails \/ PackHeaderFails \/ PackDataTruncated
  <2>1. at' = "abort"
    BY <1>6 DEF EntryFails, PackHeaderFails, PackDataTruncated, PackRefuses, PutFailsWith, UpGoto
  <2> QED
    BY <1>2, <1>3, <2>1, AnnouncesKept DEF Reading
<1>7. CASE NextFile
  <2>1. pack'.expected = length'[reads'] /\ pack'.state = "header"
    BY <1>1, <1>2, <1>7 DEF NextFile, PackRecord
  <2>2. Expects'
    BY <2>1 DEF Expects
  <2> QED
    BY <1>2, <1>3, <2>2, AnnouncesKept
<1>8. CASE NoMoreFiles \/ PackPadding \/ PackTrailer
  <2>1. pack'.state \notin {"header", "data"}
    BY <1>1, <1>8 DEF NoMoreFiles, PackPadding, PackTrailer, InPack, PackRecord
  <2> QED
    BY <1>2, <1>3, <2>1, AnnouncesKept
<1>9. CASE PackHeader
  <2>1. /\ reads' = reads /\ pack.state = "header" /\ pack'.expected = pack.expected /\ pack'.written = pack.written
        /\ pack'.state = IF pack.expected = 0 THEN "next" ELSE "data"
    BY <1>1, <1>9 DEF PackHeader, InPack, PackRecord
  <2>2. pack.written = 0 /\ pack.expected \in Nat
    BY <1>1, <2>1 DEF Laid, PackRecord
  <2>3. ~disturbed' /\ pack'.state = "data" => Expects'
    <3>1. HAVE ~disturbed' /\ pack'.state = "data"
    <3>2. Expects
      BY <1>1, <1>2, <2>1, <3>1 DEF Announces, Reading
    <3>3. pack'.expected = length'[reads']
      BY <1>2, <2>1, <3>2 DEF Expects
    <3>4. pack'.written < pack'.expected
      BY <2>1, <2>2, <3>1
    <3> QED
      BY <3>3, <3>4 DEF Expects
  <2> QED
    BY <1>2, <1>3, <2>1, <2>3, AnnouncesKept
<1>10. CASE PackData
  <2> DEFINE n == Readable(DataSpace)
  <2>1. /\ reads' = reads /\ pack.state = "data" /\ pack'.expected = pack.expected /\ pack'.written = pack.written + n
        /\ pack'.state = IF pack.written + n < pack.expected THEN "data"
                         ELSE IF Padding(pack.expected) > 0 THEN "padding" ELSE "next"
    <3> DEFINE w == pack.written + n
               st == CASE w < pack.expected -> "data"
                       [] OTHER -> IF Padding(pack.expected) > 0 THEN "padding" ELSE "next"
    <3>1. pack.state = "data" /\ reads' = reads /\ pack' = [pack EXCEPT !.written = w, !.padding = 0, !.state = st]
      BY <1>10 DEF PackData, InPack
    <3>2. st = IF pack.written + n < pack.expected THEN "data"
                         ELSE IF Padding(pack.expected) > 0 THEN "padding" ELSE "next"
      OBVIOUS
    <3> HIDE DEF st, w
    <3>3. pack'.expected = pack.expected /\ pack'.written = w /\ pack'.state = st
      BY <1>1, <3>1 DEF PackRecord
    <3> QED
      BY <3>1, <3>2, <3>3 DEF w
  <2> HIDE DEF n
  <2>2. ~disturbed' /\ pack'.state \in {"header", "data"} => Expects'
    <3>1. HAVE ~disturbed' /\ pack'.state \in {"header", "data"}
    <3>2. Expects
      BY <1>1, <1>2, <2>1, <3>1 DEF Announces, Reading
    <3>3. pack'.expected = length'[reads']
      BY <1>2, <2>1, <3>2 DEF Expects
    <3>4. pack'.written < pack'.expected
      BY <2>1, <3>1
    <3> QED
      BY <3>3, <3>4 DEF Expects
  <2> QED
    BY <1>2, <1>3, <2>1, <2>2, AnnouncesKept
<1> QED
  BY <1>4, <1>5, <1>6, <1>7, <1>8, <1>9, <1>10 DEF Pack

(***************************************************************************)
(* What an upload of one file has read and sent.                           *)
(***************************************************************************)
TheFile(t) == t.dirs[Root][1]
\* What was read of the file, whose bytes are all of them at its end.
ReadsFile ==
  LET size == TheFile(tree).size IN
    /\ tree.type = "file" /\ reads = TheFile(tree).name /\ announced = size
    /\ offset <= size /\ Written = DataOf(1, offset)
    /\ at = "send" /\ exhausted => offset = size
\* An upload of one file sends what it reads.
SendsFile ==
  req.way = "up" /\ ~IsTar /\ ~disturbed =>
    /\ at \in {"asked", "readinit"} => offset = 0 /\ sent = <<>>
    /\ at \in Reading => ReadsFile
    /\ Delivered => sent = DataOf(1, TheFile(tree).size) /\ announced = TheFile(tree).size

\* The file of such an upload is the one of its source.
LEMMA FileIs ==
  ASSUME NEW t, IsTree(t), InOneTree(t), t.type = "file"
  PROVE  /\ TheFile(t) \in Entry /\ TheFile(t).size \in Nat /\ TheFile(t).name \in Names
         /\ Sizes(t)[TheFile(t).name] = TheFile(t).size
<1>1. Root \in DOMAIN t.dirs /\ Len(t.dirs[Root]) = 1 /\ TheFile(t).kind = "file"
  BY DEF IsTree, InOneTree, TheFile
<1>2. TheFile(t) \in AllFiles(t) /\ TheFile(t) \in Entry
  <2>1. 1 \in 1 .. Len(t.dirs[Root])
    BY <1>1
  <2> QED
    BY <1>1, <2>1, SourceIs DEF TheFile
<1>3. Sizes(t)[TheFile(t).name] = TheFile(t).size
  BY <1>2, SizesAreOwn
<1> QED
  BY <1>2, <1>3 DEF Entry

\* A step that neither reads nor sends.
LEMMA SendsFileKept ==
  ASSUME SendsFile, Control, UNCHANGED <<req, tree, announced, offset, sent>>, disturbed => disturbed',
         at' \in {"asked", "readinit"} => at \in {"asked", "readinit"},
         at' \in Reading => /\ at \in Reading /\ reads' = reads
                            /\ (at' = at /\ UNCHANGED <<out, exhausted>>) \/ {at, at'} \subseteq {"data", "request", "put"},
         Delivered' => Delivered
  PROVE  SendsFile'
<1>1. /\ req'.way = req.way /\ (IsTar' <=> IsTar) /\ TheFile(tree') = TheFile(tree)
  BY DEF IsTar
<1>2. ASSUME at' \in Reading, ReadsFile PROVE ReadsFile'
  <2>1. reads' = reads /\ ((at' = at /\ UNCHANGED <<out, exhausted>>) \/ {at, at'} \subseteq {"data", "request", "put"})
    BY <1>2
  <2>2. Written' = Written
    BY <2>1 DEF Written
  <2>3. at' = "send" /\ exhausted' => at = "send" /\ exhausted
    BY <2>1
  <2> QED
    BY <1>1, <1>2, <2>1, <2>2, <2>3 DEF ReadsFile
<1> QED
  BY <1>1, <1>2 DEF SendsFile

\* The steps of an upload of a file that do neither.
LEMMA SendsFileSteps ==
  ASSUME UpTypes, Control, SendsFile, req.way = "up",
         \/ (\E e \in AllFiles(tree) : Change(e.name)) \/ AskRead \/ ReadInitFails
         \/ PutRefused \/ PutConnects \/ ReadFails
         \/ SendFails \/ ServerAccepts \/ ServerRefuses
         \/ ReadComplete \/ ReadAbort \/ UpCommon
  PROVE  SendsFile'
<1>1. CASE \E e \in AllFiles(tree) : Change(e.name)
  BY <1>1 DEF Change, SendsFile
<1>2. CASE AskRead \/ ReadInitFails
  <2>1. UNCHANGED <<req, tree, announced, offset, sent, disturbed, told>> /\ at' \in {"readinit", "destroy"}
        /\ at \in {"asked", "readinit"}
    BY <1>2 DEF AskRead, ReadInitFails, UpProceed, UpGoto, upVars, sourceVars, readVars
  <2> QED
    BY <2>1, SendsFileKept DEF Reading, Delivered
<1>3. CASE PutRefused \/ ReadFails \/ SendFails \/ ServerRefuses \/ ReadAbort
  <2>1. UNCHANGED <<req, tree, announced, offset, sent, disturbed, told>> /\ at' \in {"abort", "destroy"}
    BY <1>3 DEF PutRefused, ReadFails, SendFails, ServerRefuses, ReadAbort, PutFailsWith, UpProceed, UpGoto,
                upVars, sourceVars, readVars
  <2> QED
    BY <2>1, SendsFileKept DEF Reading, Delivered
<1>4. CASE PutConnects
  <2>1. UNCHANGED <<req, tree, announced, offset, sent, disturbed, told, reads>> /\ at = "request" /\ at' = "put"
    BY <1>4 DEF PutConnects, UpProceed, UpGoto, upVars, sourceVars, readVars
  <2> QED
    BY <2>1, SendsFileKept DEF Reading, Delivered
<1>6. CASE ServerAccepts \/ ReadComplete
  <2>1. UNCHANGED <<req, tree, announced, offset, sent, disturbed>> /\ at \in {"answer", "complete"}
        /\ at' \in {"complete", "destroy"}
    BY <1>6 DEF ServerAccepts, ReadComplete, UpProceed, UpGoto, upVars, sourceVars, readVars
  <2> QED
    BY <2>1, SendsFileKept DEF Reading, Delivered
<1>7. CASE UpCommon
  <2>1. UNCHANGED <<req, tree, announced, offset, sent, disturbed, told, reads, out, exhausted>>
    BY <1>7 DEF UpCommon, RefuseRequest, DataNew, DataFails, DataDestroy, Respond, Work, upVars, sourceVars, readVars, packVars
  <2>2. at' = at \/ at' \in Late \/ (at = "data" /\ at' = "request")
    BY <1>7 DEF UpCommon, RefuseRequest, DataNew, DataFails, DataDestroy, Respond, Work, Late
  <2> QED
    BY <2>1, <2>2, SendsFileKept DEF Reading, Late, Delivered
<1> QED
  BY <1>1, <1>2, <1>3, <1>4, <1>6, <1>7

\* The file is opened and its size announced.
LEMMA SendsFileReadInit ==
  ASSUME UpTypes, Control, Walks, SendsFile, req.way = "up", ReadInit
  PROVE  SendsFile'
<1>1. /\ at = "readinit" /\ at' = "data" /\ UNCHANGED <<req, tree, length, offset, sent, told>> /\ ~told
      /\ SourceOk
  BY DEF ReadInit, UpGoto, Control, Answers, Late
<1>2. ASSUME ~IsTar, ~disturbed' PROVE ReadsFile'
  <2>1. /\ reads' = TheFile(tree).name /\ announced' = length[reads'] /\ ~disturbed
    <3>1. reads' = tree.dirs[Root][1].name /\ announced' = length[reads'] /\ disturbed' = disturbed
      BY <1>2 DEF ReadInit
    <3> QED
      BY <1>2, <3>1 DEF TheFile
  <2>2. tree.type = "file" /\ IsTree(tree) /\ InOneTree(tree) /\ length = Sizes(tree)
    BY <1>1, <1>2, <2>1 DEF SourceOk, UpTypes, Walks
  <2>3. TheFile(tree).size \in Nat /\ length[TheFile(tree).name] = TheFile(tree).size
    BY <2>2, FileIs
  <2>4. offset = 0 /\ sent = <<>>
    BY <1>1, <1>2, <2>1 DEF SendsFile
  <2>5. DataOf(1, 0) = <<>>
    BY DEF DataOf
  <2>6. Written' = <<>>
    BY <1>1, <2>4 DEF Written
  <2> QED
    BY <1>1, <2>1, <2>2, <2>3, <2>4, <2>5, <2>6 DEF ReadsFile
<1> QED
  BY <1>1, <1>2 DEF SendsFile, Reading, Delivered, IsTar

\* What is read is the next part of the file, and all of it if the buffer is not full.
LEMMA SendsFilePutFile ==
  ASSUME UpTypes, Filled, Control, Walks, SendsFile, req.way = "up", PutFile
  PROVE  SendsFile'
<1> DEFINE n == Readable(ReadSize)
           size == TheFile(tree).size
<1>1. /\ at = "put" /\ at' = "send" /\ ~IsTar /\ UNCHANGED <<req, tree, length, announced, reads, sent, told, disturbed>>
      /\ ~told /\ out' = BytesOf(1, n) /\ offset' = offset + n /\ exhausted' = (n < ReadSize)
  BY DEF PutFile, UpProceed, UpGoto, sourceVars, Control, Answers, Late
<1>2. ASSUME ~disturbed PROVE ReadsFile'
  <2>1. ReadsFile
    BY <1>1, <1>2 DEF SendsFile, Reading
  <2>2. IsTree(tree) /\ InOneTree(tree) /\ length = Sizes(tree) /\ offset \in Nat
    BY <1>1, <1>2 DEF UpTypes, Walks
  <2>3. size \in Nat /\ length[reads] = size
    BY <2>1, <2>2, FileIs DEF ReadsFile
  <2>4. offset <= size /\ sent = DataOf(1, offset)
    BY <1>1, <2>1 DEF ReadsFile, Written
  <2>5. n \in Nat /\ offset + n <= size /\ (n < ReadSize => offset + n = size)
    BY <2>2, <2>3, <2>4, UploadAssumption DEF Readable, Min2
  <2> HIDE DEF n, size
  <2>6. DataOf(1, offset) \o BytesOf(1, n) = DataOf(1, offset + n)
    <3>1. /\ DataOf(1, offset) \in Seq(Cell) /\ Len(DataOf(1, offset)) = offset
          /\ \A k \in 1 .. offset : DataOf(1, offset)[k] = <<"data", 1, k>>
      BY <2>2, DataIsSeq
    <3>2. /\ DataOf(1, offset + n) \in Seq(Cell) /\ Len(DataOf(1, offset + n)) = offset + n
          /\ \A k \in 1 .. offset + n : DataOf(1, offset + n)[k] = <<"data", 1, k>>
      BY <2>2, <2>5, DataIsSeq, SMTT(40)
    <3>3. /\ BytesOf(1, n) \in Seq(Cell) /\ Len(BytesOf(1, n)) = n
          /\ \A k \in 1 .. n : BytesOf(1, n)[k] = <<"data", 1, offset + k>>
      <4>1. BytesOf(1, n) \in Seq(Cell)
        BY <2>2, <2>5, PartialData, PartialIs
      <4> QED
        BY <2>5, <4>1, LenProperties DEF BytesOf
    <3> DEFINE a == DataOf(1, offset)
               b == BytesOf(1, n)
               c == DataOf(1, offset + n)
    <3> HIDE DEF a, b, c
    <3>4. a \o b \in Seq(Cell) /\ Len(a \o b) = offset + n /\ a \in Seq(Cell) /\ b \in Seq(Cell)
          /\ \A k \in 1 .. offset + n : (a \o b)[k] = IF k <= offset THEN a[k] ELSE b[k - offset]
      <4>1. a \in Seq(Cell) /\ Len(a) = offset /\ b \in Seq(Cell) /\ Len(b) = n
        BY <3>1, <3>3 DEF a, b
      <4> QED
        BY <2>2, <2>5, <4>1, ConcatProperties
    <3>5. \A k \in 1 .. offset + n : (a \o b)[k] = c[k]
      <4> TAKE k \in 1 .. offset + n
      <4>1. c[k] = <<"data", 1, k>>
        BY <3>2 DEF c
      <4>2. CASE k <= offset
        BY <2>2, <2>5, <3>1, <3>4, <4>1, <4>2 DEF a
      <4>3. CASE ~(k <= offset)
        <5>1. k - offset \in 1 .. n /\ offset + (k - offset) = k
          BY <2>2, <2>5, <4>3
        <5>2. b[k - offset] = <<"data", 1, offset + (k - offset)>>
          BY <3>3, <5>1 DEF b
        <5> QED
          BY <3>4, <4>1, <4>3, <5>1, <5>2
      <4> QED
        BY <4>2, <4>3
    <3>6. c \in Seq(Cell) /\ Len(c) = Len(a \o b)
      BY <3>2, <3>4 DEF c
    <3>7. a \o b = c
      BY <3>4, <3>5, <3>6, SeqEqual
    <3> QED
      BY <3>7 DEF a, b, c
  <2>7. Written' = DataOf(1, offset')
    BY <1>1, <2>4, <2>6 DEF Written, n
  <2>8. /\ tree'.type = "file" /\ reads' = TheFile(tree').name /\ announced' = TheFile(tree').size
    BY <1>1, <2>1 DEF ReadsFile
  <2>9. offset' <= size /\ (at' = "send" /\ exhausted' => offset' = size)
    BY <1>1, <2>5 DEF n
  <2> QED
    BY <1>1, <2>7, <2>8, <2>9 DEF ReadsFile, size
<1> QED
  BY <1>1, <1>2 DEF SendsFile, IsTar, Delivered

\* A chunk that is sent is what was read, and the last one ends the file.
LEMMA SendsFileSends ==
  ASSUME UpTypes, Control, SendsFile, req.way = "up", SendChunk
  PROVE  SendsFile'
<1>1. /\ at = "send" /\ at' = (IF exhausted THEN "answer" ELSE "put") /\ sent' = sent \o out
      /\ UNCHANGED <<req, tree, announced, offset, reads, told, disturbed>> /\ ~told
  BY DEF SendChunk, UpProceed, UpGoto, sourceVars, readVars, Control, Answers, Late
<1>2. ASSUME ~IsTar, ~disturbed PROVE IF exhausted THEN sent' = DataOf(1, TheFile(tree).size) /\ announced = TheFile(tree).size
                                                   ELSE ReadsFile'
  <2>1. ReadsFile
    BY <1>1, <1>2 DEF SendsFile, Reading
  <2>2. sent' = DataOf(1, offset)
    BY <1>1, <2>1 DEF ReadsFile, Written
  <2>3. ~exhausted => Written' = DataOf(1, offset')
    BY <1>1, <2>2 DEF Written
  <2> QED
    BY <1>1, <2>1, <2>2, <2>3 DEF ReadsFile
<1> QED
  BY <1>1, <1>2 DEF SendsFile, IsTar, Delivered, Reading

\* An upload that was done has the archive of its source, of the size that was announced.
LEMMA ArchiveIsWhole ==
  ASSUME UpTypes, Filled, Packing, Walks, Announces, req.way = "up", IsTar, Delivered, ~disturbed
  PROVE  /\ sent = Archived(listing) /\ Len(sent) = announced /\ ToSet(listing) = AllFiles(tree)
         /\ Len(listing) = Cardinality(AllFiles(tree))
<1>1. /\ sent = Archived(listing) /\ pack.state = "done" /\ ToSet(listing) = AllFiles(tree) /\ announced = Total(tree)
      /\ InOneTree(tree) /\ IsTree(tree) /\ listing \in Seq(Entry) /\ InOrder(listing)
      /\ \A i \in DOMAIN listing : listing[i].kind = "file"
  BY DEF Packing, Walks, Announces, Delivered, UpTypes
<1> DEFINE S == AllFiles(tree)
           l == listing
           sizes == Sizes(tree)
<1>2. IsFiniteSet(S)
  BY <1>1, FilesFinite
<1>3. Len(l) \in Nat /\ DOMAIN l = 1 .. Len(l)
  BY <1>1, LenProperties
<1>4. S = {l[k] : k \in 1 .. Len(l)}
  BY <1>1, <1>3 DEF ToSet
<1>5. \A e \in S : sizes[e.name] = e.size
  BY <1>1, SizesAreOwn
<1>6. \A i, j \in 1 .. Len(l) : l[i] = l[j] => i = j
  BY <1>1, <1>3 DEF InOrder
<1> HIDE DEF S, l, sizes
<1>7. Start(l, Len(l)) = Sums(sizes, S)[S]
  BY <1>1, <1>2, <1>4, <1>5, <1>6, StartIsSum DEF l
<1>8. Len(Archived(l)) = Start(l, Len(l)) + Trailer
  BY <1>1, ArchivedIs DEF l
<1>9. Len(l) = Cardinality(S)
  <2> DEFINE f == [k \in 1 .. Len(l) |-> l[k]]
             I == 1 .. Len(l)
  <2>1. f \in [I -> S] /\ \A i, j \in I : f[i] = f[j] => i = j
    BY <1>4, <1>6
  <2>2. \A e \in S : \E k \in I : f[k] = e
    BY <1>4
  <2> HIDE DEF f
  <2>3. f \in Bijection(I, S)
    BY <2>1, <2>2 DEF Bijection, Injection, Surjection, IsInjective
  <2>4. IsFiniteSet(I) /\ Cardinality(I) = Len(l)
    <3>1. Cardinality(I) = IF 1 <= Len(l) THEN Len(l) - 1 + 1 ELSE 0
      BY <1>3, FS_Interval
    <3> QED
      BY <1>3, <3>1, FS_Interval
  <2> HIDE DEF I
  <2>5. ExistsBijection(I, S)
    BY <2>3 DEF ExistsBijection
  <2> QED
    BY <2>4, <2>5, FS_Bijection
<1>10. Len(sent) = announced
  BY <1>1, <1>7, <1>8 DEF Total, l, S, sizes
<1> QED
  BY <1>1, <1>9, <1>10 DEF l, S

\* Without a fault a source in order is never refused.
UpFine == req.way = "up" /\ UpGood /\ ~hurt /\ ~disturbed => NoError /\ (at = "end" => code = "0")

\* A step that fails only when a call outside of the library does, or when the source was not in order.
LEMMA UpFineKept ==
  ASSUME UpFine, UNCHANGED <<req, tree, mounts>>, hurt => hurt', disturbed => disturbed',
         req.way = "up" /\ UpGood /\ ~hurt' /\ ~disturbed' /\ NoError =>
           UNCHANGED <<errno, eres>> /\ (at' = "end" => at = "end" /\ code' = code)
  PROVE  UpFine'
<1>1. (UpGood' <=> UpGood) /\ req'.way = req.way
  BY DEF UpGood, SourceOk, IsTar, AllFit, Entries, AllFiles
<1> QED
  BY <1>1 DEF UpFine, NoError

\* Nothing of a good source is refused when the read begins,
LEMMA UpFineStart ==
  ASSUME Control, UpFine, req.way = "up",
         (\E e \in AllFiles(tree) : Change(e.name)) \/ AskRead \/ ReadInitFails \/ ReadInit
  PROVE  UpFine'
<1>1. UNCHANGED <<req, tree, mounts>>
  BY DEF Change, AskRead, ReadInitFails, ReadInit, UpProceed, UpGoto, commonVars, upVars, sourceVars
<1>2. CASE \E e \in AllFiles(tree) : Change(e.name)
  <2>1. disturbed' = TRUE /\ UNCHANGED hurt
    BY <1>2 DEF Change, commonVars, histVars
  <2> QED
    BY <1>1, <2>1, UpFineKept
<1>3. CASE AskRead
  <2>1. UNCHANGED <<hurt, disturbed, errno, eres>> /\ at' = "readinit"
    BY <1>3 DEF AskRead, UpProceed, UpGoto, upVars, sourceVars
  <2> QED
    BY <1>1, <2>1, UpFineKept
<1>4. CASE ReadInitFails
  <2>1. disturbed' = disturbed /\ hurt' = (hurt \/ SourceOk)
    BY <1>4 DEF ReadInitFails, upVars, sourceVars
  <2> QED
    BY <1>1, <2>1, UpFineKept DEF UpGood
<1>5. CASE ReadInit
  <2>1. UNCHANGED <<errno, eres>> /\ at' = "data" /\ (hurt => hurt') /\ (disturbed => disturbed')
    <3>1. UNCHANGED <<errno, eres>> /\ at' = "data"
      BY <1>5 DEF ReadInit, UpGoto
    <3>2. hurt => hurt'
      BY <1>5 DEF ReadInit
    <3>3. disturbed => disturbed'
      BY <1>5 DEF ReadInit
    <3> QED
      BY <3>1, <3>2, <3>3
  <2> QED
    BY <1>1, <2>1, UpFineKept
<1> QED
  BY <1>2, <1>3, <1>4, <1>5

\* when the connection is set up,
LEMMA UpFinePut ==
  ASSUME Control, UpFine, req.way = "up",
         PutRefused \/ PutConnects \/ PutTar \/ PutFile \/ ReadFails
  PROVE  UpFine'
<1>1. UNCHANGED <<req, tree, mounts, disturbed>>
  BY DEF PutRefused, PutConnects, PutTar, PutFile, ReadFails, PutFailsWith, UpProceed, UpGoto, upVars, sourceVars
<1>2. CASE PutRefused
  <2>1. (req.headers = "length" /\ hurt' = hurt) \/ hurt' = TRUE
    BY <1>2 DEF PutRefused
  <2> QED
    BY <1>1, <2>1, UpFineKept DEF UpGood
<1>3. CASE PutConnects \/ PutTar \/ PutFile
  <2>1. UNCHANGED <<hurt, errno, eres>> /\ at' # "end"
    BY <1>3 DEF PutConnects, PutTar, PutFile, UpProceed, UpGoto
  <2> QED
    BY <1>1, <2>1, UpFineKept
<1>4. CASE ReadFails
  <2>1. hurt' = TRUE
    BY <1>4 DEF ReadFails
  <2> QED
    BY <1>1, <2>1, UpFineKept
<1> QED
  BY <1>2, <1>3, <1>4

\* An entry in order can be opened, or entered.
LEMMA EntryIsFine ==
  ASSUME UpTypes, Filled, Control, Walks, req.way = "up", EntryFails, UpGood
  PROVE  hurt'
<1>1. Entering /\ IsTar /\ IsTree(tree) /\ walk \in Seq(Seq(Known))
  BY DEF EntryFails, Entering, InPack, UpTypes
<1>2. PICK pos, s : Walking(tree, pos, s, walk, disturbed) /\ Listed(tree, pos, listing, pack, disturbed)
  BY <1>1, EnteringIs DEF Entering
<1>3. Head(Deepest).path.fits
  <2>1. /\ walk[Len(walk)] = Deepest /\ Len(walk) # 0 /\ InOneTree(tree)
    BY <1>1, EnteringIs DEF Entering
  <2>2. Len(walk) \in 1 .. Len(s) /\ IsNext(tree, pos, s[Len(walk)], walk[Len(walk)])
    BY <1>1, <1>2, <2>1, NextIs DEF Entering
  <2> DEFINE d == s[Len(walk)]
  <2> HIDE DEF d
  <2>3. d \in DOMAIN tree.dirs /\ pos[d] + 1 \in 1 .. Len(tree.dirs[d]) /\ Head(Deepest) = tree.dirs[d][pos[d] + 1]
    BY <2>1, <2>2 DEF IsNext, d
  <2>4. DOMAIN tree.dirs[d] = 1 .. Len(tree.dirs[d])
    BY <1>1, <2>3, SourceIs
  <2>5. Head(Deepest) \in Entries(tree)
    BY <2>3, <2>4 DEF Entries, ToSet
  <2> QED
    BY <1>1, <2>5 DEF UpGood, AllFit
<1>4. Head(Deepest).kind = "dir" => Len(walk) < Cardinality(DOMAIN tree.dirs)
  BY <1>1, <1>2, TakenWalks
<1>5. Head(Deepest).kind = "dir" => ~(Len(walk) >= MaxDepth)
  <2>1. HAVE Head(Deepest).kind = "dir"
  <2>2. Len(walk) \in Nat /\ Cardinality(DOMAIN tree.dirs) \in Nat /\ MaxDepth \in Nat
    BY <1>1, UploadAssumption, FS_CardinalityType, LenProperties DEF IsTree
  <2> QED
    BY <1>1, <1>4, <2>1, <2>2 DEF UpGood
<1> QED
  BY <1>3, <1>5 DEF EntryFails

\* The name of a file in order fits its header.
LEMMA HeaderIsFine ==
  ASSUME UpTypes, Control, Walks, req.way = "up", PackHeaderFails
  PROVE  ~UpGood
<1>1. at = "pack" /\ pack.state = "header" /\ IsTar /\ pack.entry.name \in tree.unsplit
  BY DEF PackHeaderFails, InPack, UpTypes
<1>2. PICK pos, s : Walking(tree, pos, s, walk, disturbed) /\ Listed(tree, pos, listing, pack, disturbed)
  BY <1>1 DEF Walks, Reading
<1>3. pack.entry \in AllFiles(tree)
  BY <1>1, <1>2 DEF Listed, Took
<1> QED
  BY <1>1, <1>3 DEF UpGood

\* A file that nobody changes is as long as its header says.
LEMMA DataIsFine ==
  ASSUME UpTypes, Filled, Control, Packing, Walks, Announces, req.way = "up", PackDataTruncated
  PROVE  disturbed
<1>1. /\ at = "pack" /\ pack.state = "data" /\ Space > 0 /\ Readable(DataSpace) = 0 /\ IsTar
      /\ pack \in PackRecord /\ Laid /\ reads \in Names
  BY DEF PackDataTruncated, InPack, UpTypes, Packing, Reading
<1>2. ASSUME ~disturbed PROVE FALSE
  <2>1. pack.expected = length[reads] /\ pack.written < pack.expected /\ offset = pack.written
    BY <1>1, <1>2 DEF Announces, Expects, Reading, Laid
  <2>2. offset \in Nat /\ length[reads] \in Nat /\ Space \in Int
    BY <1>1, Packed DEF UpTypes
  <2> DEFINE m == pack.expected - pack.written
  <2>3. m \in Nat /\ m > 0
    BY <2>1, <2>2
  <2>4. DataSpace > 0 /\ DataSpace \in Int
    <3>1. DataSpace = Min2(Min2(Space, m), ReadSize)
      BY DEF DataSpace
    <3> HIDE DEF m
    <3>2. ReadSize \in Nat /\ ReadSize > 0
      BY UploadAssumption
    <3> QED
      BY <1>1, <2>2, <2>3, <3>1, <3>2 DEF Min2
  <2>5. length[reads] > offset /\ length[reads] - offset > 0
    BY <2>1, <2>2
  <2>6. Readable(DataSpace) = Min2(DataSpace, length[reads] - offset)
    BY <2>5 DEF Readable
  <2> QED
    BY <1>1, <2>2, <2>4, <2>5, <2>6 DEF Min2
<1> QED
  BY <1>2

\* by a pass of the archive,
LEMMA UpFinePack ==
  ASSUME UpTypes, Filled, Control, Packing, Walks, Announces, UpFine, req.way = "up", Pack
  PROVE  UpFine'
<1>1. UNCHANGED <<req, tree, mounts>> /\ (disturbed => disturbed') /\ (hurt => hurt')
  BY DEF Pack, PackStops, Ascend, EnterDirectory, PassOther, NextFile, EntryFails, NoMoreFiles, PackHeader,
         PackHeaderFails, PackData, PackDataTruncated, PackPadding, PackTrailer, PackRest, PackRefuses, PutFailsWith,
         UpProceed, UpGoto, sourceVars, readVars
<1>2. CASE PackStops \/ PassOther \/ NextFile \/ NoMoreFiles \/ PackHeader \/ PackData \/ PackPadding \/ PackTrailer
  <2>1. UNCHANGED <<errno, eres>> /\ at' # "end"
    BY <1>2 DEF PackStops, PassOther, NextFile, NoMoreFiles, PackHeader, PackData, PackPadding, PackTrailer, PackRest,
                UpProceed, UpGoto
  <2> QED
    BY <1>1, <2>1, UpFineKept
<1>3. CASE Ascend \/ EnterDirectory
  <2>1. UNCHANGED <<errno, eres>> /\ at' # "end"
    BY <1>3 DEF Ascend, EnterDirectory, UpGoto
  <2> QED
    BY <1>1, <2>1, UpFineKept
<1>4. CASE EntryFails
  BY <1>1, <1>4, EntryIsFine, UpFineKept
<1>5. CASE PackHeaderFails
  BY <1>1, <1>5, HeaderIsFine, UpFineKept
<1>6. CASE PackDataTruncated
  BY <1>1, <1>6, DataIsFine, UpFineKept
<1> QED
  BY <1>2, <1>3, <1>4, <1>5, <1>6 DEF Pack

\* A server that got what was announced does not wait for more.
LEMMA AnswerIsFine ==
  ASSUME UpTypes, Filled, Control, Packing, Walks, Announces, SendsFile, req.way = "up", ServerRefuses
  PROVE  hurt' \/ disturbed
<1>1. at = "answer" /\ hurt' = (hurt \/ Len(sent) >= announced) /\ announced \in Nat
  BY DEF ServerRefuses, Filled
<1>2. ASSUME ~disturbed PROVE Len(sent) = announced
  <2>1. CASE IsTar
    BY <1>1, <1>2, <2>1, ArchiveIsWhole DEF Delivered
  <2>2. CASE ~IsTar
    <3>1. sent = DataOf(1, announced)
      BY <1>1, <1>2, <2>2 DEF SendsFile, Delivered
    <3> QED
      BY <1>1, <3>1, DataIsSeq
  <2> QED
    BY <2>1, <2>2
<1>3. CASE disturbed
  BY <1>3
<1>4. CASE ~disturbed
  <2>1. Len(sent) >= announced
    BY <1>1, <1>2, <1>4
  <2> QED
    BY <1>1, <2>1
<1> QED
  BY <1>3, <1>4

\* or by the server and after it.
LEMMA UpFineEnd ==
  ASSUME UpTypes, Filled, Control, Packing, Walks, Announces, SendsFile, UpFine, req.way = "up",
         \/ SendChunk \/ SendFails \/ ServerAccepts \/ ServerRefuses
         \/ ReadComplete \/ ReadAbort \/ UpCommon
  PROVE  UpFine'
<1>1. CASE SendChunk \/ ServerAccepts \/ ReadComplete \/ ReadAbort
  <2>1. UNCHANGED <<req, tree, mounts, disturbed, hurt, errno, eres>> /\ at' # "end"
    BY <1>1 DEF SendChunk, ServerAccepts, ReadComplete, ReadAbort, UpProceed, UpGoto, upVars, sourceVars, histVars
  <2> QED
    BY <2>1, UpFineKept
<1>2. CASE SendFails
  <2>1. UNCHANGED <<req, tree, mounts, disturbed>> /\ hurt' = TRUE
    BY <1>2 DEF SendFails, PutFailsWith, UpGoto, upVars, sourceVars
  <2> QED
    BY <2>1, UpFineKept
<1>3. CASE ServerRefuses
  <2>1. UNCHANGED <<req, tree, mounts, disturbed>> /\ (hurt => hurt')
    BY <1>3 DEF ServerRefuses, PutFailsWith, UpGoto, upVars, sourceVars
  <2> QED
    BY <1>3, <2>1, AnswerIsFine, UpFineKept
<1>4. CASE UpCommon
  <2>1. UNCHANGED <<req, tree, mounts, disturbed>>
    BY <1>4 DEF UpCommon, RefuseRequest, DataNew, DataFails, DataDestroy, Respond, Work, upVars, sourceVars
  <2>2. CASE RefuseRequest
    <3>1. ~ValidRequest(req) /\ hurt' = hurt
      BY <2>2 DEF RefuseRequest, histVars
    <3> QED
      BY <2>1, <3>1, UpFineKept DEF UpGood
  <2>3. CASE DataNew("request") \/ DataDestroy \/ Work
    <3>1. UNCHANGED <<hurt, errno, eres>> /\ (at' # "end" \/ UNCHANGED <<at, code>>)
      BY <2>3 DEF DataNew, DataDestroy, Work, histVars
    <3> QED
      BY <2>1, <3>1, UpFineKept
  <2>4. CASE DataFails
    <3>1. hurt' = TRUE
      BY <2>4 DEF DataFails
    <3> QED
      BY <2>1, <3>1, UpFineKept
  <2>5. CASE Respond
    <3>1. code' = ResponseCode /\ UNCHANGED <<hurt, errno, eres>> /\ at' = "end"
      BY <2>5 DEF Respond, histVars
    <3>2. NoError => ResponseCode = "0"
      BY CodeOfError DEF Control, Answers
    <3>3. (UpGood' <=> UpGood) /\ (NoError' <=> NoError)
      BY <2>1, <3>1 DEF UpGood, SourceOk, IsTar, AllFit, Entries, AllFiles, NoError
    <3> QED
      BY <2>1, <3>1, <3>2, <3>3 DEF UpFine
  <2> QED
    BY <1>4, <2>2, <2>3, <2>4, <2>5 DEF UpCommon
<1> QED
  BY <1>1, <1>2, <1>3, <1>4

\* What an upload rests on.
Uploading == Walks /\ Announces /\ SendsFile /\ UpFine

\* Every step of an upload keeps what is known of it,
LEMMA UploadingUp ==
  ASSUME UpTypes, Filled, Control, Packing, Uploading, UpNext
  PROVE  Uploading'
<1>1. req.way = "up" /\ Walks /\ Announces /\ SendsFile /\ UpFine
  BY UpRequest DEF Uploading
<1>2. Walks'
  BY <1>1, WalksUp
<1>3. CASE (\E e \in AllFiles(tree) : Change(e.name)) \/ AskRead \/ ReadInitFails
  BY <1>1, <1>2, <1>3, AnnouncesUp, SendsFileSteps, UpFineStart DEF Uploading
<1>4. CASE ReadInit
  BY <1>1, <1>2, <1>4, AnnouncesReadInit, SendsFileReadInit, UpFineStart DEF Uploading
<1>5. CASE PutRefused \/ PutConnects \/ ReadFails
  BY <1>1, <1>2, <1>5, AnnouncesUp, SendsFileSteps, UpFinePut DEF Uploading
<1>6. CASE PutTar
  <2>1. SendsFile'
    BY <1>6 DEF PutTar, UpProceed, UpGoto, SendsFile, IsTar
  <2> QED
    BY <1>1, <1>2, <1>6, <2>1, AnnouncesUp, UpFinePut DEF Uploading
<1>7. CASE PutFile
  BY <1>1, <1>2, <1>7, AnnouncesUp, SendsFilePutFile, UpFinePut DEF Uploading
<1>8. CASE Pack
  <2>1. at = "pack" /\ IsTar /\ req' = req
    BY <1>8 DEF UpTypes, Pack, PackStops, Ascend, EnterDirectory, PassOther, NextFile, EntryFails, NoMoreFiles,
           PackHeader, PackHeaderFails, PackData, PackDataTruncated, PackPadding, PackTrailer, Entering, InPack,
           PackRest, PackRefuses, PutFailsWith, UpProceed, UpGoto
  <2>2. SendsFile'
    BY <2>1 DEF SendsFile, IsTar
  <2> QED
    BY <1>1, <1>2, <1>8, <2>2, AnnouncesPack, UpFinePack DEF Uploading
<1>9. CASE SendChunk
  BY <1>1, <1>2, <1>9, AnnouncesUp, SendsFileSends, UpFineEnd DEF Uploading
<1>10. CASE SendFails \/ ServerAccepts \/ ServerRefuses \/ ReadComplete \/ ReadAbort \/ UpCommon
  BY <1>1, <1>2, <1>10, AnnouncesUp, SendsFileSteps, UpFineEnd DEF Uploading
<1> QED
  BY <1>3, <1>4, <1>5, <1>6, <1>7, <1>8, <1>9, <1>10 DEF UpNext

\* which holds before it began,
LEMMA UploadingInit == ASSUME Sourced, Init PROVE Uploading
<1>1. Walks
  BY WalksInit
<1>2. CASE \E s \in Downloads : DownStarts(s.req, s.content, s.mounts, s.dest) /\ UpIdle
  <2>1. req.way = "down"
    BY <1>2, ArchiveAssumption DEF DownStarts
  <2> QED
    BY <1>1, <2>1 DEF Uploading, Announces, SendsFile, UpFine
<1>3. CASE \E s \in Uploads : UpStarts(s.req, s.tree, s.mounts) /\ DownIdle
  <2>1. at = "asked" /\ told = FALSE /\ offset = 0 /\ sent = <<>> /\ errno = "0" /\ eres = "OK"
    BY <1>3 DEF UpStarts
  <2> QED
    BY <1>1, <2>1 DEF Uploading, Announces, SendsFile, UpFine, Reading, Delivered, NoError
<1> QED
  BY <1>2, <1>3 DEF Init

\* and is kept by the steps of a download and by the hand-over, too.
LEMMA UploadingStep ==
  ASSUME TypesInv, Packing, Uploading, [Next]_vars
  PROVE  Uploading'
<1>1. CASE UpNext
  BY <1>1, UploadingUp DEF TypesInv
<1>2. CASE DownNext \/ Handover
  <2>1. req'.way = "down"
    <3>1. CASE DownNext
      BY <3>1, DownRequest DEF TypesInv
    <3>2. CASE Handover
      BY <3>2 DEF Handover, TypesInv, CommonTypes, Request
    <3> QED
      BY <1>2, <3>1, <3>2
  <2> QED
    BY <2>1 DEF Uploading, Walks, Announces, SendsFile, UpFine
<1>3. CASE UNCHANGED vars
  <2>1. UNCHANGED <<at, told, hurt, errno, eres, code, mounts, req, out, exhausted, tree, length, announced, reads, pack,
                    offset, sent, disturbed>>
    BY <1>3 DEF vars, commonVars, histVars, upVars, sourceVars, readVars, packVars
  <2>2. Walks'
    BY <1>3, WalksStep DEF Uploading
  <2>3. Announces'
    BY <2>1, AnnouncesKept DEF Uploading, Delivered
  <2>4. SendsFile'
    BY <2>1, SendsFileKept DEF Uploading, Delivered, TypesInv
  <2>5. UpFine'
    BY <2>1, UpFineKept DEF Uploading
  <2> QED
    BY <2>2, <2>3, <2>4, <2>5 DEF Uploading
<1> QED
  BY <1>1, <1>2, <1>3 DEF Next, Rest

\* The end of an upload.
LEMMA UploadingGives ==
  ASSUME TypesInv, Packing, Uploading
  PROVE  UploadsTree
<1>1. SUFFICES ASSUME at = "end", req.way = "up"
               PROVE  /\ code = "0" /\ ~disturbed =>
                           IF IsTar
                           THEN /\ Stored = Archived(listing)
                                /\ ToSet(listing) = AllFiles(tree) /\ Len(listing) = Cardinality(AllFiles(tree))
                           ELSE Stored = DataOf(1, tree.dirs[Root][1].size)
                      /\ UpGood /\ ~hurt /\ ~disturbed => code = "0"
  BY DEF UploadsTree
<1>2. UpGood /\ ~hurt /\ ~disturbed => code = "0"
  BY <1>1 DEF Uploading, UpFine
<1>3. ASSUME code = "0", ~disturbed
      PROVE  IF IsTar
             THEN /\ Stored = Archived(listing)
                  /\ ToSet(listing) = AllFiles(tree) /\ Len(listing) = Cardinality(AllFiles(tree))
             ELSE Stored = DataOf(1, tree.dirs[Root][1].size)
  <2>1. Delivered /\ sent \in Seq(Cell)
    BY <1>1, <1>3 DEF TypesInv, Control, Answers, Delivered, Filled
  <2>2. ASSUME Len(sent) = announced PROVE Stored = sent
    BY <2>1, <2>2, SubSeqProperties, LenProperties DEF Stored
  <2>3. CASE IsTar
    BY <1>1, <1>3, <2>1, <2>2, <2>3, ArchiveIsWhole DEF TypesInv, Uploading
  <2>4. CASE ~IsTar
    <3>1. sent = DataOf(1, announced) /\ announced = tree.dirs[Root][1].size /\ announced \in Nat
      BY <1>1, <1>3, <2>1, <2>4 DEF Uploading, SendsFile, TheFile, TypesInv, Filled
    <3>2. Len(sent) = announced
      BY <3>1, DataIsSeq
    <3> QED
      BY <2>2, <2>4, <3>1, <3>2
  <2> QED
    BY <2>3, <2>4
<1> QED
  BY <1>2, <1>3

(***************************************************************************)
(* A download of what is in order.                                         *)
(***************************************************************************)
GoodArchive == content.cells = Archived(content.entries) /\ InOrder(content.entries)

\* The bytes of a good archive.
LEMMA GoodCells ==
  ASSUME OfferedArchive, GoodArchive
  PROVE  LET l == content.entries IN
         /\ Len(content.cells) = Start(l, Len(l)) + Trailer /\ Len(l) \in Nat /\ Trailer = 2 * Block /\ Block \in Nat
         /\ \A i \in 0 .. Len(l) : Start(l, i) \in Nat /\ Start(l, i) <= Start(l, Len(l))
         /\ \A i \in 1 .. Len(l) :
              /\ l[i].size \in Nat /\ Padding(l[i].size) \in Nat
              /\ Start(l, i) = Start(l, i - 1) + Block + l[i].size + Padding(l[i].size)
              /\ \A k \in 1 .. Block : content.cells[Start(l, i - 1) + k] = <<"header", i, k>>
              /\ \A k \in 1 .. Padding(l[i].size) : content.cells[Start(l, i - 1) + Block + l[i].size + k] = Zero
         /\ \A k \in 1 .. Trailer : content.cells[Start(l, Len(l)) + k] = Zero
<1> DEFINE l == content.entries
<1>1. l \in Seq(Entry) /\ content.cells = Archived(l)
  BY DEF OfferedArchive, IsContent, GoodArchive
<1> HIDE DEF l
<1>2. /\ Len(l) \in Nat /\ Block \in Nat /\ Trailer = 2 * Block
      /\ \A i \in 1 .. Len(l) : l[i].size \in Nat /\ Padding(l[i].size) \in Nat
  BY <1>1, PiecesAreSeqs, TransferAssumption DEF Trailer
<1>3. /\ Start(l, 0) = 0 /\ \A i \in 0 .. Len(l) : Start(l, i) \in Nat
      /\ \A i \in 1 .. Len(l) : Start(l, i) = Start(l, i - 1) + Block + l[i].size + Padding(l[i].size)
  BY <1>1, Starts
<1>4. /\ Len(content.cells) = Start(l, Len(l)) + Trailer
      /\ \A k \in 1 .. Trailer : content.cells[Start(l, Len(l)) + k] = Zero
  BY <1>1, ArchivedIs
<1>5. \A i \in 0 .. Len(l) : Start(l, i) <= Start(l, Len(l))
  <2> TAKE i \in 0 .. Len(l)
  <2>1. CASE i = 0
    BY <1>2, <1>3, <2>1
  <2>2. CASE i # 0
    <3>1. i \in 1 .. Len(l)
      BY <1>2, <2>2
    <3> QED
      BY <1>1, <3>1, Layout
  <2> QED
    BY <2>1, <2>2
<1>6. ASSUME NEW i \in 1 .. Len(l), NEW k \in 1 .. Block PROVE content.cells[Start(l, i - 1) + k] = <<"header", i, k>>
  BY <1>1, Layout
<1>7. ASSUME NEW i \in 1 .. Len(l), NEW k \in 1 .. Padding(l[i].size)
      PROVE  content.cells[Start(l, i - 1) + Block + l[i].size + k] = Zero
  <2> DEFINE size == l[i].size
             pad == Padding(size)
             j == Block + size + k
             a == Start(l, i - 1)
  <2>1. size \in Nat /\ pad \in Nat /\ k \in 1 .. pad /\ a \in Nat /\ Start(l, i) = a + Block + size + pad
        /\ Start(l, i) <= Start(l, Len(l)) /\ Start(l, Len(l)) \in Nat
    <3>1. i - 1 \in 0 .. Len(l) /\ i \in 0 .. Len(l) /\ Len(l) \in 0 .. Len(l)
      BY <1>2
    <3> QED
      BY <1>2, <1>3, <1>5, <3>1
  <2>2. Piece(l, i) = Partial(i, size, pad)
    BY DEF Piece
  <2>3. \A q \in 1 .. Block + size + pad : Body(Upto(l, i))[a + q] = Piece(l, i)[q]
    BY <1>1, BodyStep
  <2> HIDE DEF size, pad, j, a
  <2>4. \A q \in 1 .. pad : Partial(i, size, pad)[Block + size + q] = Zero
    <3>1. i \in Nat
      BY <1>2
    <3> QED
      BY <2>1, <3>1, PartialIs
  <2>5. j \in 1 .. Block + size + pad /\ a + j \in 1 .. Start(l, i) /\ a + j \in 1 .. Start(l, Len(l))
    <3> DEFINE next == Start(l, i)
               end == Start(l, Len(l))
    <3>1. /\ size \in Nat /\ pad \in Nat /\ k \in 1 .. pad /\ a \in Nat /\ Block \in Nat /\ end \in Nat
          /\ next = a + Block + size + pad /\ next <= end
      BY <1>2, <2>1
    <3> HIDE DEF next, end
    <3>2. j \in 1 .. Block + size + pad /\ a + j \in 1 .. next
      BY ONLY <3>1 DEF j
    <3>3. a + j \in 1 .. end
      BY ONLY <3>1, <3>2
    <3> QED
      BY <3>2, <3>3 DEF next, end
  <2>6. Body(Upto(l, i))[a + j] = Zero
    BY <2>1, <2>2, <2>3, <2>4, <2>5 DEF j
  <2>7. Body(l)[a + j] = Body(Upto(l, i))[a + j]
    <3>1. i \in 0 .. Len(l)
      BY <1>2
    <3> QED
      BY <1>1, <2>5, <3>1, BodyPrefix
  <2>8. Archived(l)[a + j] = Body(l)[a + j]
    BY <1>1, <2>5, ArchivedIs
  <2>9. a + j = Start(l, i - 1) + Block + l[i].size + k
    BY <1>2, <2>1 DEF a, j, size
  <2> QED
    BY <1>1, <2>6, <2>7, <2>8, <2>9
<1> QED
  BY <1>2, <1>3, <1>4, <1>5, <1>6, <1>7 DEF l

\* The header of a good archive is the one of the next entry, or the block of zeros.
LEMMA HeaderIsGood ==
  ASSUME Unpacking, GoodArchive, HeaderRefused
  PROVE  FALSE
<1>1. tar.state = "header" /\ Len(HeaderRead) = Block /\ ~AllZero(HeaderRead) /\ ~HeaderValid
  BY DEF HeaderRefused, InTar, HeaderFull
<1> DEFINE l == content.entries
           of == tar.of
<1>2. /\ OfferedArchive /\ Len(l) \in Nat /\ DOMAIN l = 1 .. Len(l) /\ of \in 0 .. Len(l)
      /\ HeaderRead \in Seq(Cell)
      /\ \A k \in 1 .. Block : HeaderRead[k] = content.cells[EntryStart(of) + k]
  BY <1>1, UnpackingIs, HeaderFromContent DEF TarRead
<1> HIDE DEF l, of
<1>3. CASE of = Len(l)
  <2>1. \A k \in 1 .. Block : k \in 1 .. Trailer
    BY <1>2, GoodCells DEF l
  <2>2. \A k \in 1 .. Block : HeaderRead[k] = Zero
    BY <1>2, <1>3, <2>1, GoodCells DEF l, EntryStart
  <2>3. DOMAIN HeaderRead = 1 .. Block
    BY <1>1, <1>2, LenProperties
  <2> QED
    BY <1>1, <2>2, <2>3 DEF AllZero
<1>4. CASE of # Len(l)
  <2> DEFINE i == of + 1
  <2>1. i \in 1 .. Len(l) /\ i - 1 = of /\ i \in Nat
    <3>1. of \in 0 .. Len(l) /\ Len(l) \in Nat
      BY <1>2
    <3> QED
      BY <1>4, <3>1
  <2> HIDE DEF i
  <2>2. \A k \in 1 .. Block : content.cells[EntryStart(i - 1) + k] = <<"header", i, k>>
    BY <1>2, <2>1, GoodCells DEF l, EntryStart
  <2>3. \A k \in 1 .. Block : HeaderRead[k] = <<"header", i, k>>
    BY <1>2, <2>1, <2>2
  <2>4. /\ HeaderOf(i) \in Seq(Cell) /\ Len(HeaderOf(i)) = Block
        /\ \A k \in 1 .. Block : HeaderOf(i)[k] = <<"header", i, k>>
    BY <2>1, HeaderIsSeq
  <2>5. HeaderRead = HeaderOf(i)
    BY <1>1, <1>2, <2>3, <2>4, SeqEqual
  <2> QED
    BY <1>1, <1>2, <2>1, <2>5 DEF HeaderValid, HeaderIs, l
<1> QED
  BY <1>3, <1>4

\* Each file of a good archive is new, and below the destination.
LEMMA FileIsGood ==
  ASSUME Unpacking, GoodArchive, NEW i \in DOMAIN content.entries, HeaderOpenFails(i)
  PROVE  hurt'
<1>1. /\ tar.state = "header" /\ HeaderFull /\ HeaderIs(i) /\ Regular(i)
      /\ ~EntryOk(content.entries[i]) \/ hurt' = TRUE
  BY DEF HeaderOpenFails, InTar
<1>2. i = tar.of + 1 /\ tar.of \in Nat /\ disk = Complete(tar.of)
  BY <1>1, UnpackingIs, HeaderIsNext DEF TarRead, InHeader
<1>3. content.entries[i].path.fits /\ SafePath(content.entries[i].path, FALSE, FALSE)
  BY <1>1 DEF GoodArchive, InOrder, Regular
<1>4. disk[content.entries[i].name] = Absent
  <2>1. content.entries[i].name \in Names
    <3>1. content.entries[i] \in Entry
      BY UnpackingIs, PiecesAreSeqs
    <3> QED
      BY <3>1 DEF Entry
  <2>2. \A j \in DOMAIN content.entries : j <= tar.of => ~(content.entries[j].kind = "file" /\ content.entries[j].name = content.entries[i].name)
    <3> TAKE j \in DOMAIN content.entries
    <3>1. HAVE j <= tar.of
    <3>2. j # i
      BY <1>2, <3>1
    <3> QED
      BY <1>1, <3>2 DEF GoodArchive, InOrder, Regular
  <2> QED
    BY <1>2, <2>1, <2>2 DEF Complete, Whole
<1> QED
  BY <1>1, <1>3, <1>4 DEF EntryOk

\* Only a file has data, and then it is open.
LEMMA DataIsGood ==
  ASSUME Unpacking, GoodArchive, ReadDataNowhere
  PROVE  FALSE
<1>1. tar.state = "data" /\ tar.file < FileSize /\ open = Absent /\ tar \in TarRecord
  BY UnpackingIs DEF ReadDataNowhere, InTar
<1>2. /\ tar.of \in DOMAIN content.entries /\ FileName(tar.of) \in Names /\ tar.file \in Nat
      /\ Regular(tar.of) => open = FileName(tar.of)
  <2>1. tar.of \in 1 .. Len(content.entries) /\ DOMAIN content.entries = 1 .. Len(content.entries)
    BY <1>1, UnpackingIs, CurrentEntry
  <2>2. Regular(tar.of) => open = FileName(tar.of)
    BY <1>1, UnpackingIs DEF TarRead, InData
  <2> QED
    BY <1>1, <2>1, <2>2, CurrentEntry DEF TarRecord
<1>3. CASE Regular(tar.of)
  BY <1>1, <1>2, <1>3, AbsentAssumption
<1>4. CASE ~Regular(tar.of)
  <2>1. FileSize = 0
    BY <1>2, <1>4 DEF GoodArchive, InOrder, Regular, FileSize
  <2> QED
    BY <1>1, <1>2, <2>1
<1> QED
  BY <1>3, <1>4

\* The bytes of the chunk are those of the content.
LEMMA ChunkIsContent ==
  ASSUME Unpacking, NEW n \in 0 .. Len(chunk), \A k \in 1 .. n : content.cells[Place + k] = Zero
  PROVE  AllZero(First(n))
<1>1. chunk \in Seq(Cell) /\ Len(chunk) \in Nat /\ Fed
  BY UnpackingIs
<1>2. First(n) \in Seq(Cell) /\ Len(First(n)) = n /\ \A k \in 1 .. n : First(n)[k] = chunk[k]
  BY <1>1, Cuts
<1>3. \A k \in 1 .. n : k \in 1 .. Len(chunk)
  BY <1>1
<1>4. \A k \in 1 .. n : First(n)[k] = Zero
  BY <1>1, <1>2, <1>3 DEF Fed
<1>5. DOMAIN First(n) = 1 .. n
  BY <1>2, LenProperties
<1> QED
  BY <1>4, <1>5 DEF AllZero

\* Its padding is zeros, which the reader does not refuse.
LEMMA PaddingIsGood ==
  ASSUME Unpacking, GoodArchive, ReadPaddingRefused
  PROVE  FALSE
<1> DEFINE i == tar.of
           size == FileSize
           n == Min2(Len(chunk), Padding(FileSize) - tar.padding)
           s == EntryStart(i - 1)
<1>1. tar.state = "padding" /\ ~AllZero(First(n)) /\ OfferedArchive
  BY UnpackingIs DEF ReadPaddingRefused, InTar
<1>2. /\ i \in 1 .. Len(content.entries) /\ size = content.entries[i].size /\ size \in Nat /\ Padding(size) \in Nat
      /\ s \in Nat /\ Place = s + Block + size + tar.padding /\ tar.padding \in Nat /\ tar.padding <= Padding(size)
      /\ Block \in Nat /\ Len(chunk) \in Nat
  <2>1. tar \in TarRecord /\ Block \in Nat /\ Len(chunk) \in Nat
    BY UnpackingIs
  <2>2. Place = s + Block + size + tar.padding
    BY <1>1, UnpackingIs DEF TarRead, InPadding
  <2>3. tar.padding <= Padding(size)
    BY <1>1 DEF Unpacking, Tarred
  <2> QED
    BY <1>1, <2>1, <2>2, <2>3, CurrentEntry DEF TarRecord, FileSize
<1>3. n \in 0 .. Len(chunk) /\ tar.padding + n <= Padding(size)
  BY <1>2, SMTT(40) DEF Min2
<1>4. \A k \in 1 .. Padding(size) : content.cells[s + Block + size + k] = Zero
  BY <1>1, <1>2, GoodCells DEF EntryStart
<1> HIDE DEF i, size, n, s
<1>5. \A k \in 1 .. n : tar.padding + k \in 1 .. Padding(size) /\ Place + k = s + Block + size + (tar.padding + k)
  <2> TAKE k \in 1 .. n
  <2> DEFINE p == tar.padding
             pl == Place
             pad == Padding(size)
  <2>1. /\ size \in Nat /\ pad \in Nat /\ s \in Nat /\ pl = s + Block + size + p /\ p \in Nat /\ Block \in Nat
        /\ n \in Nat /\ p + n <= pad /\ k \in 1 .. n
    BY <1>2, <1>3
  <2> HIDE DEF p, pl, pad
  <2>2. p + k \in 1 .. pad /\ pl + k = s + Block + size + (p + k)
    BY <2>1
  <2> QED
    BY <2>2 DEF p, pl, pad
<1>6. \A k \in 1 .. n : content.cells[Place + k] = Zero
  BY <1>4, <1>5
<1> QED
  BY <1>1, <1>3, <1>6, ChunkIsContent

(***************************************************************************)
(* How far the answer and its trailer are.                                 *)
(***************************************************************************)
Arrived == req.way = "down" /\ (at = "got" \/ (at = "chunk" /\ last)) => got = Len(content.cells) \/ hurt
\* The reader of the trailer is as far behind the last entry as it has counted.
AtTrailer ==
  req.way = "down" /\ Tar /\ at \in {"http", "chunk"} /\ tar.state = "trailer" /\ tar.trailer < Trailer
    => Place = EntryStart(Len(content.entries)) + tar.trailer

\* The trailer of an archive in order is zeros.
LEMMA TrailerIsGood ==
  ASSUME Unpacking, GoodArchive, AtTrailer, ReadTrailerRefused
  PROVE  FALSE
<1> DEFINE n == Min2(Len(chunk), Trailer - tar.trailer)
           s == EntryStart(Len(content.entries))
<1>1. tar.state = "trailer" /\ ~AllZero(First(n)) /\ OfferedArchive
  BY UnpackingIs DEF ReadTrailerRefused, InTar
<1>2. /\ s \in Nat /\ tar.trailer \in Nat /\ tar.trailer <= Trailer /\ Trailer \in Nat /\ Len(chunk) \in Nat
      /\ \A k \in 1 .. Trailer : content.cells[s + k] = Zero
  <2>1. tar \in TarRecord /\ Len(chunk) \in Nat /\ Len(content.entries) \in Nat
    BY UnpackingIs
  <2>2. Len(content.entries) \in 0 .. Len(content.entries)
    BY <2>1
  <2>3. Trailer \in Nat
    BY <1>1, GoodCells
  <2>4. tar.trailer <= Trailer
    BY DEF Unpacking, Tarred
  <2> QED
    BY <1>1, <2>1, <2>2, <2>3, <2>4, GoodCells DEF EntryStart, TarRecord
<1>3. n \in 0 .. Len(chunk) /\ tar.trailer + n <= Trailer
  BY <1>2 DEF Min2
<1>4. tar.trailer < Trailer => Place = s + tar.trailer
  BY <1>1 DEF AtTrailer, Unpacking
<1> HIDE DEF n, s
<1>5. \A k \in 1 .. n : tar.trailer < Trailer /\ tar.trailer + k \in 1 .. Trailer /\ s + tar.trailer + k = s + (tar.trailer + k)
  BY <1>2, <1>3
<1>6. \A k \in 1 .. n : content.cells[Place + k] = Zero
  BY <1>2, <1>4, <1>5
<1> QED
  BY <1>1, <1>3, <1>6, ChunkIsContent

\* A good archive is over only behind its trailer.
LEMMA EndIsGood ==
  ASSUME Unpacking, GoodArchive, AtTrailer, Arrived, TarNotExhausted
  PROVE  hurt
<1>1. chunk = <<>> /\ last /\ tar.trailer < Trailer /\ at = "chunk" /\ OfferedArchive
  BY UnpackingIs DEF TarNotExhausted
<1>2. SUFFICES ASSUME got = Len(content.cells) PROVE FALSE
  BY <1>1 DEF Arrived, Unpacking
<1> DEFINE N == Len(content.entries)
           s == EntryStart(N)
<1>3. /\ Block \in Nat /\ Block > 1 /\ Trailer = 2 * Block /\ s \in Nat /\ Len(content.cells) = s + Trailer
      /\ tar \in TarRecord /\ tar.trailer \in Nat /\ TarRead /\ Len(tar.header) \in Nat /\ Len(tar.header) <= Block
      /\ tar.of \in 0 .. N /\ N \in Nat
  <2>1. tar \in TarRecord /\ N \in Nat /\ Block \in Nat /\ Block > 1 /\ TarRead
    BY UnpackingIs
  <2>2. N \in 0 .. N
    BY <2>1
  <2>3. Len(tar.header) \in Nat /\ Len(tar.header) <= Block
    BY <2>1, LenProperties DEF Unpacking, Tarred, TarRecord
  <2> QED
    BY <1>1, <2>1, <2>2, <2>3, GoodCells DEF EntryStart, TarRecord, TarRead
<1>4. Place = s + Trailer
  <2>1. Len(chunk) = 0
    BY <1>1
  <2> QED
    BY <1>2, <1>3, <2>1 DEF Place
<1>5. tar.of \in 0 .. N => EntryStart(tar.of) \in Nat /\ EntryStart(tar.of) <= s
  BY <1>1, GoodCells DEF EntryStart
<1> HIDE DEF N, s
<1>6. CASE tar.state \in {"none", "header"}
  <2>1. Place = EntryStart(tar.of) + Len(tar.header)
    BY <1>3, <1>6 DEF TarRead, InHeader
  <2> QED
    BY <1>3, <1>4, <1>5, <2>1
<1>7. CASE tar.state \in {"data", "padding"}
  <2> DEFINE size == FileSize
             s0 == EntryStart(tar.of - 1)
             pad == Padding(FileSize)
  <2>1. size \in Nat /\ pad \in Nat /\ s0 \in Nat /\ EntryStart(tar.of) = s0 + Block + size + pad
    BY <1>7, CurrentEntry
  <2>2. tar.file \in Nat /\ tar.padding \in Nat
    BY <1>3 DEF TarRecord
  <2>3. tar.state = "data" => Place = s0 + Block + tar.file /\ tar.file <= size
    BY <1>3 DEF TarRead, InData, Unpacking, Tarred
  <2>4. tar.state = "padding" => Place = s0 + Block + size + tar.padding /\ tar.padding <= pad
    BY <1>3 DEF TarRead, InPadding, Unpacking, Tarred
  <2> HIDE DEF size, s0, pad
  <2> QED
    BY <1>3, <1>4, <1>5, <1>7, <2>1, <2>2, <2>3, <2>4
<1>8. CASE tar.state = "trailer"
  <2>1. Place = s + tar.trailer
    BY <1>1, <1>8 DEF AtTrailer, Unpacking, N, s
  <2> QED
    BY <1>1, <1>3, <1>4, <2>1
<1> QED
  BY <1>3, <1>6, <1>7, <1>8 DEF TarRecord, TarState

\* Without a fault what is in order is never refused.
DownFine == req.way = "down" /\ DownGood /\ ~hurt => NoError /\ (at = "end" => code = "0")

\* A step that takes nothing from the connection.
LEMMA ArrivedKept ==
  ASSUME Arrived, UNCHANGED <<req, content>>, hurt => hurt',
         at' \in {"got", "chunk"} => UNCHANGED <<got, last>> /\ (at' = at \/ (at = "chunk" /\ last))
  PROVE  Arrived'
<1>1. req'.way = req.way /\ Len(content'.cells) = Len(content.cells)
  OBVIOUS
<1>2. CASE at' \in {"got", "chunk"}
  BY <1>1, <1>2 DEF Arrived
<1>3. CASE at' \notin {"got", "chunk"}
  BY <1>3 DEF Arrived
<1> QED
  BY <1>2, <1>3

\* A step that fails only when a call outside of the library does, or when the request was not in order.
LEMMA DownFineKept ==
  ASSUME DownFine, UNCHANGED <<req, content, mounts, before>>, hurt => hurt',
         req.way = "down" /\ DownGood /\ ~hurt' /\ NoError =>
           UNCHANGED <<errno, eres>> /\ (at' = "end" => at = "end" /\ code' = code)
  PROVE  DownFine'
<1>1. (DownGood' <=> DownGood) /\ req'.way = req.way
  BY DEF DownGood, Tar
<1> QED
  BY <1>1 DEF DownFine, NoError

\* The reader is not behind the trailer.
LEMMA AtTrailerKept ==
  ASSUME AtTrailer, UNCHANGED <<req, content>>,
         Tar /\ at' \in {"http", "chunk"} /\ tar'.state = "trailer" =>
           tar' = tar /\ at \in {"http", "chunk"} /\ Place' = Place
  PROVE  AtTrailer'
<1>1. (Tar' <=> Tar) /\ EntryStart(Len(content.entries))' = EntryStart(Len(content.entries))
  BY DEF Tar, EntryStart
<1> QED
  BY <1>1 DEF AtTrailer

\* The part of the invariant that is about the state of a download.
Ordered ==
  /\ req.way = "down" => GoodOffer(content, req.encoding)
  /\ Arrived /\ AtTrailer /\ DownFine

\* A step that fails only when a call outside of the library does, or when the request was not in order.
LEMMA OrderedFails ==
  ASSUME Ordered, UNCHANGED <<req, content, mounts, before>>, hurt => hurt', at' \notin {"http", "chunk", "got", "end"},
         req.way = "down" /\ DownGood /\ ~hurt' /\ NoError => UNCHANGED <<errno, eres>>
  PROVE  Ordered'
<1>1. Arrived'
  BY ArrivedKept DEF Ordered
<1>2. AtTrailer'
  BY AtTrailerKept DEF Ordered
<1>3. DownFine'
  BY DownFineKept DEF Ordered
<1> QED
  BY <1>1, <1>2, <1>3 DEF Ordered

\* The steps before the connection.
LEMMA OrderedStarts ==
  ASSUME CommonTypes, Control, Ordered, req.way = "down",
         CheckSize \/ WriteInitRefuses \/ WriteInitFails \/ WriteInit \/ SetupDigest
  PROVE  Ordered'
<1> USE DEF Proceed, Goto, FailsWith
<1>1. UNCHANGED <<req, content, mounts, before>>
  BY DEF CheckSize, WriteInitRefuses, WriteInitFails, WriteInit, SetupDigest, downVars, streamVars, diskVars
<1>2. CASE CheckSize
  <2>1. at' \in {"init", "destroy"} /\ UNCHANGED hurt
        /\ (req.size \notin 0 .. SizeMax \/ UNCHANGED <<errno, eres>>)
    BY <1>2 DEF CheckSize
  <2>2. DownGood => req.size \in 0 .. SizeMax
    BY DEF DownGood
  <2>3. hurt => hurt'
    BY <2>1
  <2>4. DownGood => UNCHANGED <<errno, eres>>
    BY <2>1, <2>2
  <2> QED
    BY <1>1, <2>1, <2>3, <2>4, OrderedFails
<1>3. CASE WriteInitRefuses
  <2>1. /\ at = "init" /\ at' = "destroy" /\ UNCHANGED hurt
        /\ ~DestinationOk \/ ~PartitionOk(mounts, "write", req.size)
    BY <1>3 DEF WriteInitRefuses
  <2>2. root = before
    BY <2>1 DEF Control, Placed
  <2>3. ~DownGood
    BY <2>1, <2>2 DEF DownGood, DestinationOk, TarDestinationOk, FileDestinationOk
  <2> QED
    BY <1>1, <2>1, <2>3, OrderedFails
<1>4. CASE WriteInitFails
  <2>1. at' = "destroy" /\ hurt' = TRUE
    BY <1>4 DEF WriteInitFails
  <2> QED
    BY <1>1, <2>1, OrderedFails
<1>5. CASE WriteInit
  <2>1. at' = "data" /\ UNCHANGED <<hurt, errno, eres>>
    BY <1>5 DEF WriteInit
  <2> QED
    BY <1>1, <2>1, OrderedFails
<1>6. CASE SetupDigest
  <2>1. at' \in {"request", "abort"} /\ (hurt' = TRUE \/ UNCHANGED <<hurt, errno, eres>>)
    BY <1>6 DEF SetupDigest
  <2> QED
    BY <1>1, <2>1, OrderedFails
<1> QED
  BY <1>2, <1>3, <1>4, <1>5, <1>6

\* A piece of the answer arrives.
LEMMA OrderedReceives ==
  ASSUME Streamed, Tarred, Control, Reader, Ordered, req.way = "down", NEW n \in Nat, NEW final, Receive(n, final)
  PROVE  Ordered'
<1>1. /\ at = "http" /\ at' = "chunk" /\ UNCHANGED <<req, content, mounts, before, errno, eres>>
      /\ got + n <= Len(content.cells) /\ got' = got + n /\ last' = final
      /\ hurt' = (hurt \/ (final /\ got' < Len(content.cells)))
      /\ tar' = IF Tar /\ tar.state = "none" THEN [tar EXCEPT !.state = "header"] ELSE tar
  BY DEF Receive, Goto, diskVars
<1>2. Place' = Place
  BY Received
<1>3. got \in Nat /\ Len(content.cells) \in Nat /\ tar \in TarRecord
  BY LenProperties DEF Streamed, Tarred, IsContent
<1>4. final => got' = Len(content.cells) \/ hurt'
  <2>1. got' <= Len(content.cells) /\ got' \in Nat
    BY <1>1, <1>3
  <2>2. got' = Len(content.cells) \/ got' < Len(content.cells)
    BY <1>3, <2>1
  <2> QED
    BY <1>1, <2>2
<1>5. Arrived'
  BY <1>1, <1>4 DEF Arrived
<1>6. AtTrailer'
  <2>1. tar'.state = "trailer" => tar' = tar
    BY <1>1, <1>3 DEF TarRecord
  <2> QED
    BY <1>1, <1>2, <2>1, AtTrailerKept DEF Ordered
<1>7. DownFine'
  <2>1. hurt => hurt'
    BY <1>1
  <2> QED
    BY <1>1, <2>1, DownFineKept DEF Ordered
<1> QED
  BY <1>1, <1>5, <1>6, <1>7 DEF Ordered

\* A step of the handler that goes on with the rest of the answer.
LEMMA OrderedGoesOn ==
  ASSUME Ordered, UNCHANGED <<req, content, mounts, before, errno, eres, got, last>>, hurt => hurt', at' # "end",
         at' \in {"got", "chunk"} => (at' = at \/ (at = "chunk" /\ last)),
         Tar /\ at' \in {"http", "chunk"} /\ tar'.state = "trailer" =>
           tar' = tar /\ at \in {"http", "chunk"} /\ Place' = Place
  PROVE  Ordered'
<1>1. Arrived'
  BY ArrivedKept DEF Ordered
<1>2. AtTrailer'
  BY AtTrailerKept DEF Ordered
<1>3. DownFine'
  BY DownFineKept DEF Ordered
<1> QED
  BY <1>1, <1>2, <1>3 DEF Ordered

\* The steps of the connection and of the streams that write.
LEMMA OrderedHttp ==
  ASSUME Streamed, Tarred, Control, Reader, Ordered, req.way = "down", Http
  PROVE  Ordered'
<1> USE DEF Proceed, Goto, FailsWith, Refuse, ChunkDone
<1>1. CASE HttpConnects
  <2>1. at = "request" /\ at' = "http" /\ UNCHANGED <<req, content, mounts, before, hurt, errno, eres, got, last, tar>>
    BY <1>1 DEF HttpConnects, downVars, streamVars, codecVars, diskVars
  <2>2. tar.state # "trailer"
    BY <2>1, TarNoneIs DEF Reader, Untouched
  <2> QED
    BY <2>1, <2>2, OrderedGoesOn
<1>2. CASE HttpGetFails \/ ReceiveFails \/ AppendFails
  <2>1. at' = "abort" /\ UNCHANGED <<req, content, mounts, before>> /\ hurt' = TRUE
    BY <1>2 DEF HttpGetFails, ReceiveFails, AppendFails, downVars, streamVars, diskVars
  <2> QED
    BY <2>1, OrderedFails
<1>3. ASSUME NEW n \in Pieces, NEW final \in BOOLEAN, Receive(n, final) PROVE Ordered'
  <2>1. n \in Nat
    BY DownloadAssumption DEF DownloadAssumption
  <2> QED
    BY <1>3, <2>1, OrderedReceives
<1>4. CASE AppendChunk \/ \E n \in 0 .. Len(held) + Len(chunk) : Decompress(n)
  <2>1. /\ at = "chunk" /\ at' = (IF last THEN "got" ELSE "http") /\ ~Tar
        /\ UNCHANGED <<req, content, mounts, before, hurt, errno, eres, got, last>>
    BY <1>4 DEF AppendChunk, Decompress, Tar
  <2> QED
    BY <2>1, OrderedGoesOn
<1>5. ASSUME NEW n \in 0 .. Len(held) + Len(chunk), DecompressFails(n) PROVE Ordered'
  <2>1. at = "chunk" /\ req.encoding = "lz4" /\ at' = "abort" /\ UNCHANGED <<req, content, mounts, before>>
    BY <1>5 DEF DecompressFails, streamVars
  <2>2. content.good => Intact(Len(Input))
    <3>1. /\ Len(Input) \in Nat /\ Len(disk[open]) \in Nat /\ Len(disk[open]) + Len(Input) = got
          /\ \A k \in 1 .. Len(Input) : Input[k] = content.cells[Len(disk[open]) + k]
      BY <2>1, InputIs
    <3>2. got <= Len(content.cells) /\ Len(content.cells) \in Nat /\ DOMAIN content.cells = 1 .. Len(content.cells)
      BY LenProperties DEF Streamed, IsContent
    <3>3. \A k \in 1 .. Len(Input) : Len(disk[open]) + k \in DOMAIN content.cells
      BY <3>1, <3>2
    <3>4. content.good => \A k \in DOMAIN content.cells : content.cells[k] # Junk
      BY <2>1 DEF Ordered, GoodOffer
    <3> QED
      BY <3>1, <3>3, <3>4 DEF Intact
  <2>3. (hurt' <=> hurt) \/ hurt'
    BY <1>5 DEF DecompressFails
  <2>4. Intact(Len(Input)) => hurt'
    BY <1>5 DEF DecompressFails
  <2>5. (hurt => hurt') /\ (DownGood => hurt')
    BY <2>2, <2>3, <2>4 DEF DownGood
  <2> QED
    BY <2>1, <2>5, OrderedFails
<1> QED
  BY <1>1, <1>2, <1>3, <1>4, <1>5 DEF Http

\* One pass of the reader of an archive that goes on.
LEMMA OrderedUnpacks ==
  ASSUME Unpacking, Ordered,
         \/ HeaderPart \/ HeaderOfZeros \/ ReadData \/ ReadPadding \/ ReadTrailer \/ TarChunkEnds
         \/ \E i \in DOMAIN content.entries : HeaderSkipped(i) \/ HeaderOpens(i)
  PROVE  Ordered'
<1>1. /\ at = "chunk" /\ Tar /\ tar \in TarRecord /\ Ordered /\ OfferedArchive /\ HeaderRead \in Seq(Cell)
  BY UnpackingIs, HeaderReads DEF Unpacking
<1>2. CASE HeaderPart \/ \E i \in DOMAIN content.entries : HeaderSkipped(i) \/ HeaderOpens(i)
  <2>1. /\ at' = "chunk" /\ UNCHANGED <<req, content, mounts, before, errno, eres, got, last>>
    BY <1>2 DEF HeaderPart, HeaderSkipped, HeaderOpens, ReadHeader, TarRest, Goto
  <2>2. hurt => hurt'
    BY <1>2 DEF HeaderPart, HeaderSkipped, HeaderOpens, Close
  <2>3. CASE HeaderPart
    <3>1. tar'.state = "header"
      BY <1>1, <2>3 DEF HeaderPart, ReadHeader, InTar, TarRecord
    <3> QED
      BY <1>1, <2>1, <2>2, <3>1, OrderedGoesOn
  <2>4. ASSUME NEW i \in DOMAIN content.entries, HeaderSkipped(i) \/ HeaderOpens(i) PROVE Ordered'
    <3>1. i \in Nat /\ tar' = StartData(i)
      BY <2>4, UnpackingIs DEF HeaderSkipped, HeaderOpens, ReadHeader
    <3>2. tar'.state = "data"
      BY <1>1, <3>1, DataStarts
    <3> QED
      BY <1>1, <2>1, <2>2, <3>2, OrderedGoesOn
  <2> QED
    BY <1>2, <2>3, <2>4
<1>3. CASE ReadData \/ ReadPadding
  <2>1. /\ at' = "chunk" /\ UNCHANGED <<req, content, mounts, before, hurt, errno, eres, got, last>>
    BY <1>3 DEF ReadData, ReadPadding, TarRest, Proceed, Goto
  <2>2. tar'.state # "trailer"
    <3>1. CASE ReadData
      BY <3>1, DataStep
    <3>2. CASE ReadPadding
      BY <1>1, <3>2 DEF ReadPadding, InTar, TarRecord
    <3> QED
      BY <1>3, <3>1, <3>2
  <2> QED
    BY <1>1, <2>1, <2>2, OrderedGoesOn
<1>4. CASE TarChunkEnds
  <2>1. /\ at' = (IF last THEN "got" ELSE "http")
        /\ UNCHANGED <<req, content, mounts, before, hurt, errno, eres, got, last, tar, chunk>>
    BY <1>4 DEF TarChunkEnds, ChunkDone, Proceed, Goto, downVars, streamVars, codecVars, diskVars
  <2>2. Place' = Place
    BY <2>1 DEF Place
  <2> QED
    BY <1>1, <2>1, <2>2, OrderedGoesOn
<1>5. ASSUME HeaderOfZeros \/ ReadTrailer, AtTrailer' PROVE Ordered'
  <2>1. /\ at' = "chunk" /\ UNCHANGED <<req, content, mounts, before, hurt, errno, eres, got, last>>
    BY <1>5 DEF HeaderOfZeros, ReadHeader, ReadTrailer, TarRest, Proceed, Goto
  <2>2. Arrived'
    BY <1>1, <2>1, ArrivedKept DEF Ordered
  <2>3. DownFine'
    BY <1>1, <2>1, DownFineKept DEF Ordered
  <2> QED
    BY <1>1, <1>5, <2>1, <2>2, <2>3 DEF Ordered
<1>6. CASE HeaderOfZeros
  <2> DEFINE next == [tar EXCEPT !.state = "trailer", !.header = HeaderRead, !.trailer = Block]
  <2>1. tar.state = "header" /\ ReadHeader(next) /\ HeaderFull /\ AllZero(HeaderRead)
    BY <1>6 DEF HeaderOfZeros, InTar
  <2>2. tar' = next /\ content' = content /\ Place' = EntryStart(tar.of) + Len(HeaderRead)
    BY <2>1, HeaderStep
  <2>3. tar'.trailer = Block
    BY <1>1, <2>2, ZerosEnd
  <2>4. tar.of = Len(content.entries) /\ Len(HeaderRead) = Block
    BY <2>1, HeaderIsNext DEF HeaderFull
  <2>5. EntryStart(Len(content.entries))' = EntryStart(Len(content.entries))
    BY <2>2 DEF EntryStart
  <2>6. AtTrailer'
    BY <2>2, <2>3, <2>4, <2>5 DEF AtTrailer
  <2> QED
    BY <1>5, <1>6, <2>6
<1>7. CASE ReadTrailer
  <2> DEFINE n == Min2(Len(chunk), Trailer - tar.trailer)
  <2>1. /\ tar.state = "trailer" /\ UNCHANGED <<req, content, got>> /\ at' = "chunk"
        /\ tar' = [tar EXCEPT !.trailer = @ + n]
        /\ chunk' = IF tar.trailer + n = Trailer THEN <<>> ELSE After(n)
    BY <1>7 DEF ReadTrailer, InTar, Proceed, Goto, TarRest
  <2>2. /\ Len(chunk) \in Nat /\ tar.trailer \in Nat /\ tar.trailer <= Trailer
        /\ Trailer \in Nat
    BY UnpackingIs DEF Unpacking, Tarred, TarRecord, Trailer
  <2>3. n \in 0 .. Len(chunk) /\ tar.trailer + n <= Trailer
    BY <2>2 DEF Min2
  <2> HIDE DEF n
  <2>4. tar'.trailer = tar.trailer + n
    BY <1>1, <2>1 DEF TarRecord
  <2>5. ASSUME tar'.trailer < Trailer PROVE Place' = EntryStart(Len(content.entries)) + tar'.trailer
    <3>1. chunk' = After(n) /\ tar.trailer < Trailer
      BY <2>1, <2>2, <2>3, <2>4, <2>5
    <3>2. Place' = Place + n
      BY <2>1, <2>3, <3>1, TakenFromChunk
    <3>3. Place = EntryStart(Len(content.entries)) + tar.trailer
      BY <1>1, <2>1, <3>1 DEF Ordered, AtTrailer, Unpacking
    <3>4. EntryStart(Len(content.entries)) \in Nat
      <4>1. Len(content.entries) \in 0 .. Len(content.entries)
        BY UnpackingIs
      <4> QED
        BY <4>1, UnpackingIs
    <3> QED
      BY <2>2, <2>3, <2>4, <3>2, <3>3, <3>4
  <2>6. EntryStart(Len(content.entries))' = EntryStart(Len(content.entries))
    BY <2>1 DEF EntryStart
  <2>7. AtTrailer'
    BY <2>5, <2>6 DEF AtTrailer
  <2> QED
    BY <1>5, <1>7, <2>7
<1> QED
  BY <1>2, <1>3, <1>4, <1>6, <1>7

\* The reader of an archive that is in order refuses nothing of it.
LEMMA OrderedRefuses ==
  ASSUME Unpacking, Ordered,
         \/ HeaderRefused \/ ReadDataNowhere \/ ReadPaddingRefused \/ ReadTrailerRefused \/ TarNotExhausted
         \/ \E i \in DOMAIN content.entries : HeaderOpenFails(i)
  PROVE  Ordered'
<1> USE DEF TarRefuses, TarRest, Refuse, FailsWith, Goto
<1>1. req.way = "down" /\ Tar /\ AtTrailer /\ Arrived
  BY DEF Unpacking, Ordered
<1>2. content.good => GoodArchive
  BY <1>1 DEF Ordered, GoodOffer, GoodArchive, Tar
<1>3. UNCHANGED <<req, content, mounts, before>> /\ at' = "abort"
  BY DEF HeaderRefused, ReadDataNowhere, ReadPaddingRefused, ReadTrailerRefused, TarNotExhausted, HeaderOpenFails
<1>4. hurt => hurt'
  BY DEF HeaderRefused, ReadDataNowhere, ReadPaddingRefused, ReadTrailerRefused, TarNotExhausted, HeaderOpenFails, Close
<1>5. content.good => hurt'
  <2>1. HAVE content.good
  <2>2. CASE \E i \in DOMAIN content.entries : HeaderOpenFails(i)
    BY <1>2, <2>1, <2>2, FileIsGood
  <2>3. CASE HeaderRefused
    BY <1>2, <2>1, <2>3, HeaderIsGood
  <2>4. CASE ReadDataNowhere
    BY <1>2, <2>1, <2>4, DataIsGood
  <2>5. CASE ReadPaddingRefused
    BY <1>2, <2>1, <2>5, PaddingIsGood
  <2>6. CASE ReadTrailerRefused
    BY <1>1, <1>2, <2>1, <2>6, TrailerIsGood
  <2>7. CASE TarNotExhausted
    BY <1>1, <1>2, <1>4, <2>1, <2>7, EndIsGood
  <2> QED
    BY <2>2, <2>3, <2>4, <2>5, <2>6, <2>7
<1>6. DownGood => content.good
  BY DEF DownGood
<1> QED
  BY <1>3, <1>4, <1>5, <1>6, OrderedFails

\* The digest, and what is left of the download after it.
LEMMA OrderedEnds ==
  ASSUME Streamed, Control, Ordered, req.way = "down",
         VerifyDigest \/ WriteComplete \/ WriteAbort \/ DownCommon
  PROVE  Ordered'
<1> USE DEF Proceed, Goto, FailsWith
<1>1. UNCHANGED <<req, content, mounts, before>>
  BY DEF VerifyDigest, WriteComplete, WriteAbort, DownCommon, RefuseRequest, DataNew, DataFails, DataDestroy, Respond,
         Work, downVars, streamVars, diskVars
<1>2. CASE VerifyDigest
  <2>1. at = "got" /\ at' \in {"complete", "abort"}
        /\ (hurt' = TRUE \/ (UNCHANGED hurt /\ (~DigestRight \/ UNCHANGED <<errno, eres>>)))
    BY <1>2 DEF VerifyDigest
  <2>2. DownGood /\ ~hurt => DigestRight
    BY <2>1 DEF Ordered, Arrived, DownGood, DigestRight
  <2> QED
    BY <1>1, <2>1, <2>2, OrderedFails
<1>3. CASE WriteComplete \/ WriteAbort
  <2>1. at' = "destroy" /\ UNCHANGED <<errno, eres>> /\ (hurt' = TRUE \/ UNCHANGED hurt)
    BY <1>3 DEF WriteComplete, WriteAbort, Close
  <2> QED
    BY <1>1, <2>1, OrderedFails
<1>4. CASE DownCommon
  <2>1. UNCHANGED <<got, last, tar, chunk>>
    BY <1>4 DEF DownCommon, downVars, streamVars, codecVars
  <2>2. CASE DataNew("digest") \/ DataDestroy
    <3>1. at' \in {"digest", "reply"} /\ UNCHANGED <<hurt, errno, eres>>
      BY <2>2 DEF DataNew, DataDestroy, histVars
    <3> QED
      BY <1>1, <3>1, OrderedFails
  <2>3. CASE DataFails
    <3>1. at' = "destroy" /\ hurt' = TRUE
      BY <2>3 DEF DataFails
    <3> QED
      BY <1>1, <3>1, OrderedFails
  <2>4. CASE Work
    <3>1. UNCHANGED <<at, code, hurt, errno, eres>>
      BY <2>4 DEF Work, histVars
    <3>2. Place' = Place
      BY <2>1 DEF Place
    <3>3. Arrived'
      BY <1>1, <2>1, <3>1, ArrivedKept DEF Ordered
    <3>4. AtTrailer'
      BY <1>1, <2>1, <3>1, <3>2, AtTrailerKept DEF Ordered
    <3>5. DownFine'
      BY <1>1, <3>1, DownFineKept DEF Ordered
    <3> QED
      BY <1>1, <3>3, <3>4, <3>5 DEF Ordered
  <2>5. CASE RefuseRequest \/ Respond
    <3>1. /\ at' = "end" /\ UNCHANGED <<hurt, errno, eres>>
          /\ ~ValidRequest(req) \/ code' = ResponseCode
      BY <2>5 DEF RefuseRequest, Respond, histVars
    <3>2. NoError => ResponseCode = "0"
      BY CodeOfError DEF Control, Answers
    <3>3. (DownGood' <=> DownGood) /\ (DownGood => ValidRequest(req)) /\ (NoError' <=> NoError)
      BY <1>1, <3>1 DEF DownGood, Tar, NoError
    <3>4. DownFine'
      BY <1>1, <3>1, <3>2, <3>3 DEF DownFine, Ordered
    <3>5. Arrived' /\ AtTrailer'
      BY <3>1 DEF Arrived, AtTrailer
    <3> QED
      BY <1>1, <3>4, <3>5 DEF Ordered
  <2> QED
    BY <1>4, <2>2, <2>3, <2>4, <2>5 DEF DownCommon
<1> QED
  BY <1>2, <1>3, <1>4

\* What is good among what is offered is in order.
Trusted == \A s \in Downloads : GoodOffer(s.content, s.req.encoding)

\* What is known of a download holds before it began,
LEMMA OrderedInit == ASSUME Trusted, Init PROVE Ordered
<1>1. CASE \E s \in Downloads : DownStarts(s.req, s.content, s.mounts, s.dest) /\ UpIdle
  <2>1. PICK s \in Downloads : DownStarts(s.req, s.content, s.mounts, s.dest)
    BY <1>1
  <2>2. at = "asked" /\ errno = "0" /\ eres = "OK" /\ req = s.req /\ content = s.content
    BY <2>1 DEF DownStarts
  <2>3. GoodOffer(content, req.encoding)
    BY <2>2 DEF Trusted
  <2> QED
    BY <2>2, <2>3 DEF Ordered, Arrived, AtTrailer, DownFine, NoError
<1>2. CASE \E s \in Uploads : UpStarts(s.req, s.tree, s.mounts) /\ DownIdle
  <2>1. req.way = "up"
    BY <1>2, ArchiveAssumption DEF UpStarts
  <2> QED
    BY <2>1 DEF Ordered, Arrived, AtTrailer, DownFine
<1> QED
  BY <1>1, <1>2 DEF Init

\* What an upload hands over is in order.
LEMMA OrderedHandsOver ==
  ASSUME TypesInv, Uploading, Handover
  PROVE  Ordered'
<1>1. /\ at = "end" /\ req.way = "up" /\ code = "0" /\ at' = "asked" /\ errno' = errno /\ eres' = "OK"
      /\ content' = [entries |-> listing, cells |-> Stored, files |-> Unpacked(listing),
                     good |-> Stored = Archived(listing)]
  BY DEF Handover
<1>2. InOrder(listing)
  BY <1>1 DEF Uploading, Walks
<1>3. /\ content'.entries = listing /\ content'.cells = Stored /\ (content'.good => Stored = Archived(listing))
  BY <1>1
<1>4. GoodOffer(content', req'.encoding)
  <2>1. req' = [req EXCEPT !.way = "down", !.digest = "right", !.size = Len(Stored)] /\ IsTar
    BY DEF Handover
  <2>2. req \in Request
    BY DEF TypesInv, CommonTypes
  <2>3. req'.encoding = "tar"
    BY <2>1, <2>2 DEF Request, IsTar
  <2> QED
    BY <1>2, <1>3, <2>3 DEF GoodOffer
<1>5. errno = "0"
  BY <1>1 DEF TypesInv, Control, Answers, NoError
<1> QED
  BY <1>1, <1>4, <1>5 DEF Ordered, Arrived, AtTrailer, DownFine, NoError

\* and is kept by every step.
LEMMA OrderedStep ==
  ASSUME TypesInv, Packing, Reader, Uploading, Ordered, [Next]_vars
  PROVE  Ordered'
<1>1. CommonTypes /\ Streamed /\ Tarred /\ Control
  BY DEF TypesInv, DownTypes
<1>2. CASE DownNext /\ UNCHANGED upVars
  <2>1. req.way = "down"
    BY <1>1, <1>2, DownRequest
  <2>2. CASE Unpack
    <3>1. at = "chunk" /\ Tar
      BY <2>2 DEF Unpack, HeaderPart, HeaderOfZeros, HeaderRefused, HeaderSkipped, HeaderOpens, HeaderOpenFails, ReadData,
                  ReadDataNowhere, ReadPadding, ReadPaddingRefused, ReadTrailer, ReadTrailerRefused, TarChunkEnds,
                  TarNotExhausted, InTar
    <3>2. Unpacking
      BY <1>1, <2>1, <3>1 DEF Unpacking
    <3> QED
      BY <2>2, <3>2, OrderedUnpacks, OrderedRefuses DEF Unpack
  <2> QED
    BY <1>1, <1>2, <2>1, <2>2, OrderedStarts, OrderedHttp, OrderedEnds DEF DownNext
<1>3. CASE UpNext /\ UNCHANGED downVars
  <2>1. req'.way = "up"
    BY <1>1, <1>3, UpRequest
  <2> QED
    BY <2>1 DEF Ordered, Arrived, AtTrailer, DownFine
<1>4. CASE Handover
  BY <1>4, OrderedHandsOver
<1>5. CASE UNCHANGED vars
  <2>1. UNCHANGED <<req, content, mounts, before, got, chunk, last, tar, at, code, hurt, errno, eres>>
    BY <1>5 DEF vars, commonVars, histVars, downVars, streamVars, codecVars, diskVars
  <2>2. Place' = Place
    BY <2>1 DEF Place
  <2>3. Arrived'
    BY <2>1, ArrivedKept DEF Ordered
  <2>4. AtTrailer'
    BY <2>1, <2>2, AtTrailerKept DEF Ordered
  <2>5. DownFine'
    BY <2>1, DownFineKept DEF Ordered
  <2> QED
    BY <2>1, <2>3, <2>4, <2>5 DEF Ordered
<1> QED
  BY <1>2, <1>3, <1>4, <1>5 DEF Next, Rest

\* All of it.
GoodInv == ReadInv /\ Uploading /\ Ordered

\* What file_transfer/ promises: whatever is offered, of files of any size, in pieces of any size, a
\* good download ends without an error unless a call outside of the library fails, a good upload as
\* well, and an upload that ended well sent its source, in an archive of the size it announced.
THEOREM TransfersWell == ASSUME Offered, Trusted, Sourced PROVE Spec => []GoodTransfers
<1>1. Init => GoodInv
  BY TypesInvInit, PackingInit, ReaderInit, UploadingInit, OrderedInit DEF GoodInv, ReadInv
<1>2. GoodInv /\ [Next]_vars => GoodInv'
  BY TypesInvStep, PackingStep, ReaderStep, UploadingStep, OrderedStep DEF GoodInv, ReadInv
<1>3. GoodInv => GoodTransfers
  <2>1. HAVE GoodInv
  <2>2. UploadsTree
    BY <2>1, UploadingGives DEF GoodInv, ReadInv
  <2>3. req.way = "down" => GoodDownload
    BY <2>1 DEF GoodInv, Ordered, DownFine, GoodDownload
  <2> QED
    BY <2>2, <2>3 DEF GoodTransfers
<1> QED
  BY <1>1, <1>2, <1>3, PTL DEF Spec
===============================================================================
