----------------------------- MODULE PeekProofs -----------------------------
(***************************************************************************)
(* The peek is exact, for any ClientHello, cut into any number of frames   *)
(* of any offset and length.                                               *)
(*                                                                         *)
(* Reassembly leaves the longest start of the stream that the packet       *)
(* holds; a ClientHello says at its head how long it is, so a part of one  *)
(* is never entered; and in a whole one the readers stand, turn by turn,   *)
(* where the next extension and the next name begin.                       *)
(***************************************************************************)
EXTENDS Peek, SequenceTheorems, WellFoundedInduction, TLAPS

\* What a client writes.
Cells == Seq(Nat)

\* The first n sequences of s joined: g[k] joins k of them, off[k] is its length.
Built(s, n, off, g) ==
    /\ off \in [0..n -> Nat] /\ off[0] = 0
    /\ g \in [1..n -> Cells]
    /\ \A k \in 1..n : /\ off[k] = off[k - 1] + Len(s[k])
                       /\ g[k] = IF k = 1 THEN s[k] ELSE g[k - 1] \o s[k]
                       /\ Len(g[k]) = off[k]
    /\ \A k \in 1..n : \A j \in 1..k :
        /\ off[j] <= off[k]
        /\ \A i \in 1..Len(s[j]) : g[k][off[j - 1] + i] = s[j][i]

\* Where the parts of FlattenSeq(s) stand: the k-th after the first off[k - 1] cells.
Places(s, off) ==
    /\ off \in [0..Len(s) -> Nat] /\ off[0] = 0
    /\ \A k \in 1..Len(s) : off[k] = off[k - 1] + Len(s[k])
    /\ \A k \in 0..Len(s) : off[k] <= off[Len(s)]
    /\ FlattenSeq(s) \in Cells /\ Len(FlattenSeq(s)) = off[Len(s)]
    /\ \A k \in 1..Len(s) : \A i \in 1..Len(s[k]) :
        FlattenSeq(s)[off[k - 1] + i] = s[k][i]

-----------------------------------------------------------------------------
(* What FlattenSeq computes *)

\* A nonempty set of numbers has a least one.
LEMMA LeastNumber ==
    ASSUME NEW T \in SUBSET Nat, T # {}
    PROVE  \E n \in T : \A m \in T : n <= m
<1> DEFINE R == OpToRel(<, Nat)
<1>1. IsWellFoundedOn(R, Nat)
  BY NatLessThanWellFounded
<1>2. \A m, n \in Nat : m < n => <<m, n>> \in R
  BY DEF OpToRel
<1> HIDE DEF R
<1>3. PICK n \in T : \A m \in T : ~(<<m, n>> \in R)
  BY <1>1, WFMin
<1>4. ASSUME NEW m \in T PROVE n <= m
  <2>1. m \in Nat /\ n \in Nat /\ ~(<<m, n>> \in R)
    BY <1>3
  <2>2. ~(m < n)
    BY <1>2, <2>1
  <2> QED
    BY <2>1, <2>2
<1> QED
  BY <1>3, <1>4

\* What joining two sequences gives.
LEMMA Joined ==
    ASSUME NEW a \in Cells, NEW b \in Cells
    PROVE  /\ Len(a) \in Nat /\ Len(b) \in Nat
           /\ a \o b \in Cells /\ Len(a \o b) = Len(a) + Len(b)
           /\ \A i \in 1..Len(a) : a[i] \in Nat /\ (a \o b)[i] = a[i]
           /\ \A i \in 1..Len(b) : (a \o b)[Len(a) + i] = b[i]
<1>1. Len(a) \in Nat /\ Len(b) \in Nat
  BY DEF Cells
<1>2. /\ a \o b \in Cells /\ Len(a \o b) = Len(a) + Len(b)
      /\ \A i \in 1..(Len(a) + Len(b)) :
            (a \o b)[i] = IF i <= Len(a) THEN a[i] ELSE b[i - Len(a)]
  BY ConcatProperties DEF Cells
<1>3. \A i \in 1..Len(a) : a[i] \in Nat /\ (a \o b)[i] = a[i]
  BY <1>1, <1>2 DEF Cells
<1>4. \A i \in 1..Len(b) : (a \o b)[Len(a) + i] = b[i]
  <2> TAKE i \in 1..Len(b)
  <2>1. /\ Len(a) + i \in 1..(Len(a) + Len(b)) /\ ~(Len(a) + i <= Len(a))
        /\ Len(a) + i - Len(a) = i
    BY <1>1
  <2> QED
    BY <1>2, <2>1
<1> QED
  BY <1>1, <1>2, <1>3, <1>4

\* One more sequence can be joined.
LEMMA BuildOneMore ==
    ASSUME NEW s \in Seq(Cells), NEW m \in Nat, m + 1 <= Len(s),
           NEW off, NEW g, Built(s, m, off, g)
    PROVE  \E h, f : Built(s, m + 1, h, f)
<1> DEFINE n == m + 1
           h == [k \in 0..n |-> IF k = n THEN off[m] + Len(s[n]) ELSE off[k]]
           f == [k \in 1..n |-> IF k = n THEN IF n = 1 THEN s[n] ELSE g[m] \o s[n]
                                         ELSE g[k]]
<1>0. n \in Nat /\ n = m + 1 /\ n - 1 = m /\ n \in 1..Len(s) /\ m \in 0..m
      /\ n \in 0..n /\ m \in 0..n /\ n \in 1..n /\ m # n
  OBVIOUS
<1> HIDE DEF n
<1> USE <1>0
<1>1. s[n] \in Cells /\ Len(s[n]) \in Nat /\ off[m] \in Nat
  <2>1. s[n] \in Cells
    BY <1>0
  <2>2. Len(s[n]) \in Nat
    BY <2>1 DEF Cells
  <2> QED
    BY <2>1, <2>2 DEF Built
<1>a. h[n] = off[m] + Len(s[n]) /\ h[m] = off[m]
  OBVIOUS
<1>b. f[n] = IF n = 1 THEN s[n] ELSE g[m] \o s[n]
  OBVIOUS
<1>2. h \in [0..n -> Nat] /\ h[0] = 0
  BY <1>1 DEF Built
<1>3. f[n] \in Cells /\ Len(f[n]) = h[n] /\ h[n] = h[m] + Len(s[n])
      /\ \A i \in 1..Len(s[n]) : f[n][h[m] + i] = s[n][i]
  <2>1. CASE m = 0
    BY <1>1, <2>1 DEF Built
  <2>2. CASE m # 0
    <3>1. m \in 1..m
      BY <2>2
    <3>2. g[m] \in Cells /\ Len(g[m]) = off[m]
      BY <3>1 DEF Built
    <3>3. n # 1
      BY <2>2
    <3> DEFINE a == g[m]
               b == s[n]
    <3> HIDE DEF h, f
    <3>4. f[n] = a \o b
      BY <1>b, <3>3, Zenon
    <3>5. a \in Cells /\ b \in Cells /\ Len(a) = off[m]
      BY <1>1, <3>2
    <3>6. h[m] = Len(a) /\ h[n] = Len(a) + Len(b)
      BY <1>a, <3>5
    <3> HIDE DEF a, b
    <3>7. /\ a \o b \in Cells /\ Len(a \o b) = Len(a) + Len(b)
          /\ \A i \in 1..Len(b) : (a \o b)[Len(a) + i] = b[i]
      BY <3>5, Joined
    <3>8. f[n] \in Cells /\ Len(f[n]) = h[n]
          /\ \A i \in 1..Len(b) : f[n][h[m] + i] = b[i]
      BY <3>4, <3>6, <3>7
    <3> QED
      BY <3>6, <3>8 DEF a, b
  <2> QED
    BY <2>1, <2>2
<1>4. \A k \in 1..m : /\ h[k] = off[k] /\ h[k - 1] = off[k - 1] /\ f[k] = g[k]
                      /\ k - 1 \in 0..m /\ off[k] \in Nat /\ off[k - 1] \in Nat
  <2> TAKE k \in 1..m
  <2>1. k \in 0..m /\ k - 1 \in 0..m /\ k \in 0..n /\ k - 1 \in 0..n /\ k \in 1..n
        /\ k # n /\ k - 1 # n
    OBVIOUS
  <2>2. off[k] \in Nat /\ off[k - 1] \in Nat
    BY <2>1 DEF Built
  <2> QED
    BY <2>1, <2>2
<1>5. f \in [1..n -> Cells]
  <2>1. \A k \in 1..n : k = n \/ k \in 1..m
    OBVIOUS
  <2> QED
    BY <1>3, <1>4, <2>1 DEF Built
<1>6. \A k \in 1..n : /\ h[k] = h[k - 1] + Len(s[k])
                      /\ f[k] = IF k = 1 THEN s[k] ELSE f[k - 1] \o s[k]
                      /\ Len(f[k]) = h[k]
  <2> TAKE k \in 1..n
  <2>1. CASE k = n
    <3>1. n = 1 \/ (n # 1 /\ m \in 1..m /\ f[m] = g[m])
      OBVIOUS
    <3>2. f[n] = IF n = 1 THEN s[n] ELSE f[n - 1] \o s[n]
      BY <3>1
    <3> QED
      BY <1>3, <2>1, <3>2
  <2>2. CASE k # n
    <3>1. k \in 1..m /\ (k = 1 \/ (k # 1 /\ k - 1 \in 1..m))
      BY <2>2
    <3>2. k = 1 \/ f[k - 1] = g[k - 1]
      BY <1>4, <3>1
    <3>3. /\ off[k] = off[k - 1] + Len(s[k])
          /\ g[k] = IF k = 1 THEN s[k] ELSE g[k - 1] \o s[k]
          /\ Len(g[k]) = off[k]
      BY <3>1 DEF Built
    <3> HIDE DEF h, f
    <3> QED
      BY <1>4, <3>1, <3>2, <3>3
  <2> QED
    BY <2>1, <2>2
<1>7. ASSUME NEW k \in 1..n, NEW j \in 1..k
      PROVE  h[j] <= h[k] /\ \A i \in 1..Len(s[j]) : f[k][h[j - 1] + i] = s[j][i]
  <2>1. CASE k # n
    <3>1. k \in 1..m /\ j \in 1..m
      BY <2>1
    <3>2. off[j] <= off[k] /\ \A i \in 1..Len(s[j]) : g[k][off[j - 1] + i] = s[j][i]
      BY <3>1 DEF Built
    <3> HIDE DEF h, f
    <3> QED
      BY <1>4, <3>1, <3>2
  <2>2. CASE k = n /\ j = n
    <3>1. h[n] \in Nat
      BY <1>1, <1>2
    <3> HIDE DEF h, f
    <3> QED
      BY <1>3, <2>2, <3>1
  <2>3. CASE k = n /\ j # n
    <3>1. j \in 1..m /\ m \in 1..m /\ n # 1 /\ Len(s[j]) \in Nat
      <4>1. j \in 1..m /\ j \in 1..Len(s)
        BY <1>1, <2>3
      <4>2. s[j] \in Cells
        BY <4>1
      <4> QED
        BY <2>3, <4>1, <4>2 DEF Cells
    <3>2. /\ off[j] <= off[m] /\ off[j] = off[j - 1] + Len(s[j])
          /\ \A i \in 1..Len(s[j]) : g[m][off[j - 1] + i] = s[j][i]
          /\ g[m] \in Cells /\ Len(g[m]) = off[m]
      BY <3>1 DEF Built
    <3>3. f[n] = g[m] \o s[n]
      BY <3>1
    <3>4. \A i \in 1..off[m] : (g[m] \o s[n])[i] = g[m][i]
      <4> DEFINE a == g[m]
                 b == s[n]
      <4>1. a \in Cells /\ b \in Cells /\ Len(a) = off[m]
        BY <1>1, <3>2
      <4> HIDE DEF a, b
      <4>2. \A i \in 1..Len(a) : (a \o b)[i] = a[i]
        BY <4>1, Joined
      <4> QED
        BY <4>1, <4>2 DEF a, b
    <3>5. \A i \in 1..Len(s[j]) : off[j - 1] + i \in 1..off[m]
      <4>1. off[j - 1] \in Nat /\ off[j] \in Nat
        BY <1>4, <3>1
      <4>2. Len(s[j]) \in Nat /\ off[m] \in Nat /\ off[j] <= off[m]
            /\ off[j] = off[j - 1] + Len(s[j])
        BY <1>1, <3>1, <3>2
      <4>3. \A x, y, z, l \in Nat : y = x + l /\ y <= z => \A i \in 1..l : x + i \in 1..z
        OBVIOUS
      <4> QED
        BY <4>1, <4>2, <4>3
    <3>6. h[m] = off[m] /\ h[n] \in Nat
      BY <1>1, <1>2, <1>4, <3>1
    <3> HIDE DEF h, f
    <3>7. h[j] = off[j] /\ h[j - 1] = off[j - 1] /\ off[j] \in Nat
      BY <1>4, <3>1
    <3>8. h[j] <= h[n]
      <4>1. \A x, y, z, l \in Nat : x <= y /\ z = y + l => x <= z
        OBVIOUS
      <4>2. off[j] <= off[m] /\ h[n] = off[m] + Len(s[n])
        BY <1>3, <3>2, <3>6
      <4> QED
        BY <1>1, <3>6, <3>7, <4>1, <4>2
    <3>9. \A i \in 1..Len(s[j]) : f[n][h[j - 1] + i] = s[j][i]
      <4> TAKE i \in 1..Len(s[j])
      <4>1. (g[m] \o s[n])[off[j - 1] + i] = g[m][off[j - 1] + i]
        BY <3>4, <3>5
      <4>2. g[m][off[j - 1] + i] = s[j][i]
        BY <3>2
      <4> QED
        BY <3>3, <3>7, <4>1, <4>2
    <3> QED
      BY <2>3, <3>8, <3>9
  <2> QED
    BY <2>1, <2>2, <2>3
<1>8. Built(s, n, h, f)
  <2> HIDE DEF h, f
  <2> QED
    BY <1>2, <1>5, <1>6, <1>7 DEF Built
<1> QED
  BY <1>8

\* All of it can be joined.
LEMMA AllBuilt ==
    ASSUME NEW s \in Seq(Cells)
    PROVE  \E off, g : Built(s, Len(s), off, g)
<1> DEFINE Bad == {n \in Nat : n <= Len(s) /\ ~ \E off, g : Built(s, n, off, g)}
<1>1. SUFFICES ASSUME Bad # {} PROVE FALSE
  <2>1. Len(s) \in Nat /\ Len(s) <= Len(s)
    OBVIOUS
  <2> QED
    BY <2>1
<1>2. PICK n \in Bad : \A m \in Bad : n <= m
  <2>1. Bad \in SUBSET Nat
    OBVIOUS
  <2> HIDE DEF Bad
  <2> QED
    BY <1>1, <2>1, LeastNumber
<1>3. n # 0
  <2>1. Built(s, 0, [k \in 0..0 |-> 0], [k \in 1..0 |-> <<>>])
    BY DEF Built
  <2> QED
    BY <2>1
<1>4. n \in Nat /\ n - 1 \in Nat /\ n - 1 \notin Bad /\ Len(s) \in Nat /\ n <= Len(s)
  <2>1. n \in Nat /\ n <= Len(s) /\ Len(s) \in Nat
    BY <1>2
  <2>2. n - 1 \in Nat /\ ~(n <= n - 1)
    BY <1>3, <2>1
  <2> HIDE DEF Bad
  <2> QED
    BY <1>2, <2>1, <2>2
<1>5. PICK off, g : Built(s, n - 1, off, g)
  BY <1>4
<1>6. \E h, f : Built(s, n - 1 + 1, h, f)
  BY <1>4, <1>5, BuildOneMore
<1> QED
  BY <1>4, <1>6

\* What FlattenSeq(s) holds, and where.
LEMMA Flattened ==
    ASSUME NEW s \in Seq(Cells)
    PROVE  \E off : Places(s, off)
<1>1. PICK off, g : Built(s, Len(s), off, g)
  BY AllBuilt
<1>2. Len(s) \in Nat
  OBVIOUS
<1>3. CASE Len(s) = 0
  <2>1. FlattenSeq(s) = s
    BY <1>3 DEF FlattenSeq
  <2>2. s \in Cells
    BY <1>3 DEF Cells
  <2> QED
    BY <1>1, <1>3, <2>1, <2>2 DEF Places, Built
<1>4. CASE Len(s) # 0
  <2>1. g = [k \in 1..Len(s) |-> IF k = 1 THEN s[k] ELSE g[k - 1] \o s[k]]
    BY <1>1 DEF Built
  <2>2. ASSUME NEW f, f = [k \in 1..Len(s) |-> IF k = 1 THEN s[k] ELSE f[k - 1] \o s[k]]
        PROVE  f = g
    <3> DEFINE Bad == {k \in Nat : k \in 1..Len(s) /\ f[k] # g[k]}
    <3>1. SUFFICES ASSUME Bad # {} PROVE FALSE
      <4>1. Bad = {} => \A k \in 1..Len(s) : f[k] = g[k]
        BY <1>2
      <4>2. g = [k \in 1..Len(s) |-> g[k]] /\ f = [k \in 1..Len(s) |-> f[k]]
        BY <2>1, <2>2, Zenon
      <4> HIDE DEF Bad
      <4> QED
        BY <4>1, <4>2, Zenon
    <3>2. PICK k \in Bad : \A m \in Bad : k <= m
      <4>1. Bad \in SUBSET Nat
        OBVIOUS
      <4> HIDE DEF Bad
      <4> QED
        BY <3>1, <4>1, LeastNumber
    <3>3. k \in 1..Len(s) /\ f[k] # g[k]
      BY <3>2
    <3>4. /\ f[k] = (IF k = 1 THEN s[k] ELSE f[k - 1] \o s[k])
          /\ g[k] = (IF k = 1 THEN s[k] ELSE g[k - 1] \o s[k])
      BY <2>1, <2>2, <3>3
    <3>5. k # 1 /\ f[k - 1] # g[k - 1]
      BY <3>3, <3>4
    <3>6. k - 1 \in Bad /\ ~(k <= k - 1)
      BY <1>2, <3>3, <3>5
    <3> QED
      BY <3>2, <3>6
  <2>3. FlattenSeq(s) = g[Len(s)]
    BY <1>4, <2>1, <2>2 DEF FlattenSeq
  <2>4. Len(s) \in 1..Len(s)
    BY <1>2, <1>4
  <2> HIDE <2>1, <2>2
  <2>5. \A k \in 0..Len(s) : off[k] <= off[Len(s)]
    <3>1. off[0] <= off[Len(s)]
      BY <1>1, <1>2, <2>4 DEF Built
    <3>2. \A k \in 1..Len(s) : off[k] <= off[Len(s)]
      BY <1>1, <2>4 DEF Built
    <3> QED
      BY <1>2, <3>1, <3>2
  <2>6. \A k \in 1..Len(s) : \A i \in 1..Len(s[k]) : g[Len(s)][off[k - 1] + i] = s[k][i]
    BY <1>1, <2>4 DEF Built
  <2>7. /\ off \in [0..Len(s) -> Nat] /\ off[0] = 0
        /\ \A k \in 1..Len(s) : off[k] = off[k - 1] + Len(s[k])
        /\ g[Len(s)] \in Cells /\ Len(g[Len(s)]) = off[Len(s)]
    BY <1>1, <2>4 DEF Built
  <2>8. Places(s, off)
    BY <2>3, <2>5, <2>6, <2>7 DEF Places
  <2> QED
    BY <2>8
<1> QED
  BY <1>3, <1>4

-----------------------------------------------------------------------------
(* What the client writes *)

\* The cells of each name of a list, and of each extension of a ClientHello.
EncodedNames(names) == [i \in DOMAIN names |-> EncodeName(names[i])]

EncodedExts(exts) == [i \in DOMAIN exts |-> EncodeExtension(exts[i])]

\* What an extension holds.
Body(e) ==
    IF e.kind = 0 THEN Vector(FlattenSeq(EncodedNames(e.names))) ELSE e.body

\* The places of the parts of FlattenSeq(s).
Offsets(s) == CHOOSE off : Places(s, off)

\* The lengths and cells of a ClientHello before its first extension.
Lead(c) == 7 + Len(c.session_id) + Len(c.cipher_suites) + Len(c.compression)

\* Where the extensions stand in it: the k-th at ExtAt(c)[k - 1].
ExtAt(c) ==
    [k \in 0..Len(c.exts) |-> Lead(c) + 1 + Offsets(EncodedExts(c.exts))[k]]

\* What is assumed of a client.
WellFormed(c) ==
    /\ c.session_id \in Cells /\ c.cipher_suites \in Cells /\ c.compression \in Cells
    /\ c.exts \in Seq(Extension)

NameOff(names) == Offsets(EncodedNames(names))

\* The cells that a list of names takes.
NameCount(names) == Len(FlattenSeq(EncodedNames(names)))

\* The entry n of a list stands in h at p; and what begins where n ends.
HasEntry(h, p, n) ==
    /\ h[p] = n.kind /\ h[p + 1] = Len(n.name)
    /\ \A i \in 1..Len(n.name) : h[p + 1 + i] = n.name[i]

Follows(start, n, next) == next = start + 2 + Len(n.name)

\* A cell, and the cells after it.
LEMMA OneAndMore ==
    ASSUME NEW x \in Nat, NEW s \in Cells
    PROVE  /\ Len(s) \in Nat
           /\ <<x>> \o s \in Cells /\ Len(<<x>> \o s) = 1 + Len(s)
           /\ (<<x>> \o s)[1] = x
           /\ \A i \in 1..Len(s) : (<<x>> \o s)[1 + i] = s[i]
<1>1. <<x>> \in Cells /\ Len(<<x>>) = 1 /\ <<x>>[1] = x /\ 1 \in 1..1
  BY DEF Cells
<1> DEFINE a == <<x>>
<1> HIDE DEF a
<1>2. a \in Cells /\ Len(a) = 1 /\ a[1] = x /\ 1 \in 1..1
  BY <1>1 DEF a
<1>3. /\ Len(s) \in Nat /\ a \o s \in Cells /\ Len(a \o s) = Len(a) + Len(s)
      /\ \A i \in 1..Len(a) : (a \o s)[i] = a[i]
      /\ \A i \in 1..Len(s) : (a \o s)[Len(a) + i] = s[i]
  BY <1>2, Joined
<1> QED
  BY <1>2, <1>3 DEF a

\* A vector is its length and its cells.
LEMMA VectorCells ==
    ASSUME NEW s \in Cells
    PROVE  /\ Len(s) \in Nat
           /\ Vector(s) \in Cells /\ Len(Vector(s)) = 1 + Len(s)
           /\ Vector(s)[1] = Len(s)
           /\ \A i \in 1..Len(s) : Vector(s)[1 + i] = s[i]
<1>1. Len(s) \in Nat
  BY DEF Cells
<1> QED
  BY <1>1, OneAndMore DEF Vector

\* A kind and a vector: an entry of a list of names, or an extension.
LEMMA EntryCells ==
    ASSUME NEW x \in Nat, NEW s \in Cells
    PROVE  LET e == <<x>> \o Vector(s) IN
           /\ Len(s) \in Nat
           /\ e \in Cells /\ Len(e) = 2 + Len(s)
           /\ e[1] = x /\ e[2] = Len(s)
           /\ \A i \in 1..Len(s) : e[2 + i] = s[i]
<1> DEFINE v == Vector(s)
           e == <<x>> \o v
<1>1. /\ Len(s) \in Nat /\ v \in Cells /\ Len(v) = 1 + Len(s) /\ v[1] = Len(s)
      /\ \A i \in 1..Len(s) : v[1 + i] = s[i]
  BY VectorCells
<1> HIDE DEF v
<1>2. /\ e \in Cells /\ Len(e) = 1 + Len(v) /\ e[1] = x
      /\ \A i \in 1..Len(v) : e[1 + i] = v[i]
  BY <1>1, OneAndMore
<1> HIDE DEF e
<1>3. e[1 + 1] = v[1]
  BY <1>1, <1>2
<1>4. ASSUME NEW i \in 1..Len(s) PROVE e[2 + i] = s[i]
  <2>1. 1 + i \in 1..Len(v) /\ 1 + (1 + i) = 2 + i
    BY <1>1
  <2> QED
    BY <1>1, <1>2, <2>1
<1>5. Len(e) = 2 + Len(s)
  BY <1>1, <1>2
<1>6. Len(s) \in Nat /\ e \in Cells /\ e[1] = x /\ e[2] = Len(s)
  BY <1>1, <1>2, <1>3
<1> QED
  BY <1>4, <1>5, <1>6 DEF e, v

\* How a name is written.
LEMMA NameCells ==
    ASSUME NEW n \in ServerName
    PROVE  /\ Len(n.name) \in Nat
           /\ EncodeName(n) \in Cells /\ Len(EncodeName(n)) = 2 + Len(n.name)
           /\ EncodeName(n)[1] = n.kind /\ EncodeName(n)[2] = Len(n.name)
           /\ \A i \in 1..Len(n.name) : EncodeName(n)[2 + i] = n.name[i]
<1>1. n.kind \in Nat /\ n.name \in Cells
  BY DEF ServerName, Cells
<1> QED
  BY <1>1, EntryCells DEF EncodeName

\* How a list of names is written.
LEMMA NamesCells ==
    ASSUME NEW names \in Seq(ServerName)
    PROVE  /\ EncodedNames(names) \in Seq(Cells)
           /\ Len(EncodedNames(names)) = Len(names)
           /\ \A i \in 1..Len(names) : EncodedNames(names)[i] = EncodeName(names[i])
           /\ Places(EncodedNames(names), Offsets(EncodedNames(names)))
<1>1. /\ Len(names) \in Nat /\ DOMAIN names = 1..Len(names)
      /\ \A i \in 1..Len(names) : names[i] \in ServerName
  OBVIOUS
<1>2. EncodedNames(names) \in [1..Len(names) -> Cells]
  BY <1>1, NameCells DEF EncodedNames
<1>3. EncodedNames(names) \in Seq(Cells) /\ Len(EncodedNames(names)) = Len(names)
  BY <1>1, <1>2
<1>4. Places(EncodedNames(names), Offsets(EncodedNames(names)))
  BY <1>3, Flattened DEF Offsets
<1> QED
  BY <1>1, <1>3, <1>4 DEF EncodedNames

\* How an extension is written.
LEMMA ExtensionCells ==
    ASSUME NEW e \in Extension
    PROVE  /\ e.kind \in Nat /\ Body(e) \in Cells /\ Len(Body(e)) \in Nat
           /\ EncodeExtension(e) \in Cells
           /\ Len(EncodeExtension(e)) = 2 + Len(Body(e))
           /\ EncodeExtension(e)[1] = e.kind
           /\ EncodeExtension(e)[2] = Len(Body(e))
           /\ \A i \in 1..Len(Body(e)) : EncodeExtension(e)[2 + i] = Body(e)[i]
<1>1. e.kind \in Nat
  BY DEF Extension
<1>2. Body(e) \in Cells
  <2>1. CASE e.kind = 0
    <3>1. e.names \in Seq(ServerName)
      BY <2>1 DEF Extension
    <3>2. FlattenSeq(EncodedNames(e.names)) \in Cells
      BY <3>1, NamesCells DEF Places
    <3> QED
      BY <2>1, <3>2, VectorCells DEF Body
  <2>2. CASE e.kind # 0
    BY <2>2 DEF Extension, Body, Cells
  <2> QED
    BY <2>1, <2>2
<1>3. EncodeExtension(e) = <<e.kind>> \o Vector(Body(e))
  BY DEF EncodeExtension, Body, EncodedNames
<1> QED
  BY <1>1, <1>2, <1>3, EntryCells

\* How all of them are written.
LEMMA ExtsCells ==
    ASSUME NEW exts \in Seq(Extension)
    PROVE  /\ EncodedExts(exts) \in Seq(Cells)
           /\ Len(EncodedExts(exts)) = Len(exts)
           /\ \A i \in 1..Len(exts) : EncodedExts(exts)[i] = EncodeExtension(exts[i])
           /\ Places(EncodedExts(exts), Offsets(EncodedExts(exts)))
<1>1. /\ Len(exts) \in Nat /\ DOMAIN exts = 1..Len(exts)
      /\ \A i \in 1..Len(exts) : exts[i] \in Extension
  OBVIOUS
<1>2. EncodedExts(exts) \in [1..Len(exts) -> Cells]
  BY <1>1, ExtensionCells DEF EncodedExts
<1>3. EncodedExts(exts) \in Seq(Cells) /\ Len(EncodedExts(exts)) = Len(exts)
  BY <1>1, <1>2
<1>4. Places(EncodedExts(exts), Offsets(EncodedExts(exts)))
  BY <1>3, Flattened DEF Offsets
<1> QED
  BY <1>1, <1>3, <1>4 DEF EncodedExts

\* How a ClientHello is written.
LEMMA HelloCells ==
    ASSUME NEW c, WellFormed(c)
    PROVE  LET X == FlattenSeq(EncodedExts(c.exts))
               h == EncodeHello(c)
               s == Len(c.session_id)
               t == Len(c.cipher_suites) IN
           /\ X \in Cells /\ Len(X) \in Nat
           /\ s \in Nat /\ t \in Nat /\ Len(c.compression) \in Nat
           /\ Lead(c) \in Nat /\ Lead(c) = 7 + s + t + Len(c.compression)
           /\ h \in Cells /\ Len(h) = Lead(c) + Len(X)
           /\ h[1] = 1 /\ h[2] = Lead(c) - 2 + Len(X)
           /\ h[4] = s /\ h[5 + s] = t /\ h[6 + s + t] = Len(c.compression)
           /\ h[Lead(c)] = Len(X)
           /\ \A i \in 1..Len(X) : h[Lead(c) + i] = X[i]
<1> DEFINE X == FlattenSeq(EncodedExts(c.exts))
           S == Vector(c.session_id)
           T == Vector(c.cipher_suites)
           U == Vector(c.compression)
           V == Vector(X)
           a1 == <<0>> \o S
           a2 == a1 \o T
           a3 == a2 \o U
           B == a3 \o V
           h == <<1>> \o Vector(B)
           s == Len(c.session_id)
           t == Len(c.cipher_suites)
           u == Len(c.compression)
           x == Len(X)
<1>1. /\ c.session_id \in Cells /\ c.cipher_suites \in Cells /\ c.compression \in Cells
      /\ c.exts \in Seq(Extension)
  BY DEF WellFormed
<1>2. X \in Cells
  BY <1>1, ExtsCells DEF Places
<1>3. h = EncodeHello(c)
  BY DEF EncodeHello, EncodedExts
<1> HIDE DEF X
<1>4. /\ s \in Nat /\ a1 \in Cells /\ Len(a1) = 2 + s /\ a1[2] = s
  BY <1>1, EntryCells
<1>5. /\ t \in Nat /\ T \in Cells /\ Len(T) = 1 + t /\ T[1] = t
  BY <1>1, VectorCells
<1>6. /\ u \in Nat /\ U \in Cells /\ Len(U) = 1 + u /\ U[1] = u
  BY <1>1, VectorCells
<1>7. /\ x \in Nat /\ V \in Cells /\ Len(V) = 1 + x /\ V[1] = x
      /\ \A i \in 1..x : V[1 + i] = X[i]
  BY <1>2, VectorCells
<1> HIDE DEF S, T, U, V, a1, a2, a3, B, h, s, t, u, x
<1>8. /\ a2 \in Cells /\ Len(a2) = 3 + s + t /\ a2[2] = s /\ a2[3 + s] = t
  <2>1. /\ a2 \in Cells /\ Len(a2) = Len(a1) + Len(T)
        /\ \A i \in 1..Len(a1) : a2[i] = a1[i]
        /\ \A i \in 1..Len(T) : a2[Len(a1) + i] = T[i]
    BY <1>4, <1>5, Joined DEF a2
  <2>2. 2 \in 1..Len(a1) /\ 1 \in 1..Len(T) /\ Len(a1) + 1 = 3 + s
    BY <1>4, <1>5
  <2>3. a2[2] = s /\ a2[3 + s] = t
    BY <1>4, <1>5, <2>1, <2>2
  <2> QED
    BY <1>4, <1>5, <2>1, <2>3
<1>9. /\ a3 \in Cells /\ Len(a3) = 4 + s + t + u /\ a3[2] = s /\ a3[3 + s] = t
      /\ a3[4 + s + t] = u
  <2>1. /\ a3 \in Cells /\ Len(a3) = Len(a2) + Len(U)
        /\ \A i \in 1..Len(a2) : a3[i] = a2[i]
        /\ \A i \in 1..Len(U) : a3[Len(a2) + i] = U[i]
    BY <1>6, <1>8, Joined DEF a3
  <2>2. /\ 2 \in 1..Len(a2) /\ 3 + s \in 1..Len(a2) /\ 1 \in 1..Len(U)
        /\ Len(a2) + 1 = 4 + s + t
    BY <1>4, <1>5, <1>6, <1>8
  <2>3. a3[2] = s /\ a3[3 + s] = t /\ a3[4 + s + t] = u
    BY <1>6, <1>8, <2>1, <2>2
  <2>4. Len(a3) = 4 + s + t + u
    BY <1>4, <1>5, <1>6, <1>8, <2>1
  <2> QED
    BY <2>1, <2>3, <2>4
<1>10. /\ B \in Cells /\ Len(B) = 5 + s + t + u + x /\ B[2] = s /\ B[3 + s] = t
       /\ B[4 + s + t] = u /\ B[5 + s + t + u] = x
       /\ \A i \in 1..x : B[5 + s + t + u + i] = X[i]
  <2>1. /\ B \in Cells /\ Len(B) = Len(a3) + Len(V)
        /\ \A i \in 1..Len(a3) : B[i] = a3[i]
        /\ \A i \in 1..Len(V) : B[Len(a3) + i] = V[i]
    BY <1>7, <1>9, Joined DEF B
  <2>2. /\ 2 \in 1..Len(a3) /\ 3 + s \in 1..Len(a3) /\ 4 + s + t \in 1..Len(a3)
        /\ 1 \in 1..Len(V) /\ Len(a3) + 1 = 5 + s + t + u
    BY <1>4, <1>5, <1>6, <1>7, <1>9
  <2>3. B[2] = s /\ B[3 + s] = t /\ B[4 + s + t] = u /\ B[5 + s + t + u] = x
    BY <1>7, <1>9, <2>1, <2>2
  <2>4. ASSUME NEW i \in 1..x PROVE B[5 + s + t + u + i] = X[i]
    <3>1. 1 + i \in 1..Len(V) /\ Len(a3) + (1 + i) = 5 + s + t + u + i
      BY <1>4, <1>5, <1>6, <1>7, <1>9
    <3> QED
      BY <1>7, <2>1, <3>1
  <2>5. Len(B) = 5 + s + t + u + x
    BY <1>4, <1>5, <1>6, <1>7, <1>9, <2>1
  <2> QED
    BY <2>1, <2>3, <2>4, <2>5
<1>11. /\ h \in Cells /\ Len(h) = 2 + Len(B) /\ h[1] = 1 /\ h[2] = Len(B)
       /\ \A i \in 1..Len(B) : h[2 + i] = B[i]
  BY <1>10, EntryCells DEF h
<1> DEFINE l == 7 + s + t + u
<1>12. l \in Nat /\ Len(h) = l + x /\ h[2] = l - 2 + x
  BY <1>4, <1>5, <1>6, <1>7, <1>10, <1>11
<1>13. h[4] = s /\ h[5 + s] = t /\ h[6 + s + t] = u /\ h[l] = x
  <2>1. /\ 2 \in 1..Len(B) /\ 3 + s \in 1..Len(B) /\ 4 + s + t \in 1..Len(B)
        /\ 5 + s + t + u \in 1..Len(B)
    BY <1>4, <1>5, <1>6, <1>7, <1>10
  <2>2. /\ 2 + 2 = 4 /\ 2 + (3 + s) = 5 + s /\ 2 + (4 + s + t) = 6 + s + t
        /\ 2 + (5 + s + t + u) = l
    BY <1>4, <1>5, <1>6
  <2>3. /\ h[2 + 2] = s /\ h[2 + (3 + s)] = t /\ h[2 + (4 + s + t)] = u
        /\ h[2 + (5 + s + t + u)] = x
    BY <1>10, <1>11, <2>1
  <2> QED
    BY <2>2, <2>3
<1>14. ASSUME NEW i \in 1..x PROVE h[l + i] = X[i]
  <2>1. /\ 5 + s + t + u + i \in 1..Len(B) /\ 2 + (5 + s + t + u + i) = l + i
    BY <1>4, <1>5, <1>6, <1>7, <1>10
  <2> QED
    BY <1>10, <1>11, <2>1
<1>15. Lead(c) = l
  BY DEF Lead, s, t, u
<1>16. EncodeHello(c) = h /\ X = FlattenSeq(EncodedExts(c.exts))
  BY <1>3 DEF X
<1> HIDE DEF l
<1> QED
  <2>1. Lead(c) = 7 + s + t + u
    BY <1>15 DEF l
  <2> QED
    BY <1>2, <1>4, <1>5, <1>6, <1>7, <1>11, <1>12, <1>13, <1>14, <1>15, <1>16, <2>1
       DEF s, t, u, x

\* The places of the extensions of a ClientHello.
LEMMA ExtAtType ==
    ASSUME NEW c, WellFormed(c)
    PROVE  /\ c.exts \in Seq(Extension) /\ Len(c.exts) \in 0..Len(c.exts)
           /\ ExtAt(c) \in [0..Len(c.exts) -> Nat] /\ ExtAt(c)[0] = Lead(c) + 1
           /\ \A k \in 0..Len(c.exts) : ExtAt(c)[k] <= ExtAt(c)[Len(c.exts)]
           /\ ExtAt(c)[Len(c.exts)] = Len(EncodeHello(c)) + 1
           /\ EncodeHello(c) \in Cells /\ Len(EncodeHello(c)) \in Nat
           /\ Len(EncodeHello(c)) >= 7
<1> DEFINE n == Len(c.exts)
           off == Offsets(EncodedExts(c.exts))
           x == Len(FlattenSeq(EncodedExts(c.exts)))
           l == Lead(c)
<1>1. c.exts \in Seq(Extension)
  BY DEF WellFormed
<1>2. Places(EncodedExts(c.exts), off) /\ Len(EncodedExts(c.exts)) = n
  BY <1>1, ExtsCells
<1>3. /\ EncodeHello(c) \in Cells /\ Len(EncodeHello(c)) = l + x /\ l \in Nat /\ x \in Nat
      /\ l >= 7
  <2>1. /\ Len(c.session_id) \in Nat /\ Len(c.cipher_suites) \in Nat
        /\ Len(c.compression) \in Nat
        /\ l = 7 + Len(c.session_id) + Len(c.cipher_suites) + Len(c.compression)
    BY HelloCells
  <2>2. l >= 7
    <3>1. \A i, j, k \in Nat : 7 + i + j + k >= 7
      OBVIOUS
    <3> HIDE DEF l
    <3> QED
      BY <2>1, <3>1
  <2> QED
    BY <2>2, HelloCells
<1>4. /\ off \in [0..n -> Nat] /\ off[0] = 0 /\ x = off[n]
      /\ \A k \in 0..n : off[k] <= off[n]
  BY <1>2 DEF Places
<1>5. n \in Nat /\ n \in 0..n /\ 0 \in 0..n
  BY <1>1
<1>6. ExtAt(c) = [k \in 0..n |-> l + 1 + off[k]]
  BY DEF ExtAt
<1> HIDE DEF off, x, l, n
<1>7. /\ ExtAt(c) \in [0..n -> Nat] /\ ExtAt(c)[0] = l + 1
      /\ ExtAt(c)[n] = l + x + 1
      /\ \A k \in 0..n : ExtAt(c)[k] <= ExtAt(c)[n]
  BY <1>3, <1>4, <1>5, <1>6
<1>8. l + x \in Nat /\ l + x >= 7
  BY <1>3
<1> QED
  BY <1>1, <1>3, <1>5, <1>7, <1>8 DEF n, l

\* Where the k-th extension stands in a ClientHello.
LEMMA ExtensionAt ==
    ASSUME NEW c, WellFormed(c), NEW k \in 1..Len(c.exts)
    PROVE  LET h == EncodeHello(c)
               e == c.exts[k]
               p == ExtAt(c)[k - 1] IN
           /\ e \in Extension /\ e.kind \in Nat
           /\ p \in Nat /\ p # 0 /\ ExtAt(c)[k] \in Nat /\ Len(Body(e)) \in Nat
           /\ ExtAt(c)[k] = p + 2 + Len(Body(e))
           /\ h[p] = e.kind /\ h[p + 1] = Len(Body(e))
           /\ \A i \in 1..Len(Body(e)) : h[p + 1 + i] = Body(e)[i]
<1> DEFINE h == EncodeHello(c)
           exts == c.exts
           off == Offsets(EncodedExts(exts))
           e == exts[k]
           w == EncodeExtension(e)
           X == FlattenSeq(EncodedExts(exts))
           l == Len(Body(e))
           a == Lead(c)
<1>0. exts \in Seq(Extension)
  BY DEF WellFormed
<1>1. e \in Extension
  BY <1>0
<1>2. /\ e.kind \in Nat /\ l \in Nat /\ Len(w) = 2 + l /\ w[1] = e.kind /\ w[2] = l
      /\ \A i \in 1..l : w[2 + i] = Body(e)[i]
  BY <1>1, ExtensionCells
<1>3. k - 1 \in 0..Len(exts) /\ k \in 0..Len(exts) /\ Len(exts) \in 0..Len(exts)
  BY <1>0
<1>4. Places(EncodedExts(exts), off) /\ Len(EncodedExts(exts)) = Len(exts)
      /\ EncodedExts(exts)[k] = w
  BY <1>0, ExtsCells
<1>5. /\ off[k] = off[k - 1] + Len(w) /\ off[k] <= off[Len(exts)] /\ Len(X) = off[Len(exts)]
      /\ \A i \in 1..Len(w) : X[off[k - 1] + i] = w[i]
      /\ off \in [0..Len(exts) -> Nat]
  BY <1>3, <1>4 DEF Places
<1>6. off[k - 1] \in Nat /\ off[k] \in Nat /\ off[Len(exts)] \in Nat
  BY <1>3, <1>5
<1>7. a \in Nat /\ \A i \in 1..Len(X) : h[a + i] = X[i]
  BY HelloCells
<1> DEFINE o == off[k - 1]
           n == off[Len(exts)]
           m == off[k]
<1>8. /\ o \in Nat /\ n \in Nat /\ m \in Nat /\ m = o + Len(w) /\ m <= n /\ Len(X) = n
      /\ \A i \in 1..Len(w) : X[o + i] = w[i]
  BY <1>5, <1>6
<1>p. ExtAt(c)[k - 1] = a + 1 + o /\ ExtAt(c)[k] = a + 1 + m
  BY <1>3 DEF ExtAt
<1> HIDE DEF w, X, l, o, n, m, h, off, a
<1>9. ASSUME NEW i \in 1..Len(w) PROVE h[a + o + i] = w[i]
  <2>1. o + i \in 1..Len(X) /\ a + (o + i) = a + o + i
    BY <1>2, <1>7, <1>8
  <2> QED
    BY <1>7, <1>8, <2>1
<1> DEFINE p == a + 1 + o
<1>10. h[p] = e.kind /\ h[p + 1] = l
  <2>1. 1 \in 1..Len(w) /\ 2 \in 1..Len(w) /\ a + o + 1 = p /\ a + o + 2 = p + 1
    BY <1>2, <1>7, <1>8
  <2> QED
    BY <1>2, <1>9, <2>1
<1>11. ASSUME NEW i \in 1..l PROVE h[p + 1 + i] = Body(e)[i]
  <2>1. 2 + i \in 1..Len(w) /\ a + o + (2 + i) = p + 1 + i
    BY <1>2, <1>7, <1>8
  <2> QED
    BY <1>2, <1>9, <2>1
<1>12. p \in Nat /\ p # 0 /\ a + 1 + m = p + 2 + l /\ a + 1 + m \in Nat
  BY <1>2, <1>7, <1>8
<1> HIDE DEF p
<1>13. ExtAt(c)[k - 1] = p /\ ExtAt(c)[k] = p + 2 + l /\ ExtAt(c)[k] \in Nat
  BY <1>p, <1>12 DEF p
<1> QED
  BY <1>1, <1>2, <1>10, <1>11, <1>12, <1>13 DEF l, h

\* Where the list of names stands in a ClientHello.
LEMMA ListAt ==
    ASSUME NEW c, WellFormed(c), NEW k \in 1..Len(c.exts), c.exts[k].kind = 0
    PROVE  LET h == EncodeHello(c)
               names == c.exts[k].names
               b == ExtAt(c)[k - 1] + 2 IN
           /\ names \in Seq(ServerName)
           /\ NameCount(names) \in Nat
           /\ Len(Body(c.exts[k])) = 1 + NameCount(names)
           /\ h[b] = NameCount(names)
           /\ \A i \in 1..NameCount(names) :
                h[b + i] = FlattenSeq(EncodedNames(names))[i]
<1> DEFINE h == EncodeHello(c)
           e == c.exts[k]
           names == e.names
           p == ExtAt(c)[k - 1]
           F == FlattenSeq(EncodedNames(names))
           l == Len(Body(e))
<1>1. /\ e \in Extension /\ p \in Nat /\ l \in Nat
      /\ \A i \in 1..l : h[p + 1 + i] = Body(e)[i]
  <2>1. e \in Extension /\ p \in Nat /\ l \in Nat
    BY ExtensionAt
  <2>2. \A i \in 1..l : h[p + 1 + i] = Body(e)[i]
    BY ExtensionAt
  <2> QED
    BY <2>1, <2>2
<1>2. names \in Seq(ServerName)
  BY <1>1 DEF Extension
<1>3. F \in Cells
  BY <1>2, NamesCells DEF Places
<1>4. Body(e) = Vector(F)
  BY DEF Body
<1> HIDE DEF p, e, F, l
<1>5. /\ Len(F) \in Nat /\ Len(Vector(F)) = 1 + Len(F) /\ Vector(F)[1] = Len(F)
      /\ \A i \in 1..Len(F) : Vector(F)[1 + i] = F[i]
  BY <1>3, VectorCells
<1>6. l = 1 + Len(F)
  BY <1>4, <1>5 DEF l
<1>7. h[p + 2] = Len(F)
  <2>1. 1 \in 1..l /\ p + 1 + 1 = p + 2
    BY <1>1, <1>5, <1>6
  <2> QED
    BY <1>1, <1>4, <1>5, <2>1
<1>8. ASSUME NEW i \in 1..Len(F) PROVE h[p + 2 + i] = F[i]
  <2>1. 1 + i \in 1..l /\ p + 1 + (1 + i) = p + 2 + i
    BY <1>1, <1>5, <1>6
  <2> QED
    BY <1>1, <1>4, <1>5, <2>1
<1> QED
  BY <1>2, <1>5, <1>6, <1>7, <1>8 DEF p, e, F, l, NameCount

\* The offsets of the names of a list.
LEMMA NameOffType ==
    ASSUME NEW names \in Seq(ServerName)
    PROVE  /\ NameOff(names) \in [0..Len(names) -> Nat] /\ NameOff(names)[0] = 0
           /\ NameOff(names)[Len(names)] = NameCount(names)
           /\ \A q \in 0..Len(names) : NameOff(names)[q] <= NameCount(names)
<1>1. Places(EncodedNames(names), NameOff(names)) /\ Len(EncodedNames(names)) = Len(names)
  BY NamesCells DEF NameOff
<1> QED
  BY <1>1 DEF Places, NameCount

\* Where the q-th name of that list stands in a ClientHello.
LEMMA NameAt ==
    ASSUME NEW c, WellFormed(c), NEW k \in 1..Len(c.exts), c.exts[k].kind = 0,
           NEW q \in 1..Len(c.exts[k].names)
    PROVE  LET h == EncodeHello(c)
               n == c.exts[k].names[q]
               off == NameOff(c.exts[k].names)
               p == ExtAt(c)[k - 1] + 2 + 1 + off[q - 1] IN
           /\ n \in ServerName /\ Len(n.name) \in Nat
           /\ off[q - 1] \in Nat /\ off[q] \in Nat /\ Follows(off[q - 1], n, off[q])
           /\ HasEntry(h, p, n)
<1> DEFINE h == EncodeHello(c)
           names == c.exts[k].names
           n == names[q]
           off == NameOff(names)
           w == EncodeName(n)
           l == Len(n.name)
           F == FlattenSeq(EncodedNames(names))
           b == ExtAt(c)[k - 1] + 2
           o == off[q - 1]
           m == off[q]
<1>1. /\ names \in Seq(ServerName) /\ \A i \in 1..Len(F) : h[b + i] = F[i]
  <2>1. names \in Seq(ServerName)
    BY ListAt
  <2>2. \A i \in 1..NameCount(names) : h[b + i] = F[i]
    BY ListAt
  <2> QED
    BY <2>1, <2>2, Zenon DEF NameCount
<1>2. ExtAt(c)[k - 1] \in Nat
  BY ExtensionAt
<1>3. b \in Nat
  BY <1>2
<1>4. n \in ServerName
  BY <1>1
<1>5. /\ l \in Nat /\ Len(w) = 2 + l /\ w[1] = n.kind /\ w[2] = l
      /\ \A i \in 1..l : w[2 + i] = n.name[i]
  BY <1>4, NameCells
<1>6. Places(EncodedNames(names), off) /\ Len(EncodedNames(names)) = Len(names)
      /\ EncodedNames(names)[q] = w
  BY <1>1, NamesCells DEF NameOff
<1>7. q - 1 \in 0..Len(names) /\ q \in 0..Len(names) /\ Len(names) \in 0..Len(names)
  BY <1>1
<1>8. /\ m = o + Len(w) /\ m <= off[Len(names)] /\ Len(F) = off[Len(names)]
      /\ \A i \in 1..Len(w) : F[o + i] = w[i]
      /\ off \in [0..Len(names) -> Nat]
  <2> DEFINE s == EncodedNames(names)
  <2>1. Places(s, off) /\ Len(s) = Len(names) /\ s[q] = w
    BY <1>6
  <2>2. F = FlattenSeq(s)
    OBVIOUS
  <2>3. o = off[q - 1] /\ m = off[q]
    OBVIOUS
  <2> HIDE DEF s, off, w, F, o, m
  <2> QED
    BY <1>7, <2>1, <2>2, <2>3 DEF Places
<1>9. o \in Nat /\ m \in Nat /\ off[Len(names)] \in Nat
  BY <1>7, <1>8
<1> HIDE DEF h, names, off, n, w, l, F, b, o, m
<1>10. ASSUME NEW i \in 1..Len(w) PROVE h[b + o + i] = w[i]
  <2>1. o + i \in 1..Len(F) /\ b + (o + i) = b + o + i
    BY <1>3, <1>5, <1>8, <1>9
  <2> QED
    BY <1>1, <1>8, <2>1
<1>11. h[b + 1 + o] = n.kind /\ h[b + 1 + o + 1] = l
  <2>1. 1 \in 1..Len(w) /\ 2 \in 1..Len(w) /\ b + o + 1 = b + 1 + o /\ b + o + 2 = b + 1 + o + 1
    BY <1>3, <1>5, <1>9
  <2> QED
    BY <1>5, <1>10, <2>1
<1>12. ASSUME NEW i \in 1..l PROVE h[b + 1 + o + 1 + i] = n.name[i]
  <2>1. 2 + i \in 1..Len(w) /\ b + o + (2 + i) = b + 1 + o + 1 + i
    BY <1>3, <1>5, <1>9
  <2> QED
    BY <1>5, <1>10, <2>1
<1>13. m = o + 2 + l
  BY <1>5, <1>8, <1>9
<1> QED
  <2>1. HasEntry(h, b + 1 + o, n) /\ Follows(o, n, m)
    BY <1>11, <1>12, <1>13 DEF HasEntry, Follows, l
  <2> QED
    BY <1>4, <1>5, <1>9, <2>1, Zenon DEF h, names, off, n, l, b, o, m

-----------------------------------------------------------------------------
(* Reassembly *)

Results == {"some", "none", "extensions", "names", "named"}

FrameType ==
    /\ count \in 0..MaxFrames
    /\ seen \subseteq Frame /\ pieces \subseteq seen
    /\ crypto \in Seq(Nat)

\* What has been joined is in hand to its last byte.
JoinedInv == \A p \in seen \ pieces : p.offset + p.len <= Len(crypto)

\* What a result leaves out lies beyond a hole.
HoleInv == at \in Results => \A p \in pieces : p.offset > Len(crypto)

\* Every byte that is joined came in a frame.
CoverInv ==
    \A i \in 0..(Len(crypto) - 1) :
        \E p \in seen : p.offset <= i /\ i < p.offset + p.len

\* Before the walk there are no frames, and nothing is joined during it.
EarlyInv ==
    /\ at \in {"header", "open"} => seen = {}
    /\ at \in {"header", "open", "walk"} => crypto = <<>>
    /\ at = "some" => crypto # <<>>

FrameInv ==
    FrameType /\ InPlace /\ JoinedInv /\ HoleInv /\ CoverInv /\ EarlyInv

\* A step of reassemble_crypto.
FrameStep ==
    \/ \E f \in Cuts : ReadCrypto(f.offset, f.len)
    \/ SkipFrame \/ Truncated \/ EndWalk
    \/ \E p \in pieces : Join(p)
    \/ Finish

\* The numbers of a frame.
LEMMA FrameNumbers ==
    ASSUME FrameType
    PROVE  /\ Len(crypto) \in Nat
           /\ \A p \in seen : p \in Frame /\ p.offset \in Nat /\ p.len \in Nat
<1> QED
  BY FramesAssumption DEF FrameType, Frame

\* Joining a frame that does not lie beyond a hole brings the next positions of
\* the stream, up to the end of that frame.
LEMMA JoinExtends ==
    ASSUME crypto \in Seq(Nat), InPlace, NEW p \in Frame, p.offset <= Len(crypto)
    PROVE  LET joined == crypto \o Fresh(p) IN
            /\ joined \in Seq(Nat)
            /\ Len(joined) >= Len(crypto) /\ Len(joined) >= p.offset + p.len
            /\ Len(joined) \in {Len(crypto), p.offset + p.len}
            /\ \A i \in 1..Len(joined) : joined[i] = i - 1
<1> DEFINE skip == Len(crypto) - p.offset
           joined == crypto \o Fresh(p)
<1>1. p.offset \in Nat /\ p.len \in Nat /\ Len(crypto) \in Nat /\ skip \in Nat
  BY FramesAssumption DEF Frame
<1>2. \A i \in 1..p.len : Data(p)[i] = p.offset + i - 1
  BY DEF Data
<1>3. CASE skip <= p.len
  <2>1. Fresh(p) = SubSeq(Data(p), skip + 1, p.len)
    BY <1>3 DEF Fresh
  <2>2. \A i \in (skip + 1)..p.len : Data(p)[i] \in Nat
    BY <1>1, <1>2
  <2>3. /\ Fresh(p) \in Seq(Nat) /\ Len(Fresh(p)) = p.len - skip
        /\ \A i \in 1..(p.len - skip) : Fresh(p)[i] = Data(p)[skip + i]
    <3> DEFINE m == skip + 1
               n == p.len
    <3>1. m \in Int /\ n \in Int /\ n - m + 1 = p.len - skip
      BY <1>1
    <3>2. /\ SubSeq(Data(p), m, n) \in Seq(Nat)
          /\ Len(SubSeq(Data(p), m, n)) = IF m <= n THEN n - m + 1 ELSE 0
          /\ \A i \in 1..(n - m + 1) : SubSeq(Data(p), m, n)[i] = Data(p)[m + i - 1]
      <4>1. \A i \in m..n : Data(p)[i] \in Nat
        BY <2>2
      <4> HIDE DEF m, n
      <4> QED
        BY <3>1, <4>1, SubSeqProperties
    <3>3. Len(Fresh(p)) = p.len - skip
      BY <1>1, <1>3, <2>1, <3>2
    <3>4. \A i \in 1..(p.len - skip) : m + i - 1 = skip + i
      BY <1>1
    <3> QED
      BY <2>1, <3>1, <3>2, <3>3, <3>4
  <2>4. \A i \in 1..(p.len - skip) : Fresh(p)[i] = Len(crypto) + i - 1
    <3> TAKE i \in 1..(p.len - skip)
    <3>1. skip + i \in 1..p.len
      BY <1>1, <1>3
    <3>2. Fresh(p)[i] = p.offset + (skip + i) - 1
      BY <1>2, <2>3, <3>1
    <3> QED
      BY <1>1, <3>1, <3>2
  <2>5. /\ joined \in Seq(Nat) /\ Len(joined) = Len(crypto) + Len(Fresh(p))
        /\ \A i \in 1..(Len(crypto) + Len(Fresh(p))) :
               joined[i] = IF i <= Len(crypto) THEN crypto[i]
                                               ELSE Fresh(p)[i - Len(crypto)]
    BY <2>3, ConcatProperties
  <2>6. \A i \in 1..Len(joined) : joined[i] = i - 1
    BY <1>1, <1>3, <2>3, <2>4, <2>5 DEF InPlace
  <2>7. /\ Len(joined) >= Len(crypto) /\ Len(joined) >= p.offset + p.len
        /\ Len(joined) \in {Len(crypto), p.offset + p.len}
    <3> DEFINE n == Len(joined)
    <3>1. n = Len(crypto) + (p.len - (Len(crypto) - p.offset))
      BY <2>3, <2>5
    <3>2. p.offset + p.len >= Len(crypto) /\ n = p.offset + p.len
      BY <1>1, <1>3, <3>1
    <3> HIDE DEF n
    <3>3. n >= Len(crypto) /\ n >= p.offset + p.len /\ n \in {Len(crypto), p.offset + p.len}
      BY <1>1, <3>2
    <3> QED
      BY <3>3 DEF n
  <2> QED
    BY <2>5, <2>6, <2>7
<1>4. CASE ~(skip <= p.len)
  <2>1. Fresh(p) = <<>>
    BY <1>4 DEF Fresh
  <2>2. joined = crypto
    BY <2>1, ConcatEmptySeq
  <2> QED
    BY <1>1, <1>4, <2>2 DEF InPlace
<1> QED
  BY <1>3, <1>4

\* Reading a frame keeps the invariant.
LEMMA ReadKeeps ==
    ASSUME FrameInv, NEW f \in Cuts, ReadCrypto(f.offset, f.len) PROVE FrameInv'
<1> USE FramesAssumption
<1>1. count' \in 1..MaxFrames /\ f.offset \in Nat /\ f.len \in Nat
  BY DEF ReadCrypto, FrameInv, FrameType
<1>2. FrameType' /\ JoinedInv'
  BY <1>1 DEF ReadCrypto, FrameInv, FrameType, Frame, JoinedInv
<1>3. InPlace' /\ HoleInv' /\ EarlyInv'
  BY DEF ReadCrypto, FrameInv, InPlace, HoleInv, EarlyInv, Results
<1>4. CoverInv'
  BY DEF ReadCrypto, FrameInv, CoverInv
<1> QED
  BY <1>2, <1>3, <1>4 DEF FrameInv

\* So does joining one.
LEMMA JoinKeeps ==
    ASSUME FrameInv, NEW p \in pieces, Join(p) PROVE FrameInv'
<1>1. /\ crypto' \in Seq(Nat)
      /\ Len(crypto') >= Len(crypto) /\ Len(crypto') >= p.offset + p.len
      /\ Len(crypto') \in {Len(crypto), p.offset + p.len}
      /\ \A i \in 1..Len(crypto') : crypto'[i] = i - 1
  BY JoinExtends DEF Join, FrameInv, FrameType
<1>2. /\ Len(crypto) \in Nat /\ p \in seen
      /\ \A q \in seen : q.offset \in Nat /\ q.len \in Nat
  BY FrameNumbers DEF FrameInv, FrameType
<1>3. FrameType' /\ InPlace' /\ HoleInv' /\ EarlyInv'
  BY <1>1 DEF Join, FrameInv, FrameType, InPlace, HoleInv, EarlyInv, Results
<1>4. JoinedInv'
  BY <1>1, <1>2 DEF Join, FrameInv, FrameType, JoinedInv
<1>5. CoverInv'
  <2> SUFFICES ASSUME NEW i \in 0..(Len(crypto') - 1)
               PROVE  \E q \in seen : q.offset <= i /\ i < q.offset + q.len
    BY DEF CoverInv, Join
  <2>1. CASE i < Len(crypto)
    BY <1>2, <2>1 DEF FrameInv, CoverInv
  <2>2. CASE ~(i < Len(crypto))
    <3>1. p.offset <= Len(crypto)
      BY DEF Join
    <3>2. p.offset <= i /\ i < p.offset + p.len
      BY <1>1, <1>2, <2>2, <3>1
    <3> QED
      BY <1>2, <3>2
  <2> QED
    BY <2>1, <2>2
<1> QED
  BY <1>3, <1>4, <1>5 DEF FrameInv

\* Where only at changes, to a result that a hole or the start of it justifies.
LEMMA FramesStay ==
    ASSUME FrameInv, UNCHANGED <<count, pieces, crypto, seen>>,
           at' \in Results => \A p \in pieces : p.offset > Len(crypto),
           EarlyInv'
    PROVE  FrameInv'
<1> QED
  BY DEF FrameInv, FrameType, InPlace, JoinedInv, HoleInv, CoverInv

\* Every step of the walk and of the joining keeps the invariant.
LEMMA FramesKept == ASSUME FrameInv, FrameStep PROVE FrameInv'
<1>1. CASE SkipFrame
  BY <1>1 DEF SkipFrame, vars, FrameInv, FrameType, InPlace, JoinedInv, HoleInv,
              CoverInv, EarlyInv
<1>2. ASSUME NEW f \in Cuts, ReadCrypto(f.offset, f.len) PROVE FrameInv'
  BY <1>2, ReadKeeps
<1>3. CASE Truncated \/ EndWalk
  <2>1. EarlyInv'
    BY <1>3 DEF Truncated, EndWalk, FrameInv, EarlyInv
  <2> QED
    BY <1>3, <2>1, FramesStay DEF Truncated, EndWalk, Results
<1>4. ASSUME NEW p \in pieces, Join(p) PROVE FrameInv'
  BY <1>4, JoinKeeps
<1>5. CASE Finish
  <2>1. \A q \in pieces : q.offset \in Nat
    BY FrameNumbers DEF FrameInv, FrameType
  <2>2. \A q \in pieces : q.offset > Len(crypto)
    BY <1>5, <2>1, FrameNumbers DEF Finish, Foremost, Before, FrameInv
  <2>3. EarlyInv'
    BY <1>5 DEF Finish, EarlyInv
  <2> QED
    BY <1>5, <2>2, <2>3, FramesStay DEF Finish
<1> QED
  BY <1>1, <1>2, <1>3, <1>4, <1>5 DEF FrameStep

\* The start of the stream that is joined ends where no frame goes on.
LEMMA ResultEnds ==
    ASSUME FrameInv, at \in Results, NEW p \in seen
    PROVE  ~(p.offset <= Len(crypto) /\ Len(crypto) < p.offset + p.len)
<1>1. p.offset \in Nat /\ p.len \in Nat /\ Len(crypto) \in Nat
  BY FrameNumbers DEF FrameInv
<1> QED
  BY <1>1 DEF FrameInv, JoinedInv, HoleInv

\* reassemble_crypto by itself keeps it.
LEMMA ReassemblyInv == Spec => []FrameInv
<1>1. Init => FrameInv
  BY FramesAssumption DEF Init, FrameInv, FrameType, InPlace, JoinedInv, HoleInv, CoverInv,
     EarlyInv
<1>2. FrameInv /\ [Next]_vars => FrameInv'
  <2> SUFFICES ASSUME FrameInv, [Next]_vars PROVE FrameInv'
    OBVIOUS
  <2>1. CASE UNCHANGED vars
    BY <2>1 DEF vars, FrameInv, FrameType, InPlace, JoinedInv, HoleInv, CoverInv, EarlyInv
  <2>2. CASE FrameStep
    BY <2>2, FramesKept
  <2> QED
    BY <2>1, <2>2 DEF Next, FrameStep, Done
<1> QED
  BY <1>1, <1>2, PTL DEF Spec

\* Every byte that is joined is the one of its position.
THEOREM BytesInPlace == Spec => []InPlace
<1>1. FrameInv => InPlace
  BY DEF FrameInv
<1> QED
  BY <1>1, ReassemblyInv, PTL

\* The result ends at a hole of the packet and nowhere else.
THEOREM LongestStart == Spec => []NothingMissed
<1>1. FrameInv => NothingMissed
  BY ResultEnds DEF NothingMissed, Results
<1> QED
  BY <1>1, ReassemblyInv, PTL

-----------------------------------------------------------------------------
(* The walk through the ClientHello *)

Honest == client.damage = None

SentInv == client \in Clients /\ hello = Hello(client)

\* The frames are cut from the ClientHello.
FitsInv == \A p \in seen : p.offset + p.len <= Len(hello)

\* Past the header the header is an Initial's, and only a name is returned as one.
HeaderInv ==
    /\ at \notin {"header", "none"} => LongHeaderOk(datagram)
    /\ name # None => at = "named"

ReaderInv ==
    at \in {"extensions", "names", "named"} =>
        /\ pos \in Nat \ {0} /\ limit \in Nat
        /\ pos <= limit + 1 /\ limit <= Len(crypto)
        /\ outer \subseteq Nat
        /\ \A end \in outer : limit <= end /\ end <= Len(crypto)

IsHost(n) == Usable(n.kind, Len(n.name))

\* The k-th extension is the first list of names.
FirstList(k) ==
    /\ client.exts[k].kind = 0
    /\ \A j \in 1..(k - 1) : client.exts[j].kind # 0

\* The extensions are read from a whole ClientHello, one after the other.
ExtInv ==
    at = "extensions" /\ Honest =>
        /\ Len(crypto) = Len(hello) /\ limit = Len(hello)
        /\ \E k \in 0..Len(client.exts) :
            /\ pos = ExtAt(client)[k]
            /\ \A j \in 1..k : client.exts[j].kind # 0

\* The names are those of the first list, and the ones passed over cannot be used.
NameInv ==
    at = "names" /\ Honest =>
        /\ Len(crypto) = Len(hello)
        /\ \E k \in 1..Len(client.exts) :
            LET names == client.exts[k].names
                b == ExtAt(client)[k - 1] + 2 IN
            /\ FirstList(k)
            /\ limit = b + NameCount(names)
            /\ \E q \in 0..Len(names) :
                /\ pos = b + 1 + NameOff(names)[q]
                /\ \A j \in 1..q : ~IsHost(names[j])

\* What is returned.
EndInv ==
    Honest =>
        /\ at = "named" => Len(crypto) = Len(hello) /\ name = Offered
        /\ at = "none" => Len(crypto) # Len(hello) \/ Offered = None

PeekInv ==
    /\ FrameInv /\ SentInv /\ FitsInv /\ HeaderInv
    /\ ReaderInv /\ ExtInv /\ NameInv /\ EndInv

\* Whatever the client sends is a sequence of numbers.
LEMMA HelloType ==
    ASSUME SentInv
    PROVE  /\ WellFormed(client) /\ client.exts \in Seq(Extension)
           /\ hello \in Cells /\ Len(hello) \in Nat /\ Len(hello) >= 7
           /\ Honest => hello = EncodeHello(client)
<1>1. WellFormed(client) /\ client.exts \in Seq(Extension)
  BY HellosAssumption DEF SentInv, WellFormed, Cells
<1> DEFINE h == EncodeHello(client)
<1>2. h \in Cells /\ Len(h) \in Nat /\ Len(h) >= 7
  BY <1>1, ExtAtType
<1> HIDE DEF h
<1>3. CASE Honest
  <2>1. hello = h
    BY <1>3 DEF SentInv, Hello, Honest, h
  <2> QED
    BY <1>1, <1>2, <2>1 DEF h
<1>4. CASE ~Honest
  <2> DEFINE d == client.damage
  <2>1. d \in Nat \X Nat
    BY <1>4, HellosAssumption DEF SentInv, Honest
  <2>2. hello = [h EXCEPT ![d[1]] = d[2]]
    BY <1>4 DEF SentInv, Hello, Honest, h
  <2> HIDE DEF d
  <2>3. d[2] \in Nat
    BY <2>1
  <2>4. h \in [1..Len(h) -> Nat]
    BY <1>2 DEF Cells
  <2>5. hello \in [1..Len(h) -> Nat]
    BY <2>2, <2>3, <2>4
  <2>6. hello \in Cells /\ Len(hello) = Len(h)
    BY <1>2, <2>5 DEF Cells
  <2> QED
    BY <1>1, <1>2, <1>4, <2>6
<1> QED
  BY <1>3, <1>4

\* No more is joined than was sent.
LEMMA CryptoFits ==
    ASSUME FrameInv, SentInv, FitsInv
    PROVE  Len(crypto) \in Nat /\ Len(crypto) <= Len(hello)
<1>1. Len(crypto) \in Nat /\ Len(hello) \in Nat
  BY FrameNumbers, HelloType DEF FrameInv
<1>2. CASE Len(crypto) # 0
  <2>1. Len(crypto) - 1 \in 0..(Len(crypto) - 1)
    BY <1>1, <1>2
  <2>2. PICK p \in seen : p.offset <= Len(crypto) - 1 /\ Len(crypto) - 1 < p.offset + p.len
    BY <2>1 DEF FrameInv, CoverInv
  <2>3. p.offset \in Nat /\ p.len \in Nat /\ p.offset + p.len <= Len(hello)
    BY FrameNumbers DEF FrameInv, FitsInv
  <2> QED
    BY <1>1, <2>2, <2>3
<1> QED
  BY <1>1, <1>2

\* What the reader finds at a place is what was sent there.
LEMMA CellIs ==
    ASSUME FrameInv, SentInv, FitsInv, NEW i \in 1..Len(crypto)
    PROVE  Cell(i) = hello[i] /\ Cell(i) \in Nat
<1>1. Len(crypto) \in Nat /\ Len(crypto) <= Len(hello) /\ Len(hello) \in Nat
  BY CryptoFits, HelloType
<1>2. i \in Nat /\ i \in 1..Len(hello)
  BY <1>1
<1>3. crypto[i] = i - 1
  BY DEF FrameInv, InPlace
<1>4. crypto[i] + 1 = i
  BY <1>2, <1>3
<1>5. hello[i] \in Nat
  BY <1>2, HelloType DEF Cells
<1> QED
  BY <1>4, <1>5 DEF Cell

\* Where a vector that can be taken ends.
LEMMA AfterType ==
    ASSUME FrameInv, SentInv, FitsInv,
           NEW p \in Nat \ {0}, NEW lim \in Nat, lim <= Len(crypto)
    PROVE  /\ CanTake(p, lim) => /\ Cell(p) = hello[p] /\ Cell(p) \in Nat
                                 /\ p <= lim /\ p + Cell(p) <= lim
                                 /\ After(p, lim) = p + 1 + Cell(p)
           /\ ~CanTake(p, lim) => After(p, lim) = lim + 2
           /\ After(p, lim) \in Nat \ {0}
<1>1. Len(crypto) \in Nat
  BY CryptoFits
<1>2. CASE CanTake(p, lim)
  <2>1. p \in 1..Len(crypto)
    BY <1>1, <1>2 DEF CanTake
  <2>2. Cell(p) = hello[p] /\ Cell(p) \in Nat
    BY <2>1, CellIs
  <2> QED
    BY <1>2, <2>2 DEF CanTake, After
<1>3. CASE ~CanTake(p, lim)
  BY <1>3 DEF After
<1> QED
  BY <1>2, <1>3

\* A reader that enters a vector stays in what it was given.
LEMMA EnterType ==
    ASSUME FrameInv, SentInv, FitsInv,
           NEW p \in Nat \ {0}, NEW lim \in Nat, lim <= Len(crypto), NEW next,
           NEW around, Enter(p, lim, around, next)
    PROVE  /\ name' = name
           /\ \/ /\ CanTake(p, lim) /\ at' = next /\ outer' = around
                 /\ pos' = p + 1 /\ limit' = p + Cell(p)
                 /\ pos' \in Nat \ {0} /\ limit' \in Nat
                 /\ pos' <= limit' + 1 /\ limit' <= lim
              \/ ~CanTake(p, lim) /\ at' = "none"
<1>1. CASE CanTake(p, lim)
  <2>1. Cell(p) \in Nat /\ p + Cell(p) <= lim
    BY <1>1, AfterType
  <2>2. /\ pos' = p + 1 /\ limit' = p + Cell(p) /\ outer' = around
        /\ at' = next /\ name' = name
    BY <1>1 DEF Enter
  <2> QED
    BY <1>1, <2>1, <2>2
<1>2. CASE ~CanTake(p, lim)
  BY <1>2 DEF Enter, Ends
<1> QED
  BY <1>1, <1>2

-----------------------------------------------------------------------------
(* What the client offered *)

\* The least of a set of numbers.
LEMMA MinIs ==
    ASSUME NEW S \in SUBSET Nat, NEW k \in S, \A j \in S : k <= j
    PROVE  Min(S) = k
<1>1. \A x \in S : (\A y \in S : x <= y) => x = k
  OBVIOUS
<1> QED
  BY <1>1 DEF Min

\* Without a list of names nothing is offered.
LEMMA OfferedWithoutList ==
    ASSUME SentInv, \A j \in 1..Len(client.exts) : client.exts[j].kind # 0
    PROVE  Offered = None
<1>1. client.exts \in Seq(Extension)
  BY HelloType
<1>2. {i \in DOMAIN client.exts : client.exts[i].kind = 0} = {}
  BY <1>1
<1> QED
  BY <1>2 DEF Offered

\* Which list the offered name is in.
LEMMA ListIs ==
    ASSUME SentInv, NEW k \in 1..Len(client.exts), FirstList(k)
    PROVE  /\ {i \in DOMAIN client.exts : client.exts[i].kind = 0} # {}
           /\ Min({i \in DOMAIN client.exts : client.exts[i].kind = 0}) = k
           /\ client.exts[k].names \in Seq(ServerName)
<1> DEFINE S == {i \in DOMAIN client.exts : client.exts[i].kind = 0}
<1>1. client.exts \in Seq(Extension)
  BY HelloType
<1>2. DOMAIN client.exts = 1..Len(client.exts) /\ Len(client.exts) \in Nat
  BY <1>1
<1>3. S \in SUBSET Nat /\ k \in S
  BY <1>2 DEF FirstList
<1>4. ASSUME NEW j \in S PROVE k <= j
  <2>1. j \in 1..Len(client.exts) /\ client.exts[j].kind = 0
    BY <1>2
  <2>2. j \notin 1..(k - 1)
    BY <2>1 DEF FirstList
  <2> QED
    BY <1>2, <2>1, <2>2
<1>5. Min(S) = k
  <2> HIDE DEF S
  <2> QED
    BY <1>3, <1>4, MinIs
<1>6. client.exts[k] \in Extension /\ client.exts[k].kind = 0
  BY <1>1 DEF FirstList
<1>7. client.exts[k].names \in Seq(ServerName)
  BY <1>6 DEF Extension
<1> QED
  BY <1>3, <1>5, <1>7

\* Of a list without a usable name nothing is offered.
LEMMA OfferedWithoutHost ==
    ASSUME SentInv, NEW k \in 1..Len(client.exts), FirstList(k),
           \A j \in 1..Len(client.exts[k].names) : ~IsHost(client.exts[k].names[j])
    PROVE  Offered = None
<1> DEFINE names == client.exts[k].names
           H == {i \in DOMAIN names : /\ names[i].kind = 0
                                      /\ Len(names[i].name) \in 1..MAX_SERVER_NAME}
<1>1. names \in Seq(ServerName)
  BY ListIs
<1>2. H = {}
  BY <1>1 DEF IsHost, Usable
<1> HIDE DEF H
<1>3. Min({i \in DOMAIN client.exts : client.exts[i].kind = 0}) = k
  BY ListIs
<1> QED
  BY <1>2, <1>3 DEF Offered, H

\* Else the first usable name is.
LEMMA OfferedIs ==
    ASSUME SentInv, NEW k \in 1..Len(client.exts), FirstList(k),
           NEW q \in 1..Len(client.exts[k].names), IsHost(client.exts[k].names[q]),
           \A j \in 1..(q - 1) : ~IsHost(client.exts[k].names[j])
    PROVE  Offered = from_utf8(client.exts[k].names[q].name)
<1> DEFINE L == {i \in DOMAIN client.exts : client.exts[i].kind = 0}
           names == client.exts[k].names
           H == {i \in DOMAIN names : /\ names[i].kind = 0
                                      /\ Len(names[i].name) \in 1..MAX_SERVER_NAME}
<1>1. names \in Seq(ServerName) /\ L # {} /\ Min(L) = k
  BY ListIs
<1>2. DOMAIN names = 1..Len(names) /\ Len(names) \in Nat
  BY <1>1
<1>3. H \in SUBSET Nat /\ q \in H
  BY <1>2 DEF IsHost, Usable
<1>4. ASSUME NEW j \in H PROVE q <= j
  <2>1. j \in 1..Len(names) /\ IsHost(names[j])
    BY <1>2 DEF IsHost, Usable
  <2>2. j \notin 1..(q - 1)
    BY <2>1
  <2> QED
    BY <1>2, <2>1, <2>2
<1>5. Min(H) = q
  <2> HIDE DEF H
  <2> QED
    BY <1>3, <1>4, MinIs
<1>6. H # {}
  BY <1>3
<1> QED
  BY <1>1, <1>5, <1>6 DEF Offered, from_utf8

-----------------------------------------------------------------------------
(* The steps *)

\* A step of the readers leaves what was sent and what was joined alone.
LEMMA ReadersStay ==
    ASSUME PeekInv, at \in Results \ {"none"},
           at' \in {"none", "extensions", "names", "named"},
           UNCHANGED <<count, pieces, crypto, seen, sent>>
    PROVE  FrameInv' /\ SentInv' /\ FitsInv' /\ LongHeaderOk(datagram)'
<1>1. \A p \in pieces : p.offset > Len(crypto)
  BY DEF PeekInv, FrameInv, HoleInv
<1>2. EarlyInv'
  BY DEF EarlyInv
<1>3. FrameInv'
  BY <1>1, <1>2, FramesStay DEF PeekInv
<1>4. SentInv' /\ FitsInv'
  BY DEF PeekInv, SentInv, FitsInv, sent, Hello
<1>5. LongHeaderOk(datagram)
  BY DEF PeekInv, HeaderInv, Results
<1>6. LongHeaderOk(datagram)' = LongHeaderOk(datagram)
  BY DEF sent, LongHeaderOk, initial_type
<1> QED
  BY <1>3, <1>4, <1>5, <1>6

\* What is offered depends on who sends.
LEMMA OnlyTheClient ==
    ASSUME client' = client PROVE Offered' = Offered /\ Honest' = Honest
<1>1. Honest' = Honest
  BY DEF Honest
<1>2. Offered' = Offered
  BY DEF Offered
<1> QED
  BY <1>1, <1>2

\* A reader that stops stops with nothing.
LEMMA NothingEnds ==
    ASSUME PeekInv, at \in {"some", "extensions", "names"}, at' = "none", name' = name,
           UNCHANGED <<count, pieces, crypto, seen, sent>>,
           Honest => Len(crypto) # Len(hello) \/ Offered = None
    PROVE  PeekInv'
<1>1. FrameInv' /\ SentInv' /\ FitsInv'
  BY ReadersStay DEF Results
<1>2. HeaderInv' /\ ReaderInv' /\ ExtInv' /\ NameInv'
  BY DEF PeekInv, HeaderInv, ReaderInv, ExtInv, NameInv
<1>3. Offered' = Offered /\ Honest' = Honest
  <2>1. client' = client
    BY DEF sent
  <2> QED
    BY <2>1, OnlyTheClient
<1>4. EndInv'
  BY <1>3 DEF EndInv, sent
<1> QED
  BY <1>1, <1>2, <1>4 DEF PeekInv

\* A ClientHello says at its head how long it is, so none is entered in part.
LEMMA HonestWhole ==
    ASSUME PeekInv, Honest, CanTake(2, Len(crypto))
    PROVE  Len(crypto) = Len(hello)
<1>1. /\ WellFormed(client) /\ hello = EncodeHello(client)
      /\ Len(hello) \in Nat /\ Len(crypto) \in Nat /\ Len(crypto) <= Len(hello)
  BY HelloType, CryptoFits DEF PeekInv
<1> DEFINE E == Len(FlattenSeq(EncodedExts(client.exts)))
           l == Lead(client)
<1>2. E \in Nat /\ l \in Nat /\ Len(hello) = l + E /\ hello[2] = l - 2 + E
  BY <1>1, HelloCells
<1> HIDE DEF E, l
<1>3. Cell(2) = hello[2] /\ 2 + Cell(2) <= Len(crypto)
  BY <1>1, AfterType DEF PeekInv
<1> QED
  BY <1>1, <1>2, <1>3

\* And a whole one is read up to its extensions.
LEMMA HonestHeader ==
    ASSUME PeekInv, Honest, Len(crypto) = Len(hello)
    PROVE  LET n == Len(crypto)
               l == Lead(client) IN
           /\ l \in Nat /\ Cell(1) = 1 /\ After(2, n) = n + 1
           /\ After(After(After(4, n), n), n) = l
           /\ CanTake(l, n) /\ l + Cell(l) = n
<1> DEFINE n == Len(crypto)
           E == Len(FlattenSeq(EncodedExts(client.exts)))
           l == Lead(client)
           s == Len(client.session_id)
           t == Len(client.cipher_suites)
           u == Len(client.compression)
<1>1. WellFormed(client) /\ hello = EncodeHello(client)
  BY HelloType DEF PeekInv
<1>2. /\ E \in Nat /\ n = l + E /\ hello[1] = 1 /\ hello[2] = l - 2 + E
      /\ s \in Nat /\ t \in Nat /\ u \in Nat /\ l = 7 + s + t + u
      /\ hello[4] = s /\ hello[5 + s] = t /\ hello[6 + s + t] = u /\ hello[l] = E
  BY <1>1, HelloCells
<1> HIDE DEF E, s, t, u, l
<1>3. /\ 1 \in 1..n /\ 2 \in 1..n /\ 4 \in 1..n /\ 5 + s \in 1..n /\ 6 + s + t \in 1..n
      /\ l \in 1..n
  BY <1>2
<1>4. /\ Cell(1) = 1 /\ Cell(2) = l - 2 + E /\ Cell(4) = s /\ Cell(5 + s) = t
      /\ Cell(6 + s + t) = u /\ Cell(l) = E
  BY <1>2, <1>3, CellIs DEF PeekInv
<1> HIDE DEF n
<1>5. CanTake(2, n) /\ CanTake(4, n) /\ CanTake(l, n)
  BY <1>2, <1>4 DEF CanTake
<1>6. CanTake(5 + s, n) /\ CanTake(6 + s + t, n)
  BY <1>2, <1>4 DEF CanTake
<1>7. After(2, n) = n + 1 /\ l + Cell(l) = n /\ l \in Nat
  BY <1>2, <1>4, <1>5 DEF After
<1>8. After(4, n) = 5 + s
  BY <1>2, <1>4, <1>5 DEF After
<1>9. After(5 + s, n) = 6 + s + t
  BY <1>2, <1>4, <1>6 DEF After
<1>10. After(6 + s + t, n) = l
  BY <1>2, <1>4, <1>6 DEF After
<1>11. After(After(After(4, n), n), n) = l
  BY <1>8, <1>9, <1>10
<1> QED
  BY <1>4, <1>5, <1>7, <1>11 DEF n, l

\* The fields before the extensions.
LEMMA HelloStep == ASSUME PeekInv, HelloHeader PROVE PeekInv'
<1> DEFINE n == Len(crypto)
           body == After(2, n) - 1
           cipher_suites == After(4, body)
           compression == After(cipher_suites, body)
           extensions == After(compression, body)
<1>1. /\ at = "some" /\ UNCHANGED <<count, pieces, crypto, seen, sent>>
      /\ IF Cell(1) = 1 /\ body <= n THEN Enter(extensions, body, {body}, "extensions") ELSE Ends
  BY DEF HelloHeader
<1>2. n \in Nat
  BY CryptoFits DEF PeekInv
<1>3. After(2, n) \in Nat \ {0} /\ (~CanTake(2, n) => After(2, n) = n + 2)
  BY <1>2, AfterType DEF PeekInv
<1>4. CASE Cell(1) = 1 /\ body <= n
  <2>1. body \in Nat /\ body <= n
    BY <1>3, <1>4
  <2>2. CanTake(2, n)
    BY <1>2, <1>3, <1>4
  <2> HIDE DEF body, n
  <2>3. body <= Len(crypto)
    BY <2>1 DEF n
  <2>4. cipher_suites \in Nat \ {0}
    BY <2>1, <2>3, AfterType DEF PeekInv
  <2> HIDE DEF cipher_suites
  <2>5. compression \in Nat \ {0}
    BY <2>1, <2>3, <2>4, AfterType DEF PeekInv
  <2> HIDE DEF compression
  <2>6. extensions \in Nat \ {0}
    BY <2>1, <2>3, <2>5, AfterType DEF PeekInv
  <2> HIDE DEF extensions
  <2>7. Honest => Len(crypto) = Len(hello)
    BY <2>2, HonestWhole DEF n
  <2> DEFINE l == Lead(client)
  <2>8. Honest => /\ body = n /\ extensions = l /\ l \in Nat
                  /\ CanTake(l, body) /\ l + Cell(l) = body
    <3>1. SUFFICES ASSUME Honest
                   PROVE  /\ body = n /\ extensions = l /\ l \in Nat
                          /\ CanTake(l, body) /\ l + Cell(l) = body
      OBVIOUS
    <3>2. /\ After(2, n) = n + 1 /\ After(After(After(4, n), n), n) = l /\ l \in Nat
          /\ CanTake(l, n) /\ l + Cell(l) = n
      BY <2>7, <3>1, HonestHeader DEF n
    <3>3. body = n
      BY <1>2, <3>2 DEF body
    <3>4. extensions = l
      BY <3>2, <3>3 DEF extensions, compression, cipher_suites
    <3> QED
      BY <3>2, <3>3, <3>4
  <2> HIDE DEF l
  <2>9. Enter(extensions, body, {body}, "extensions")
    BY <1>1, <1>4
  <2>10. /\ name' = name
         /\ \/ /\ CanTake(extensions, body) /\ at' = "extensions" /\ outer' = {body}
               /\ pos' = extensions + 1 /\ limit' = extensions + Cell(extensions)
               /\ pos' \in Nat \ {0} /\ limit' \in Nat
               /\ pos' <= limit' + 1 /\ limit' <= body
            \/ ~CanTake(extensions, body) /\ at' = "none"
    BY <2>1, <2>3, <2>6, <2>9, EnterType DEF PeekInv
  <2>11. CASE at' = "none"
    <3>1. ~Honest
      BY <2>8, <2>10, <2>11
    <3> QED
      BY <1>1, <2>10, <2>11, <3>1, NothingEnds
  <2>12. CASE at' = "extensions"
    <3>1. /\ pos' = extensions + 1 /\ limit' = extensions + Cell(extensions)
          /\ pos' \in Nat \ {0} /\ limit' \in Nat /\ pos' <= limit' + 1 /\ limit' <= body
          /\ outer' = {body}
      BY <2>10, <2>12
    <3>2. FrameInv' /\ SentInv' /\ FitsInv' /\ LongHeaderOk(datagram)'
      BY <1>1, <2>12, ReadersStay DEF Results
    <3>3. HeaderInv'
      BY <1>1, <2>10, <3>2 DEF PeekInv, HeaderInv
    <3>4. ReaderInv'
      BY <1>1, <1>2, <2>1, <2>12, <3>1 DEF ReaderInv, n
    <3>5. ExtInv'
      <4> SUFFICES ASSUME Honest'
                   PROVE  /\ Len(crypto) = Len(hello) /\ limit' = Len(hello)
                          /\ \E k \in 0..Len(client.exts) :
                              /\ pos' = ExtAt(client)[k]
                              /\ \A j \in 1..k : client.exts[j].kind # 0
        BY <1>1 DEF ExtInv, sent
      <4>1. Honest
        BY <1>1 DEF Honest, sent
      <4>2. pos' = Lead(client) + 1 /\ limit' = Len(hello) /\ Len(crypto) = Len(hello)
        BY <2>7, <2>8, <3>1, <4>1 DEF n, l
      <4>3. WellFormed(client) /\ client.exts \in Seq(Extension)
        BY HelloType DEF PeekInv
      <4>4. 0 \in 0..Len(client.exts) /\ ExtAt(client)[0] = Lead(client) + 1
        BY <4>3, ExtAtType
      <4>5. pos' = ExtAt(client)[0]
        BY <4>2, <4>4
      <4>6. \A j \in 1..0 : client.exts[j].kind # 0
        OBVIOUS
      <4> QED
        BY <4>2, <4>4, <4>5, <4>6
    <3>6. NameInv' /\ EndInv'
      BY <2>12 DEF NameInv, EndInv
    <3> QED
      BY <3>2, <3>3, <3>4, <3>5, <3>6 DEF PeekInv
  <2> QED
    BY <2>10, <2>11, <2>12
<1>5. CASE ~(Cell(1) = 1 /\ body <= n)
  <2>1. at' = "none" /\ name' = name
    BY <1>1, <1>5 DEF Ends
  <2>2. Honest => Len(crypto) # Len(hello)
    <3>1. SUFFICES ASSUME Honest, Len(crypto) = Len(hello) PROVE FALSE
      OBVIOUS
    <3>2. Cell(1) = 1 /\ After(2, n) = n + 1
      BY <3>1, HonestHeader
    <3> QED
      BY <1>2, <1>5, <3>2
  <2> QED
    BY <1>1, <2>1, <2>2, NothingEnds
<1> QED
  BY <1>4, <1>5

\* The reader stands at the next extension of a whole ClientHello.
LEMMA ExtensionThere ==
    ASSUME PeekInv, Honest, at = "extensions", NEW k \in 1..Len(client.exts),
           pos = ExtAt(client)[k - 1]
    PROVE  LET e == client.exts[k]
               l == Len(Body(e)) IN
           /\ l \in Nat /\ CanTake(pos + 1, limit)
           /\ Cell(pos) = e.kind /\ Cell(pos + 1) = l
           /\ After(pos + 1, limit) = ExtAt(client)[k]
           /\ pos + 1 + l <= limit
           /\ \A i \in 1..l : Cell(pos + 1 + i) = hello[pos + 1 + i]
<1> DEFINE exts == client.exts
           e == exts[k]
           l == Len(Body(e))
           o == ExtAt(client)[k - 1]
           m == ExtAt(client)[k]
<1>1. WellFormed(client) /\ exts \in Seq(Extension) /\ hello = EncodeHello(client)
  BY HelloType DEF PeekInv
<1>2. /\ l \in Nat /\ o \in Nat \ {0} /\ m \in Nat /\ m = o + 2 + l
      /\ hello[o] = e.kind /\ hello[o + 1] = l
  BY <1>1, ExtensionAt
<1>3. k \in 0..Len(exts)
  BY <1>1
<1>4. Len(hello) \in Nat /\ m <= Len(hello) + 1
  BY <1>1, <1>3, ExtAtType
<1>5. Len(crypto) = Len(hello) /\ limit = Len(hello)
  BY DEF PeekInv, ExtInv
<1> HIDE DEF o, m, l, e
<1>6. pos = o
  BY DEF o
<1>7. pos \in 1..Len(crypto) /\ pos + 1 \in 1..Len(crypto) /\ pos + 1 + l <= limit
  BY <1>2, <1>4, <1>5, <1>6
<1>8. Cell(pos) = hello[pos] /\ Cell(pos + 1) = hello[pos + 1]
  BY <1>7, CellIs DEF PeekInv
<1>9. Cell(pos) = e.kind /\ Cell(pos + 1) = l
  BY <1>2, <1>6, <1>8
<1>10. CanTake(pos + 1, limit)
  BY <1>5, <1>7, <1>9 DEF CanTake
<1>11. After(pos + 1, limit) = m
  BY <1>2, <1>6, <1>9, <1>10 DEF After
<1>12. ASSUME NEW i \in 1..l PROVE Cell(pos + 1 + i) = hello[pos + 1 + i]
  <2>1. pos + 1 + i \in 1..Len(crypto)
    BY <1>2, <1>4, <1>5, <1>6
  <2> QED
    BY <2>1, CellIs DEF PeekInv
<1> QED
  BY <1>2, <1>7, <1>9, <1>10, <1>11, <1>12 DEF l, e, m

\* A turn of the loop over the extensions.
LEMMA ExtensionStep == ASSUME PeekInv, NextExtension PROVE PeekInv'
<1>1. /\ at = "extensions" /\ UNCHANGED <<count, pieces, crypto, seen, sent>>
  BY DEF NextExtension
<1>2. /\ pos \in Nat \ {0} /\ limit \in Nat /\ pos <= limit + 1 /\ limit <= Len(crypto)
      /\ Len(crypto) \in Nat
      /\ outer \subseteq Nat /\ \A end \in outer : limit <= end /\ end <= Len(crypto)
  BY <1>1, CryptoFits DEF PeekInv, ReaderInv
<1>3. pos + 1 \in Nat \ {0} /\ pos + 2 \in Nat \ {0}
  BY <1>2
<1>4. /\ WellFormed(client) /\ client.exts \in Seq(Extension)
      /\ Honest => hello = EncodeHello(client)
  BY HelloType DEF PeekInv
<1>5. Honest' = Honest /\ client' = client /\ hello' = hello
  BY <1>1 DEF Honest, sent
<1>6. CASE ~CanTake(pos + 1, limit)
  <2>1. at' = "none" /\ name' = name
    BY <1>1, <1>6 DEF NextExtension, Ends
  <2>2. Honest => Offered = None
    <3>1. SUFFICES ASSUME Honest PROVE Offered = None
      OBVIOUS
    <3>2. PICK k \in 0..Len(client.exts) :
              /\ pos = ExtAt(client)[k]
              /\ \A j \in 1..k : client.exts[j].kind # 0
      BY <1>1, <3>1 DEF PeekInv, ExtInv
    <3>3. CASE k = Len(client.exts)
      BY <3>2, <3>3, OfferedWithoutList DEF PeekInv
    <3>4. CASE k # Len(client.exts)
      <4>1. k + 1 \in 1..Len(client.exts) /\ k + 1 - 1 = k
        BY <1>4, <3>4
      <4>2. pos = ExtAt(client)[k + 1 - 1]
        BY <3>2, <4>1
      <4>3. CanTake(pos + 1, limit)
        BY <1>1, <3>1, <4>1, <4>2, ExtensionThere
      <4> QED
        BY <1>6, <4>3
    <3> QED
      BY <3>3, <3>4
  <2> QED
    BY <1>1, <2>1, <2>2, NothingEnds
<1>7. CASE CanTake(pos + 1, limit) /\ Cell(pos) # 0
  <2>1. /\ pos' = After(pos + 1, limit) /\ at' = at /\ limit' = limit /\ outer' = outer
        /\ name' = name
    BY <1>7 DEF NextExtension
  <2>2. /\ After(pos + 1, limit) = pos + 1 + 1 + Cell(pos + 1) /\ Cell(pos + 1) \in Nat
        /\ pos + 1 + Cell(pos + 1) <= limit
    BY <1>2, <1>3, <1>7, AfterType DEF PeekInv
  <2>3. FrameInv' /\ SentInv' /\ FitsInv' /\ LongHeaderOk(datagram)'
    BY <1>1, <2>1, ReadersStay DEF Results
  <2>4. HeaderInv'
    BY <1>1, <2>1, <2>3 DEF PeekInv, HeaderInv
  <2>5. ReaderInv'
    BY <1>1, <1>2, <2>1, <2>2 DEF ReaderInv
  <2>6. ExtInv'
    <3> SUFFICES ASSUME Honest
                 PROVE  /\ Len(crypto) = Len(hello) /\ limit = Len(hello)
                        /\ \E k \in 0..Len(client.exts) :
                            /\ pos' = ExtAt(client)[k]
                            /\ \A j \in 1..k : client.exts[j].kind # 0
      BY <1>1, <1>5, <2>1 DEF ExtInv
    <3>1. Len(crypto) = Len(hello) /\ limit = Len(hello)
      BY <1>1 DEF PeekInv, ExtInv
    <3>2. PICK k \in 0..Len(client.exts) :
              /\ pos = ExtAt(client)[k]
              /\ \A j \in 1..k : client.exts[j].kind # 0
      BY <1>1 DEF PeekInv, ExtInv
    <3>3. k # Len(client.exts)
      <4>1. SUFFICES ASSUME k = Len(client.exts) PROVE FALSE
        OBVIOUS
      <4>2. ExtAt(client)[k] = Len(hello) + 1
        BY <1>4, <4>1, ExtAtType
      <4>3. pos = limit + 1
        BY <3>1, <3>2, <4>2
      <4> QED
        BY <1>2, <2>2, <4>3
    <3>4. k + 1 \in 1..Len(client.exts) /\ k + 1 - 1 = k /\ k + 1 \in 0..Len(client.exts)
      BY <1>4, <3>3
    <3>5. pos = ExtAt(client)[k + 1 - 1]
      BY <3>2, <3>4
    <3>6. /\ After(pos + 1, limit) = ExtAt(client)[k + 1]
          /\ Cell(pos) = client.exts[k + 1].kind
      BY <1>1, <3>4, <3>5, ExtensionThere
    <3>7. \A j \in 1..(k + 1) : client.exts[j].kind # 0
      <4>1. \A j \in 1..(k + 1) : j \in 1..k \/ j = k + 1
        OBVIOUS
      <4> QED
        BY <1>7, <3>2, <3>6, <4>1
    <3> QED
      BY <2>1, <3>1, <3>4, <3>6, <3>7
  <2>7. NameInv' /\ EndInv'
    BY <1>1, <2>1 DEF NameInv, EndInv
  <2> QED
    BY <2>3, <2>4, <2>5, <2>6, <2>7 DEF PeekInv
<1>8. CASE CanTake(pos + 1, limit) /\ Cell(pos) = 0
  <2> DEFINE lim == pos + 1 + Cell(pos + 1)
  <2>1. Enter(pos + 2, lim, outer \cup {limit, lim}, "names")
    BY <1>8 DEF NextExtension, BodyEnd
  <2>2. Cell(pos + 1) \in Nat /\ lim <= limit
    BY <1>2, <1>3, <1>8, AfterType DEF PeekInv
  <2>3. lim \in Nat /\ lim <= Len(crypto)
    BY <1>2, <2>2
  <2> HIDE DEF lim
  <2>4. /\ name' = name
        /\ \/ /\ CanTake(pos + 2, lim) /\ at' = "names"
              /\ outer' = outer \cup {limit, lim}
              /\ pos' = pos + 2 + 1 /\ limit' = pos + 2 + Cell(pos + 2)
              /\ pos' \in Nat \ {0} /\ limit' \in Nat
              /\ pos' <= limit' + 1 /\ limit' <= lim
           \/ ~CanTake(pos + 2, lim) /\ at' = "none"
    BY <1>3, <2>1, <2>3, EnterType DEF PeekInv
  <2>5. ASSUME Honest
        PROVE  /\ Len(crypto) = Len(hello) /\ CanTake(pos + 2, lim)
               /\ \E k \in 1..Len(client.exts) :
                   LET names == client.exts[k].names
                       b == ExtAt(client)[k - 1] + 2 IN
                   /\ FirstList(k) /\ names \in Seq(ServerName)
                   /\ pos + 2 = b /\ Cell(pos + 2) = NameCount(names)
    <3>1. Len(crypto) = Len(hello) /\ limit = Len(hello)
      BY <1>1, <2>5 DEF PeekInv, ExtInv
    <3>2. PICK i \in 0..Len(client.exts) :
              /\ pos = ExtAt(client)[i]
              /\ \A j \in 1..i : client.exts[j].kind # 0
      BY <1>1, <2>5 DEF PeekInv, ExtInv
    <3>3. i # Len(client.exts)
      <4>1. SUFFICES ASSUME i = Len(client.exts) PROVE FALSE
        OBVIOUS
      <4>2. ExtAt(client)[i] = Len(hello) + 1
        BY <1>4, <2>5, <4>1, ExtAtType
      <4>3. pos = limit + 1
        BY <3>1, <3>2, <4>2
      <4> QED
        BY <1>2, <2>2, <4>3 DEF lim
    <3> DEFINE k == i + 1
    <3>4. k \in 1..Len(client.exts) /\ k - 1 = i
      BY <1>4, <3>3
    <3> HIDE DEF k
    <3> DEFINE e == client.exts[k]
               o == ExtAt(client)[k - 1]
               l == Len(Body(e))
               c == NameCount(e.names)
    <3>5. pos = o
      BY <3>2, <3>4
    <3>6. /\ l \in Nat /\ Cell(pos) = e.kind /\ Cell(pos + 1) = l
          /\ \A j \in 1..l : Cell(pos + 1 + j) = hello[pos + 1 + j]
      BY <1>1, <2>5, <3>4, <3>5, ExtensionThere
    <3>7. FirstList(k)
      BY <1>8, <3>2, <3>4, <3>6 DEF FirstList
    <3>8. e.kind = 0
      BY <3>7 DEF FirstList
    <3>9. /\ e.names \in Seq(ServerName) /\ c \in Nat /\ l = 1 + c
          /\ hello[o + 2] = c
      BY <1>4, <2>5, <3>4, <3>8, ListAt
    <3>10. o \in Nat
      BY <1>4, <3>4, ExtensionAt
    <3> HIDE DEF e, o, l, c
    <3>11. pos + 2 = o + 2 /\ pos + 1 + 1 = pos + 2 /\ 1 \in 1..l
      BY <3>5, <3>9, <3>10
    <3>12. Cell(pos + 2) = c
      <4>1. Cell(pos + 1 + 1) = hello[pos + 1 + 1]
        BY <3>6, <3>11
      <4> QED
        BY <3>9, <3>11, <4>1
    <3>13. CanTake(pos + 2, lim)
      BY <1>2, <3>6, <3>9, <3>12 DEF CanTake, lim
    <3> QED
      BY <3>1, <3>4, <3>7, <3>9, <3>11, <3>12, <3>13 DEF e, o, c
  <2>6. CASE at' = "none"
    <3>1. ~Honest
      BY <2>4, <2>5, <2>6
    <3> QED
      BY <1>1, <2>4, <2>6, <3>1, NothingEnds
  <2>7. CASE at' = "names"
    <3>1. /\ pos' = pos + 2 + 1 /\ limit' = pos + 2 + Cell(pos + 2)
          /\ pos' \in Nat \ {0} /\ limit' \in Nat /\ pos' <= limit' + 1 /\ limit' <= lim
          /\ outer' = outer \cup {limit, lim}
      BY <2>4, <2>7
    <3>2. FrameInv' /\ SentInv' /\ FitsInv' /\ LongHeaderOk(datagram)'
      BY <1>1, <2>7, ReadersStay DEF Results
    <3>3. HeaderInv'
      BY <1>1, <2>4, <3>2 DEF PeekInv, HeaderInv
    <3>4. ReaderInv'
      <4>1. outer' \subseteq Nat
        BY <1>2, <2>3, <3>1
      <4>2. ASSUME NEW end \in outer' PROVE limit' <= end /\ end <= Len(crypto)
        <5>1. end \in outer \/ end = limit \/ end = lim
          BY <3>1
        <5>2. lim \in Nat /\ lim <= limit /\ limit' <= lim /\ limit' \in Nat
          BY <2>2, <2>3, <3>1
        <5>3. CASE end \in outer
          <6>1. end \in Nat /\ limit <= end /\ end <= Len(crypto)
            BY <1>2, <5>3
          <6> QED
            BY <1>2, <5>2, <6>1
        <5>4. CASE end = limit \/ end = lim
          BY <1>2, <5>2, <5>4
        <5> QED
          BY <5>1, <5>3, <5>4
      <4>3. limit' <= Len(crypto)
        BY <1>2, <2>3, <3>1
      <4> QED
        BY <1>1, <3>1, <4>1, <4>2, <4>3 DEF ReaderInv
    <3>5. NameInv'
      <4> SUFFICES ASSUME Honest
          PROVE  /\ Len(crypto) = Len(hello)
                 /\ \E k \in 1..Len(client.exts) :
                     LET names == client.exts[k].names
                         b == ExtAt(client)[k - 1] + 2 IN
                     /\ FirstList(k)
                     /\ limit' = b + NameCount(names)
                     /\ \E q \in 0..Len(names) :
                         /\ pos' = b + 1 + NameOff(names)[q]
                         /\ \A j \in 1..q : ~IsHost(names[j])
        BY <1>1, <1>5 DEF NameInv, FirstList
      <4>1. PICK k \in 1..Len(client.exts) :
              /\ FirstList(k) /\ client.exts[k].names \in Seq(ServerName)
              /\ pos + 2 = ExtAt(client)[k - 1] + 2
              /\ Cell(pos + 2) = NameCount(client.exts[k].names)
        BY <2>5
      <4> DEFINE names == client.exts[k].names
                 b == ExtAt(client)[k - 1] + 2
      <4>2. 0 \in 0..Len(names) /\ NameOff(names)[0] = 0
        BY <4>1, NameOffType
      <4>3. limit' = b + NameCount(names) /\ b \in Nat
        BY <1>3, <3>1, <4>1
      <4>4. pos' = b + 1 + NameOff(names)[0]
        BY <1>2, <3>1, <4>1, <4>2
      <4>5. \A j \in 1..0 : ~IsHost(names[j])
        OBVIOUS
      <4> QED
        BY <2>5, <4>1, <4>2, <4>3, <4>4, <4>5
    <3>6. ExtInv' /\ EndInv'
      BY <2>7 DEF ExtInv, EndInv
    <3> QED
      BY <3>2, <3>3, <3>4, <3>5, <3>6 DEF PeekInv
  <2> QED
    BY <2>4, <2>6, <2>7
<1> QED
  BY <1>6, <1>7, <1>8

\* The reader stands at the next name of the first list.
LEMMA NameThere ==
    ASSUME PeekInv, Honest, at = "names", Len(crypto) = Len(hello),
           NEW k \in 1..Len(client.exts), FirstList(k),
           NEW q \in 1..Len(client.exts[k].names),
           limit = ExtAt(client)[k - 1] + 2 + NameCount(client.exts[k].names),
           pos = ExtAt(client)[k - 1] + 2 + 1 + NameOff(client.exts[k].names)[q - 1]
    PROVE  LET n == client.exts[k].names[q]
               l == Len(n.name) IN
           /\ n \in ServerName /\ CanTake(pos + 1, limit)
           /\ Cell(pos) = n.kind /\ Cell(pos + 1) = l
           /\ After(pos + 1, limit) =
                ExtAt(client)[k - 1] + 2 + 1 + NameOff(client.exts[k].names)[q]
           /\ [i \in 1..Cell(pos + 1) |-> Cell(pos + 1 + i)] = n.name
<1> DEFINE exts == client.exts
           names == exts[k].names
           n == names[q]
           l == Len(n.name)
           b == ExtAt(client)[k - 1] + 2
           o == NameOff(names)[q - 1]
           m == NameOff(names)[q]
           c == NameCount(names)
<1>1. WellFormed(client) /\ hello = EncodeHello(client) /\ exts[k].kind = 0
  BY HelloType DEF PeekInv, FirstList
<1>2. /\ n \in ServerName /\ l \in Nat /\ o \in Nat /\ m \in Nat /\ m = o + 2 + l
      /\ hello[b + 1 + o] = n.kind /\ hello[b + 1 + o + 1] = l
      /\ \A i \in 1..l : hello[b + 1 + o + 1 + i] = n.name[i]
  <2>1. exts[k].kind = 0 /\ WellFormed(client)
    BY <1>1
  <2> HIDE <1>1
  <2>2. n \in ServerName /\ l \in Nat /\ o \in Nat /\ m \in Nat
    BY <2>1, NameAt
  <2>3. Follows(o, n, m)
    BY <2>1, NameAt, Zenon
  <2>4. HasEntry(EncodeHello(client), b + 1 + o, n)
    BY <2>1, NameAt, Zenon
  <2>5. hello = EncodeHello(client)
    BY <1>1
  <2> HIDE DEF n, o, m, b
  <2> QED
    BY <2>2, <2>3, <2>4, <2>5 DEF HasEntry, Follows
<1>3. names \in Seq(ServerName) /\ c \in Nat
  BY <1>1, ListAt
<1>4. m <= c
  BY <1>3, NameOffType
<1>5. b \in Nat
  <2>1. ExtAt(client)[k - 1] \in Nat
    BY <1>1, ExtensionAt
  <2> QED
    BY <2>1
<1>6. limit \in Nat /\ limit <= Len(crypto) /\ Len(crypto) \in Nat
  BY CryptoFits DEF PeekInv, ReaderInv
<1> HIDE DEF exts, names, n, l, b, o, m, c
<1>7. limit = b + c /\ pos = b + 1 + o
  BY DEF exts, names, b, o, c
<1>8. pos \in 1..Len(crypto) /\ pos + 1 \in 1..Len(crypto) /\ pos + 1 + l <= limit
  <2>1. \A x, y, z, u, v, w \in Nat : y = x + 2 + z /\ y <= u /\ v + u <= w =>
            /\ v + 1 + x \in 1..w /\ v + 1 + x + 1 \in 1..w
            /\ v + 1 + x + 1 + z <= v + u
    OBVIOUS
  <2>2. /\ l \in Nat /\ o \in Nat /\ m \in Nat /\ m = o + 2 + l
        /\ m <= c /\ b \in Nat /\ c \in Nat /\ b + c <= Len(crypto)
    BY <1>2, <1>3, <1>4, <1>5, <1>6, <1>7
  <2>3. /\ b + 1 + o \in 1..Len(crypto) /\ b + 1 + o + 1 \in 1..Len(crypto)
        /\ b + 1 + o + 1 + l <= b + c
    BY <1>6, <2>1, <2>2
  <2> QED
    BY <1>7, <2>3
<1>9. Cell(pos) = hello[pos] /\ Cell(pos + 1) = hello[pos + 1]
  BY <1>8, CellIs DEF PeekInv
<1>10. Cell(pos) = n.kind /\ Cell(pos + 1) = l
  BY <1>2, <1>7, <1>9
<1>11. CanTake(pos + 1, limit)
  BY <1>2, <1>6, <1>8, <1>10 DEF CanTake
<1>12. After(pos + 1, limit) = b + 1 + m
  <2>1. After(pos + 1, limit) = pos + 1 + 1 + l
    BY <1>10, <1>11 DEF After
  <2>2. m \in Nat /\ o \in Nat /\ l \in Nat /\ m = o + 2 + l
    BY <1>2
  <2>3. \A x, y, z \in Nat : x + 1 + y + 1 + 1 + z = x + 1 + (y + 2 + z)
    OBVIOUS
  <2>4. b + 1 + o + 1 + 1 + l = b + 1 + (o + 2 + l)
    BY <1>5, <2>2, <2>3
  <2> QED
    BY <1>7, <2>1, <2>2, <2>4
<1>13. ASSUME NEW i \in 1..l PROVE Cell(pos + 1 + i) = n.name[i]
  <2>1. pos + 1 + i \in 1..Len(crypto)
    <3>1. \A x, y, z, w \in Nat : x + 1 + y <= z /\ z <= w =>
              \A j \in 1..y : x + 1 + j \in 1..w
      OBVIOUS
    <3>2. pos \in Nat /\ l \in Nat
      BY <1>2, <1>6, <1>8
    <3> QED
      BY <1>6, <1>8, <3>1, <3>2
  <2>2. Cell(pos + 1 + i) = hello[pos + 1 + i]
    BY <2>1, CellIs DEF PeekInv
  <2> QED
    BY <1>2, <1>7, <2>2
<1>14. [i \in 1..Cell(pos + 1) |-> Cell(pos + 1 + i)] = n.name
  <2>1. n.name \in Seq(Nat)
    BY <1>2 DEF ServerName
  <2>2. n.name = [i \in 1..l |-> n.name[i]]
    BY <2>1 DEF l
  <2> QED
    BY <1>10, <1>13, <2>2
<1> QED
  BY <1>2, <1>10, <1>11, <1>12, <1>14 DEF exts, names, n, l, b, m

\* A turn of the loop over the names.
LEMMA NameStep == ASSUME PeekInv, NextName PROVE PeekInv'
<1>1. at = "names" /\ UNCHANGED <<count, pieces, crypto, seen, sent>>
  BY DEF NextName
<1>2. /\ pos \in Nat \ {0} /\ limit \in Nat /\ pos <= limit + 1 /\ limit <= Len(crypto)
      /\ Len(crypto) \in Nat
      /\ outer \subseteq Nat /\ \A end \in outer : limit <= end /\ end <= Len(crypto)
  BY <1>1, CryptoFits DEF PeekInv, ReaderInv
<1>3. pos + 1 \in Nat \ {0}
  BY <1>2
<1>4. /\ WellFormed(client) /\ client.exts \in Seq(Extension)
      /\ Honest => hello = EncodeHello(client)
  BY HelloType DEF PeekInv
<1>5. Honest' = Honest /\ client' = client /\ hello' = hello /\ Offered' = Offered
  BY <1>1 DEF Honest, sent, Offered
<1>6. name = None
  BY <1>1 DEF PeekInv, HeaderInv
\* Where an honest client's names are being read.
<1>7. ASSUME Honest
      PROVE  /\ Len(crypto) = Len(hello)
             /\ \E k \in 1..Len(client.exts) :
                 /\ FirstList(k) /\ client.exts[k].names \in Seq(ServerName)
                 /\ limit = ExtAt(client)[k - 1] + 2 + NameCount(client.exts[k].names)
                 /\ \E q \in 0..Len(client.exts[k].names) :
                     /\ pos = ExtAt(client)[k - 1] + 2 + 1
                              + NameOff(client.exts[k].names)[q]
                     /\ \A j \in 1..q : ~IsHost(client.exts[k].names[j])
  <2>1. \A k \in 1..Len(client.exts) :
            FirstList(k) => client.exts[k].names \in Seq(ServerName)
    BY ListIs DEF PeekInv
  <2> QED
    BY <1>1, <1>7, <2>1 DEF PeekInv, NameInv
<1>8. CASE ~CanTake(pos + 1, limit)
  <2>1. at' = "none" /\ name' = name
    BY <1>1, <1>8 DEF NextName, Ends
  <2>2. Honest => Offered = None
    <3>1. SUFFICES ASSUME Honest PROVE Offered = None
      OBVIOUS
    <3>2. PICK k \in 1..Len(client.exts) :
              /\ FirstList(k) /\ client.exts[k].names \in Seq(ServerName)
              /\ limit = ExtAt(client)[k - 1] + 2 + NameCount(client.exts[k].names)
              /\ \E q \in 0..Len(client.exts[k].names) :
                  /\ pos = ExtAt(client)[k - 1] + 2 + 1
                           + NameOff(client.exts[k].names)[q]
                  /\ \A j \in 1..q : ~IsHost(client.exts[k].names[j])
      BY <1>7, <3>1
    <3> DEFINE names == client.exts[k].names
    <3>3. PICK q \in 0..Len(names) :
              /\ pos = ExtAt(client)[k - 1] + 2 + 1 + NameOff(names)[q]
              /\ \A j \in 1..q : ~IsHost(names[j])
      BY <3>2
    <3>4. CASE q = Len(names)
      BY <3>2, <3>3, <3>4, OfferedWithoutHost DEF PeekInv
    <3>5. CASE q # Len(names)
      <4> DEFINE r == q + 1
      <4>1. r \in 1..Len(names) /\ r - 1 = q
        BY <3>2, <3>5
      <4> HIDE DEF r
      <4>2. pos = ExtAt(client)[k - 1] + 2 + 1 + NameOff(names)[r - 1]
        BY <3>3, <4>1
      <4>3. CanTake(pos + 1, limit)
        <5>1. /\ Len(crypto) = Len(hello) /\ FirstList(k)
              /\ limit = ExtAt(client)[k - 1] + 2 + NameCount(names)
          BY <1>7, <3>1, <3>2
        <5> QED
          BY <1>1, <3>1, <4>1, <4>2, <5>1, NameThere
      <4> QED
        BY <1>8, <4>3
    <3> QED
      BY <3>4, <3>5
  <2> QED
    BY <1>1, <2>1, <2>2, NothingEnds
<1>9. CASE CanTake(pos + 1, limit)
  <2>1. /\ After(pos + 1, limit) = pos + 1 + 1 + Cell(pos + 1) /\ Cell(pos + 1) \in Nat
        /\ pos + 1 + Cell(pos + 1) <= limit
    BY <1>2, <1>3, <1>9, AfterType DEF PeekInv
  <2> DEFINE text == [i \in 1..Cell(pos + 1) |-> Cell(pos + 1 + i)]
  \* The name before the reader is one the client put there.
  <2>2. ASSUME Honest
        PROVE  /\ Len(crypto) = Len(hello)
               /\ \E k \in 1..Len(client.exts) :
                  \E q \in 1..Len(client.exts[k].names) :
                    LET names == client.exts[k].names
                        b == ExtAt(client)[k - 1] + 2 IN
                    /\ FirstList(k) /\ limit = b + NameCount(names)
                    /\ \A j \in 1..(q - 1) : ~IsHost(names[j])
                    /\ Cell(pos) = names[q].kind /\ Cell(pos + 1) = Len(names[q].name)
                    /\ After(pos + 1, limit) = b + 1 + NameOff(names)[q]
                    /\ text = names[q].name
    <3>1. PICK k \in 1..Len(client.exts) :
              /\ FirstList(k) /\ client.exts[k].names \in Seq(ServerName)
              /\ limit = ExtAt(client)[k - 1] + 2 + NameCount(client.exts[k].names)
              /\ \E q \in 0..Len(client.exts[k].names) :
                  /\ pos = ExtAt(client)[k - 1] + 2 + 1
                           + NameOff(client.exts[k].names)[q]
                  /\ \A j \in 1..q : ~IsHost(client.exts[k].names[j])
      BY <1>7, <2>2
    <3> DEFINE names == client.exts[k].names
               x == ExtAt(client)[k - 1]
    <3>2. PICK r \in 0..Len(names) :
              /\ pos = x + 2 + 1 + NameOff(names)[r]
              /\ \A j \in 1..r : ~IsHost(names[j])
      BY <3>1
    <3>3. r # Len(names)
      <4>1. SUFFICES ASSUME r = Len(names) PROVE FALSE
        OBVIOUS
      <4>2. NameOff(names)[r] = NameCount(names)
        BY <3>1, <4>1, NameOffType
      <4>3. NameCount(names) \in Nat /\ x \in Nat
        <5>1. client.exts[k].kind = 0
          BY <3>1 DEF FirstList
        <5> QED
          BY <1>4, <5>1, ListAt, ExtensionAt
      <4>4. limit = x + 2 + NameCount(names)
        BY <3>1
      <4> HIDE DEF names, x
      <4> QED
        <5>1. pos = limit + 1
          BY <3>2, <4>2, <4>3, <4>4
        <5> QED
          BY <1>2, <2>1, <5>1
    <3> DEFINE q == r + 1
    <3>4. q \in 1..Len(names) /\ q - 1 = r
      BY <3>1, <3>3
    <3> HIDE DEF q
    <3>5. pos = x + 2 + 1 + NameOff(names)[q - 1]
      BY <3>2, <3>4
    <3>6. \A j \in 1..(q - 1) : ~IsHost(names[j])
      BY <3>2, <3>4
    <3>7. /\ Cell(pos) = names[q].kind /\ Cell(pos + 1) = Len(names[q].name)
          /\ After(pos + 1, limit) = x + 2 + 1 + NameOff(names)[q]
          /\ text = names[q].name
      BY <1>1, <1>7, <2>2, <3>1, <3>4, <3>5, NameThere
    <3> HIDE DEF text
    <3> QED
      BY <1>7, <2>2, <3>1, <3>4, <3>6, <3>7
  <2>3. CASE Usable(Cell(pos), Cell(pos + 1))
    <3>1. /\ name' = from_utf8(text) /\ pos' = pos /\ limit' = limit /\ outer' = outer
          /\ at' = IF name' = None THEN "none" ELSE "named"
      BY <1>9, <2>3 DEF NextName, reader
    <3>2. Honest => Len(crypto) = Len(hello) /\ name' = Offered
      <4>1. SUFFICES ASSUME Honest PROVE Len(crypto) = Len(hello) /\ name' = Offered
        OBVIOUS
      <4> HIDE DEF text
      <4>2. PICK k \in 1..Len(client.exts) :
             \E q \in 1..Len(client.exts[k].names) :
              LET names == client.exts[k].names IN
              /\ FirstList(k)
              /\ \A j \in 1..(q - 1) : ~IsHost(names[j])
              /\ Cell(pos) = names[q].kind /\ Cell(pos + 1) = Len(names[q].name)
              /\ text = names[q].name
        BY <2>2, <4>1
      <4>3. PICK q \in 1..Len(client.exts[k].names) :
              LET names == client.exts[k].names IN
              /\ FirstList(k)
              /\ \A j \in 1..(q - 1) : ~IsHost(names[j])
              /\ Cell(pos) = names[q].kind /\ Cell(pos + 1) = Len(names[q].name)
              /\ text = names[q].name
        BY <4>2
      <4>4. IsHost(client.exts[k].names[q])
        BY <2>3, <4>3 DEF IsHost
      <4>5. Offered = from_utf8(client.exts[k].names[q].name)
        BY <4>3, <4>4, OfferedIs DEF PeekInv
      <4> QED
        BY <2>2, <3>1, <4>1, <4>3, <4>5
    <3>3. CASE name' = None
      <4>1. at' = "none" /\ name' = name /\ (Honest => Offered = None)
        BY <1>6, <3>1, <3>2, <3>3
      <4> QED
        BY <1>1, <4>1, NothingEnds
    <3>4. CASE name' # None
      <4>1. at' = "named"
        BY <3>1, <3>4
      <4>2. FrameInv' /\ SentInv' /\ FitsInv' /\ LongHeaderOk(datagram)'
        BY <1>1, <4>1, ReadersStay DEF Results
      <4>3. HeaderInv'
        BY <4>1, <4>2 DEF HeaderInv
      <4>4. ReaderInv'
        BY <1>1, <1>2, <3>1 DEF ReaderInv
      <4>5. ExtInv' /\ NameInv'
        BY <4>1 DEF ExtInv, NameInv
      <4>6. EndInv'
        BY <1>1, <1>5, <3>2, <4>1 DEF EndInv
      <4> QED
        BY <4>2, <4>3, <4>4, <4>5, <4>6 DEF PeekInv
    <3> QED
      BY <3>3, <3>4
  <2>4. CASE ~Usable(Cell(pos), Cell(pos + 1))
    <3> HIDE DEF text
    <3>1. /\ pos' = After(pos + 1, limit) /\ at' = at /\ limit' = limit
          /\ outer' = outer /\ name' = name
      BY <1>9, <2>4 DEF NextName
    <3>2. FrameInv' /\ SentInv' /\ FitsInv' /\ LongHeaderOk(datagram)'
      BY <1>1, <3>1, ReadersStay DEF Results
    <3>3. HeaderInv'
      BY <1>1, <1>6, <3>1, <3>2 DEF HeaderInv
    <3>4. ReaderInv'
      BY <1>1, <1>2, <2>1, <3>1 DEF ReaderInv
    <3>5. NameInv'
      <4> SUFFICES ASSUME Honest
          PROVE  /\ Len(crypto) = Len(hello)
                 /\ \E k \in 1..Len(client.exts) :
                     LET names == client.exts[k].names
                         b == ExtAt(client)[k - 1] + 2 IN
                     /\ FirstList(k)
                     /\ limit = b + NameCount(names)
                     /\ \E q \in 0..Len(names) :
                         /\ pos' = b + 1 + NameOff(names)[q]
                         /\ \A j \in 1..q : ~IsHost(names[j])
        BY <1>1, <1>5, <3>1 DEF NameInv, FirstList
      <4>1. PICK k \in 1..Len(client.exts) :
             \E q \in 1..Len(client.exts[k].names) :
              LET names == client.exts[k].names
                  b == ExtAt(client)[k - 1] + 2 IN
              /\ FirstList(k) /\ limit = b + NameCount(names)
              /\ \A j \in 1..(q - 1) : ~IsHost(names[j])
              /\ Cell(pos) = names[q].kind /\ Cell(pos + 1) = Len(names[q].name)
              /\ After(pos + 1, limit) = b + 1 + NameOff(names)[q]
        BY <2>2
      <4> DEFINE names == client.exts[k].names
                 b == ExtAt(client)[k - 1] + 2
      <4>2. PICK q \in 1..Len(names) :
              /\ FirstList(k) /\ limit = b + NameCount(names)
              /\ \A j \in 1..(q - 1) : ~IsHost(names[j])
              /\ Cell(pos) = names[q].kind /\ Cell(pos + 1) = Len(names[q].name)
              /\ After(pos + 1, limit) = b + 1 + NameOff(names)[q]
        BY <4>1
      <4>3. ~IsHost(names[q])
        BY <2>4, <4>2 DEF IsHost
      <4>4. \A j \in 1..q : ~IsHost(names[j])
        <5>1. \A j \in 1..q : j \in 1..(q - 1) \/ j = q
          OBVIOUS
        <5> QED
          BY <4>2, <4>3, <5>1
      <4>5. q \in 0..Len(names)
        OBVIOUS
      <4> QED
        BY <2>2, <3>1, <4>2, <4>4, <4>5
    <3>6. ExtInv' /\ EndInv'
      BY <1>1, <3>1 DEF ExtInv, EndInv
    <3> QED
      BY <3>2, <3>3, <3>4, <3>5, <3>6 DEF PeekInv
  <2> QED
    BY <2>3, <2>4
<1> QED
  BY <1>8, <1>9

\* Until the ClientHello is looked into there is nothing to be wrong about it.
LEMMA BeforeHello ==
    ASSUME PeekInv, FrameInv', UNCHANGED <<sent, reader, name>>, FitsInv',
           at \in {"header", "open", "walk", "join"},
           at' \in {"open", "walk", "join", "some", "none", "cut"},
           at' # "none" => LongHeaderOk(datagram), at' = "none" => crypto' = <<>>
    PROVE  PeekInv'
<1>1. SentInv'
  BY DEF PeekInv, SentInv, sent, Hello
<1>2. HeaderInv'
  <2>1. LongHeaderOk(datagram)' = LongHeaderOk(datagram)
    BY DEF sent, LongHeaderOk, initial_type
  <2> QED
    BY <2>1 DEF PeekInv, HeaderInv
<1>3. ReaderInv' /\ ExtInv' /\ NameInv'
  BY DEF ReaderInv, ExtInv, NameInv
<1>4. EndInv'
  <2>1. Len(hello) >= 7 /\ Len(hello) \in Nat
    BY HelloType DEF PeekInv
  <2>2. at' = "none" => Len(crypto') = 0 /\ hello' = hello
    BY DEF sent
  <2>3. at' = "none" => Len(crypto') # Len(hello')
    BY <2>1, <2>2
  <2> QED
    BY <2>3 DEF EndInv
<1> QED
  BY <1>1, <1>2, <1>3, <1>4 DEF PeekInv

\* The header and the opening of the packet.
LEMMA HeaderStep == ASSUME PeekInv, parse_long_header \/ open PROVE PeekInv'
<1>1. /\ at \in {"header", "open"} /\ UNCHANGED <<count, pieces, crypto, seen, sent, reader, name>>
      /\ at' \in {"open", "walk", "none"}
      /\ at' # "none" => LongHeaderOk(datagram)
  BY DEF parse_long_header, open, PeekInv, HeaderInv
<1>2. seen = {} /\ crypto = <<>>
  BY <1>1 DEF PeekInv, FrameInv, EarlyInv
<1>3. pieces = {}
  BY <1>2 DEF PeekInv, FrameInv, FrameType
<1>4. EarlyInv'
  BY <1>1, <1>2 DEF EarlyInv
<1>5. FrameInv' /\ FitsInv'
  BY <1>1, <1>2, <1>3, <1>4, FramesStay DEF PeekInv, FitsInv
<1> QED
  BY <1>1, <1>2, <1>5, BeforeHello

\* The reassembly.
LEMMA ReassembleStep == ASSUME PeekInv, Reassemble PROVE PeekInv'
<1>1. UNCHANGED <<sent, reader, name>> /\ FrameStep
  BY DEF Reassemble, FrameStep
<1>2. FrameInv'
  BY <1>1, FramesKept DEF PeekInv
<1>3. /\ at \in {"walk", "join"} /\ at' \in {"walk", "join", "some", "none", "cut"}
      /\ at' = "none" => crypto' = <<>>
  BY DEF Reassemble, ReadCrypto, SkipFrame, Truncated, EndWalk, Join, Finish, vars
<1>4. LongHeaderOk(datagram)
  BY <1>3 DEF PeekInv, HeaderInv
<1>5. FitsInv'
  <2>1. ASSUME NEW f \in Cuts, f.offset + f.len <= Len(hello), ReadCrypto(f.offset, f.len)
        PROVE  FitsInv'
    BY <1>1, <2>1 DEF PeekInv, FitsInv, ReadCrypto, sent
  <2>2. CASE seen' = seen
    BY <1>1, <2>2 DEF PeekInv, FitsInv, sent
  <2> QED
    BY <2>1, <2>2 DEF Reassemble, SkipFrame, Truncated, EndWalk, Join, Finish, vars
<1> QED
  BY <1>1, <1>2, <1>3, <1>4, <1>5, BeforeHello

\* The inductive invariant of the peek.
LEMMA PeekInvariance == PeekSpec => []PeekInv
<1>1. PeekInit => PeekInv
  <2> SUFFICES ASSUME PeekInit PROVE PeekInv
    OBVIOUS
  <2>1. FrameInv
    BY FramesAssumption DEF PeekInit, FrameInv, FrameType, InPlace, JoinedInv, HoleInv,
       CoverInv, EarlyInv, Results
  <2>2. SentInv /\ FitsInv /\ HeaderInv /\ ReaderInv /\ ExtInv /\ NameInv /\ EndInv
    BY DEF PeekInit, SentInv, FitsInv, HeaderInv, ReaderInv, ExtInv, NameInv, EndInv
  <2> QED
    BY <2>1, <2>2 DEF PeekInv
<1>2. PeekInv /\ [PeekNext]_peekVars => PeekInv'
  <2> SUFFICES ASSUME PeekInv, [PeekNext]_peekVars PROVE PeekInv'
    OBVIOUS
  <2>1. CASE UNCHANGED peekVars
    <3>1. FrameInv' /\ HeaderInv'
      BY <2>1 DEF peekVars, frames, sent, reader, PeekInv, FrameInv, FrameType, InPlace,
         JoinedInv, HoleInv, CoverInv, EarlyInv, HeaderInv, LongHeaderOk, initial_type
    <3>2. SentInv' /\ FitsInv' /\ ReaderInv'
      BY <2>1 DEF peekVars, frames, sent, reader, PeekInv, SentInv, FitsInv, ReaderInv, Hello
    <3>a. Offered' = Offered /\ Honest' = Honest
      BY <2>1 DEF peekVars, sent, Offered, Honest
    <3>3. ExtInv' /\ EndInv'
      BY <2>1, <3>a DEF peekVars, frames, sent, reader, PeekInv, ExtInv, EndInv
    <3>4. NameInv'
      BY <2>1 DEF peekVars, frames, sent, reader, PeekInv, NameInv, Honest, FirstList
    <3> QED
      BY <3>1, <3>2, <3>3, <3>4 DEF PeekInv
  <2>2. CASE parse_long_header \/ open
    BY <2>2, HeaderStep
  <2>3. CASE Reassemble
    BY <2>3, ReassembleStep
  <2>4. CASE HelloHeader
    BY <2>4, HelloStep
  <2>5. CASE NextExtension
    BY <2>5, ExtensionStep
  <2>6. CASE NextName
    BY <2>6, NameStep
  <2> QED
    BY <2>1, <2>2, <2>3, <2>4, <2>5, <2>6 DEF PeekNext, Returned
<1> QED
  BY <1>1, <1>2, PTL DEF PeekSpec

\* All of the ClientHello is in hand exactly if all of it was joined.
LEMMA InHandIs ==
    ASSUME PeekInv, at \in {"named", "none"}
    PROVE  InHand <=> Len(crypto) = Len(hello)
<1>1. Len(crypto) \in Nat /\ Len(hello) \in Nat /\ Len(crypto) <= Len(hello)
  BY CryptoFits, HelloType DEF PeekInv
<1>2. ASSUME InHand, Len(crypto) # Len(hello) PROVE FALSE
  <2>1. Len(crypto) \in 0..(Len(hello) - 1)
    BY <1>1, <1>2
  <2>2. PICK p \in seen : p.offset <= Len(crypto) /\ Len(crypto) < p.offset + p.len
    BY <1>2, <2>1 DEF InHand
  <2> QED
    BY <2>2, ResultEnds DEF PeekInv, Results
<1>3. ASSUME Len(crypto) = Len(hello) PROVE InHand
  BY <1>3 DEF InHand, PeekInv, FrameInv, CoverInv
<1> QED
  BY <1>2, <1>3

\* Every byte that the peek hands to the parser of the ClientHello is the one of its
\* position, whatever the frames of the packet.
THEOREM PeekBytesInPlace == PeekSpec => []InPlace
<1>1. PeekInv => InPlace
  BY DEF PeekInv, FrameInv
<1> QED
  BY <1>1, PeekInvariance, PTL

\* And the peek joins all that the packet holds before its first hole.
THEOREM PeekMissesNothing == PeekSpec => []NothingMissed
<1>1. PeekInv => NothingMissed
  BY ResultEnds DEF PeekInv, NothingMissed, Results
<1> QED
  BY <1>1, PeekInvariance, PTL

\* peek_server_name returns the first usable name of the first server_name extension,
\* and returns it exactly if the frames hold the whole ClientHello between them.
THEOREM PeekIsExact == PeekSpec => []PeekExact
<1>1. PeekInv => PeekExact
  <2> SUFFICES ASSUME PeekInv, at \in {"named", "none"}, client.damage = None
               PROVE  name = IF InHand THEN Offered ELSE None
    BY DEF PeekExact
  <2>1. InHand <=> Len(crypto) = Len(hello)
    BY InHandIs
  <2>2. CASE at = "named"
    BY <2>1, <2>2 DEF PeekInv, EndInv, Honest
  <2>3. CASE at = "none"
    <3>1. name = None
      BY <2>3 DEF PeekInv, HeaderInv
    <3>2. Len(crypto) # Len(hello) \/ Offered = None
      BY <2>3 DEF PeekInv, EndInv, Honest
    <3> QED
      BY <2>1, <3>1, <3>2
  <2> QED
    BY <2>2, <2>3
<1> QED
  BY <1>1, PeekInvariance, PTL

\* Whatever a ClientHello claims of its lengths, its readers keep to what was joined.
THEOREM PeekStaysInside == PeekSpec => []StaysInside
<1>1. PeekInv => StaysInside
  BY DEF PeekInv, ReaderInv, StaysInside
<1> QED
  BY <1>1, PeekInvariance, PTL

\* A datagram that names a server passes is_quic_initial if it is full-sized.
THEOREM NamedKnocks == PeekSpec => []NamedIsKnock
<1>1. PeekInv => NamedIsKnock
  BY DEF PeekInv, HeaderInv, NamedIsKnock, is_quic_initial, LongHeaderOk, initial_type
<1> QED
  BY <1>1, PeekInvariance, PTL
=============================================================================
