--------------------------- MODULE BuffersProofs ---------------------------
(***************************************************************************)
(* For any names, elements, vectors, lent blocks and bounds: a buffer      *)
(* behaves as a private value however cheaply it was cloned, and a join is *)
(* made once.                                                              *)
(***************************************************************************)
EXTENDS Buffers, SequenceTheorems, FiniteSetTheorems, TLAPS

(* The buffers, the vectors and the joins are looked at before and after   *)
(* what nobody holds is let go: what a buffer holds is read off any of     *)
(* them.                                                                   *)
PlainOf(b, h, bl) ==
  CASE b.is = "empty"   -> <<>>
    [] b.is = "one"     -> <<b.elem>>
    [] b.is = "owned"   -> h[b.vec]
    [] b.is = "slice"   -> SubSeq(h[b.vec], b.off + 1, b.off + b.len)
    [] b.is = "foreign" -> SubSeq(bl[b.ptr], b.off + 1, b.off + b.len)

JoinOf(c, h, bl) ==
  IF c.flat # None THEN h[c.flat] ELSE PlainOf(c.parts[1], h, bl) \o PlainOf(c.parts[2], h, bl)

ContentOf(b, h, js, bl) == IF b.is = "cols" THEN JoinOf(js[b.join], h, bl) ELSE PlainOf(b, h, bl)

Vectored(b)   == b.is \in {"owned", "slice"}
Bufs(h, js)   == Plains(h) \cup {Cols(j) : j \in DOMAIN js}
JoinsOver(h)  == [parts : Plains(h) \X Plains(h), flat : {None} \cup DOMAIN h]
Sequence(s)   == s \in Seq(Elements) /\ Len(s) <= LEN

SoundHeap(h)      == DOMAIN h \subseteq Allocs /\ \A a \in DOMAIN h : Sequence(h[a])
SoundJoins(h, js) == DOMAIN js \subseteq Joins /\ \A j \in DOMAIN js : js[j] \in JoinsOver(h)
SoundBlock(bl)    == bl \in [Blocks -> {s \in Seq(Elements) : Len(s) = LEN}]
Sound(bufs, h, js) ==
  bufs \in [Names -> {None} \cup Bufs(h, js)] /\ SoundHeap(h) /\ SoundJoins(h, js)

LEMMA TypeIsSound == TypeOK <=> Sound(buf, heap, joins) /\ SoundBlock(block)
BY DEF TypeOK, Sound, SoundHeap, SoundJoins, SoundBlock, Bufs, JoinsOver, Sequence

LEMMA PlainsAre ==
  ASSUME NEW h, NEW b
  PROVE  b \in Plains(h) <=>
           \/ b = Empty
           \/ \E e \in Elements : b = One(e)
           \/ \E a \in DOMAIN h : b = Owned(a)
           \/ \E a \in DOMAIN h, o \in 0 .. LEN, n \in 0 .. LEN : b = Slice(a, o, n) /\ o + n <= Len(h[a])
           \/ \E p \in Blocks, o \in 0 .. LEN, n \in 0 .. LEN : b = Foreign(p, o, n, p) /\ o + n <= LEN
<1>1. \A a, o, n : Slice(a, o, n).off = o /\ Slice(a, o, n).len = n /\ Slice(a, o, n).vec = a
  BY DEF Slice
<1>2. \A p, o, n : Foreign(p, o, n, p).off = o /\ Foreign(p, o, n, p).len = n
  BY DEF Foreign
<1> QED
  BY <1>1, <1>2 DEF Plains

(* A plain buffer is what its storage makes it.                            *)
LEMMA PlainElsewhere ==
  ASSUME NEW h, NEW b \in Plains(h), NEW g, NEW bl, NEW blg,
         Vectored(b) => b.vec \in DOMAIN g /\ g[b.vec] = h[b.vec],
         b.is = "foreign" => blg[b.ptr] = bl[b.ptr]
  PROVE  b \in Plains(g) /\ PlainOf(b, g, blg) = PlainOf(b, h, bl)
<1>1. CASE b = Empty
  BY <1>1, PlainsAre DEF Empty, PlainOf
<1>2. CASE \E e \in Elements : b = One(e)
  BY <1>2, PlainsAre DEF One, PlainOf
<1>3. CASE \E a \in DOMAIN h : b = Owned(a)
  BY <1>3, PlainsAre DEF Owned, PlainOf, Vectored
<1>4. CASE \E a \in DOMAIN h, o \in 0 .. LEN, n \in 0 .. LEN : b = Slice(a, o, n) /\ o + n <= Len(h[a])
  <2>1. PICK a \in DOMAIN h, o \in 0 .. LEN, n \in 0 .. LEN : b = Slice(a, o, n) /\ o + n <= Len(h[a])
    BY <1>4
  <2>2. b.is = "slice" /\ b.vec = a /\ b.off = o /\ b.len = n
    BY <2>1 DEF Slice
  <2>3. a \in DOMAIN g /\ g[a] = h[a]
    BY <2>2 DEF Vectored
  <2>4. b \in Plains(g)
    BY <2>1, <2>3, PlainsAre
  <2> QED
    BY <2>2, <2>3, <2>4 DEF PlainOf
<1>5. CASE \E p \in Blocks, o \in 0 .. LEN, n \in 0 .. LEN : b = Foreign(p, o, n, p) /\ o + n <= LEN
  <2>1. b \in Plains(g)
    BY <1>5, PlainsAre
  <2>2. b.is = "foreign"
    BY <1>5 DEF Foreign
  <2> QED
    BY <2>1, <2>2 DEF PlainOf
<1> QED
  BY <1>1, <1>2, <1>3, <1>4, <1>5, PlainsAre

LEMMA PlainVector ==
  ASSUME NEW h, NEW b \in Plains(h)
  PROVE  /\ b.is \in {"empty", "one", "owned", "slice", "foreign"}
         /\ Vectored(b) => b.vec \in DOMAIN h
         /\ b.is = "foreign" => b.ptr \in Blocks /\ b.owner = b.ptr
BY PlainsAre DEF Empty, One, Owned, Slice, Foreign, Vectored

LEMMA Windows ==
  ASSUME NEW s \in Seq(Elements), NEW o \in Nat, NEW n \in Nat, o + n <= Len(s)
  PROVE  /\ SubSeq(s, o + 1, o + n) \in Seq(Elements) /\ Len(SubSeq(s, o + 1, o + n)) = n
         /\ \A i \in 1 .. n : SubSeq(s, o + 1, o + n)[i] = s[o + i]
OBVIOUS

LEMMA PlainSequence ==
  ASSUME NEW h, SoundHeap(h), NEW bl, SoundBlock(bl), NEW b \in Plains(h)
  PROVE  Sequence(PlainOf(b, h, bl))
<1> USE BuffersAssumption
<1>1. CASE b = Empty
  BY <1>1 DEF Empty, PlainOf, Sequence
<1>2. CASE \E e \in Elements : b = One(e)
  BY <1>2 DEF One, PlainOf, Sequence
<1>3. CASE \E a \in DOMAIN h : b = Owned(a)
  BY <1>3 DEF Owned, PlainOf, SoundHeap
<1>4. CASE \E a \in DOMAIN h, o \in 0 .. LEN, n \in 0 .. LEN : b = Slice(a, o, n) /\ o + n <= Len(h[a])
  <2>1. PICK a \in DOMAIN h, o \in 0 .. LEN, n \in 0 .. LEN : b = Slice(a, o, n) /\ o + n <= Len(h[a])
    BY <1>4
  <2>2. b.is = "slice" /\ b.vec = a /\ b.off = o /\ b.len = n
    BY <2>1 DEF Slice
  <2>3. h[a] \in Seq(Elements)
    BY DEF SoundHeap, Sequence
  <2>4. PlainOf(b, h, bl) = SubSeq(h[a], o + 1, o + n)
    BY <2>2 DEF PlainOf
  <2> QED
    BY <2>1, <2>3, <2>4, Windows DEF Sequence
<1>5. CASE \E p \in Blocks, o \in 0 .. LEN, n \in 0 .. LEN : b = Foreign(p, o, n, p) /\ o + n <= LEN
  <2>1. PICK p \in Blocks, o \in 0 .. LEN, n \in 0 .. LEN : b = Foreign(p, o, n, p) /\ o + n <= LEN
    BY <1>5
  <2>2. b.is = "foreign" /\ b.ptr = p /\ b.off = o /\ b.len = n
    BY <2>1 DEF Foreign
  <2>3. bl[p] \in Seq(Elements) /\ Len(bl[p]) = LEN
    BY DEF SoundBlock
  <2>4. PlainOf(b, h, bl) = SubSeq(bl[p], o + 1, o + n)
    BY <2>2 DEF PlainOf
  <2> QED
    BY <2>1, <2>3, <2>4, Windows DEF Sequence
<1> QED
  BY <1>1, <1>2, <1>3, <1>4, <1>5, PlainsAre
-----------------------------------------------------------------------------
(* Who holds a vector: names, parts of joins, and joins that have been     *)
(* made.                                                                   *)
NamesOf(a, bufs) == {n \in Names : bufs[n] # None /\ bufs[n].is \in {"owned", "slice"} /\ bufs[n].vec = a}
PartsOf(a, js)   == {p \in (DOMAIN js) \X {1, 2} :
                      LET b == js[p[1]].parts[p[2]] IN b.is \in {"owned", "slice"} /\ b.vec = a}
FlatsOf(a, js)   == {j \in DOMAIN js : js[j].flat = a}

LEMMA HoldersCounted ==
  ASSUME NEW a, NEW bufs, NEW js, DOMAIN js \subseteq Joins
  PROVE  /\ Holders(a, bufs, js) \in Nat
         /\ Holders(a, bufs, js) > 0 <=> NamesOf(a, bufs) # {} \/ PartsOf(a, js) # {} \/ FlatsOf(a, js) # {}
         /\ \A n : n \in NamesOf(a, bufs) /\ Holders(a, bufs, js) = 1 =>
              NamesOf(a, bufs) = {n} /\ PartsOf(a, js) = {} /\ FlatsOf(a, js) = {}
<1>1. IsFiniteSet(NamesOf(a, bufs))
  BY BuffersAssumption, FS_Subset DEF NamesOf
<1>2. IsFiniteSet(FlatsOf(a, js))
  BY BuffersAssumption, FS_Subset DEF FlatsOf
<1>3. IsFiniteSet(PartsOf(a, js))
  <2>1. IsFiniteSet(DOMAIN js)
    BY BuffersAssumption, FS_Subset
  <2>2. IsFiniteSet({1, 2})
    <3>1. IsFiniteSet({1}) /\ {1, 2} = {1} \cup {2}
      BY FS_Singleton
    <3> QED
      BY <3>1, FS_AddElement
  <2>3. IsFiniteSet((DOMAIN js) \X {1, 2})
    BY <2>1, <2>2, FS_Product
  <2> QED
    BY <2>3, FS_Subset DEF PartsOf
<1> DEFINE x == Cardinality(NamesOf(a, bufs))
           y == Cardinality(PartsOf(a, js))
           z == Cardinality(FlatsOf(a, js))
<1>4. x \in Nat /\ y \in Nat /\ z \in Nat
  BY <1>1, <1>2, <1>3, FS_CardinalityType
<1>5. (x = 0 <=> NamesOf(a, bufs) = {}) /\ (y = 0 <=> PartsOf(a, js) = {}) /\ (z = 0 <=> FlatsOf(a, js) = {})
  BY <1>1, <1>2, <1>3, FS_EmptySet
<1>6. x = 1 <=> \E n : NamesOf(a, bufs) = {n}
  BY <1>1, FS_Singleton
<1>7. Holders(a, bufs, js) = x + y + z
  BY DEF Holders, NamesOf, PartsOf, FlatsOf
<1> HIDE DEF x, y, z
<1>8. Holders(a, bufs, js) \in Nat /\ (Holders(a, bufs, js) > 0 <=> x # 0 \/ y # 0 \/ z # 0)
  BY <1>4, <1>7
<1>9. ASSUME NEW n \in NamesOf(a, bufs), Holders(a, bufs, js) = 1
      PROVE  NamesOf(a, bufs) = {n} /\ PartsOf(a, js) = {} /\ FlatsOf(a, js) = {}
  <2>1. x = 1 /\ y = 0 /\ z = 0
    BY <1>4, <1>5, <1>7, <1>9
  <2> QED
    BY <1>5, <1>6, <2>1
<1> QED
  BY <1>5, <1>8, <1>9

(* Letting go of what nobody holds loses nothing a name can reach.         *)
LEMMA BecomeKeeps ==
  ASSUME NEW bufs, NEW h, NEW js, Sound(bufs, h, js), Become(bufs, h, js)
  PROVE  /\ buf' = bufs /\ Sound(buf', heap', joins')
         /\ \A bl : \A n \in Names : bufs[n] # None =>
              ContentOf(bufs[n], heap', joins', bl) = ContentOf(bufs[n], h, js, bl)
         /\ DOMAIN joins' \subseteq DOMAIN js
         /\ \A j \in DOMAIN joins' : joins'[j] = js[j]
         /\ \A a \in DOMAIN heap' : a \in DOMAIN h /\ heap'[a] = h[a]
<1>1. /\ buf' = bufs
      /\ joins' = [j \in Held(bufs) |-> js[j]]
      /\ heap' = [a \in {a \in DOMAIN h : Holders(a, bufs, joins') > 0} |-> h[a]]
  BY DEF Become
<1>2. DOMAIN joins' = Held(bufs) /\ \A j \in DOMAIN joins' : joins'[j] = js[j]
  BY <1>1
<1>3. ASSUME NEW n \in Names, bufs[n] # None
      PROVE  \/ bufs[n] \in Plains(h)
             \/ bufs[n].is = "cols" /\ bufs[n].join \in DOMAIN js /\ bufs[n] = Cols(bufs[n].join)
  <2>1. bufs[n] \in Plains(h) \/ \E j \in DOMAIN js : bufs[n] = Cols(j)
    BY <1>3 DEF Sound, Bufs
  <2>2. \A j : Cols(j).is = "cols" /\ Cols(j).join = j
    BY DEF Cols
  <2> QED
    BY <2>1, <2>2
<1>4. DOMAIN joins' \subseteq DOMAIN js
  <2> SUFFICES ASSUME NEW j \in Held(bufs) PROVE j \in DOMAIN js
    BY <1>2
  <2>1. PICK n \in Names : bufs[n] # None /\ bufs[n].is = "cols" /\ j = bufs[n].join
    BY DEF Held, Named
  <2> QED
    BY <1>3, <2>1, PlainVector
<1>5. \A n \in Names : bufs[n] # None /\ bufs[n].is = "cols" => bufs[n].join \in DOMAIN joins'
  BY <1>2 DEF Held, Named
<1>6. DOMAIN joins' \subseteq Joins
  BY <1>4 DEF Sound, SoundJoins
<1>7. \A a \in DOMAIN h : a \in DOMAIN heap' <=> Holders(a, bufs, joins') > 0
  BY <1>1
<1>8. \A a \in DOMAIN heap' : a \in DOMAIN h /\ heap'[a] = h[a]
  BY <1>1
<1>9. \A a \in DOMAIN h : NamesOf(a, bufs) # {} \/ PartsOf(a, joins') # {} \/ FlatsOf(a, joins') # {}
                            => a \in DOMAIN heap' /\ heap'[a] = h[a]
  <2> SUFFICES ASSUME NEW a \in DOMAIN h,
                      NamesOf(a, bufs) # {} \/ PartsOf(a, joins') # {} \/ FlatsOf(a, joins') # {}
               PROVE  a \in DOMAIN heap'
    BY <1>8
  <2>1. Holders(a, bufs, joins') > 0
    BY <1>6, HoldersCounted
  <2> QED
    BY <1>7, <2>1
<1>10. ASSUME NEW bl, NEW n \in Names, bufs[n] \in Plains(h), bufs[n] # None
       PROVE  bufs[n] \in Plains(heap') /\ PlainOf(bufs[n], heap', bl) = PlainOf(bufs[n], h, bl)
  <2>1. Vectored(bufs[n]) => bufs[n].vec \in DOMAIN h /\ n \in NamesOf(bufs[n].vec, bufs)
    BY <1>10, PlainVector DEF NamesOf, Vectored
  <2> QED
    BY <1>9, <1>10, <2>1, PlainElsewhere
<1>11. ASSUME NEW bl, NEW j \in DOMAIN joins', NEW i \in {1, 2}
       PROVE  /\ joins'[j].parts[i] \in Plains(heap')
              /\ PlainOf(joins'[j].parts[i], heap', bl) = PlainOf(js[j].parts[i], h, bl)
  <2>1. js[j] \in JoinsOver(h) /\ joins'[j] = js[j]
    BY <1>2, <1>4 DEF Sound, SoundJoins
  <2> DEFINE b == js[j].parts[i]
  <2>2. b \in Plains(h)
    BY <2>1 DEF JoinsOver
  <2>3. Vectored(b) => b.vec \in DOMAIN h /\ <<j, i>> \in PartsOf(b.vec, joins')
    BY <2>1, <2>2, PlainVector DEF PartsOf, Vectored
  <2> HIDE DEF b
  <2>4. b \in Plains(heap') /\ PlainOf(b, heap', bl) = PlainOf(b, h, bl)
    BY <1>9, <2>2, <2>3, PlainElsewhere
  <2> QED
    BY <2>1, <2>4 DEF b
<1>12. ASSUME NEW j \in DOMAIN joins', joins'[j].flat # None
       PROVE  joins'[j].flat \in DOMAIN heap' /\ heap'[joins'[j].flat] = h[js[j].flat]
  <2>1. js[j] \in JoinsOver(h) /\ joins'[j] = js[j]
    BY <1>2, <1>4 DEF Sound, SoundJoins
  <2>2. js[j].flat \in DOMAIN h /\ j \in FlatsOf(js[j].flat, joins')
    BY <1>12, <2>1 DEF JoinsOver, FlatsOf
  <2> QED
    BY <1>9, <2>1, <2>2
<1>13. \A j \in DOMAIN joins' : joins'[j] \in JoinsOver(heap')
  <2> SUFFICES ASSUME NEW j \in DOMAIN joins' PROVE joins'[j] \in JoinsOver(heap')
    OBVIOUS
  <2>1. js[j] \in JoinsOver(h) /\ joins'[j] = js[j]
    BY <1>2, <1>4 DEF Sound, SoundJoins
  <2>2. joins'[j].parts[1] \in Plains(heap') /\ joins'[j].parts[2] \in Plains(heap')
    BY <1>11
  <2>3. joins'[j].flat \in {None} \cup DOMAIN heap'
    BY <1>12
  <2> QED
    BY <2>1, <2>2, <2>3 DEF JoinsOver
<1>14. \A n \in Names : bufs[n] # None => bufs[n] \in Bufs(heap', joins')
  BY <1>3, <1>5, <1>10 DEF Bufs
<1>15. Sound(buf', heap', joins')
  BY <1>1, <1>6, <1>8, <1>13, <1>14 DEF Sound, SoundHeap, SoundJoins
<1>16. ASSUME NEW bl, NEW n \in Names, bufs[n] # None
       PROVE  ContentOf(bufs[n], heap', joins', bl) = ContentOf(bufs[n], h, js, bl)
  <2>1. CASE bufs[n] \in Plains(h)
    BY <1>10, <1>16, <2>1, PlainVector DEF ContentOf
  <2>2. CASE bufs[n].is = "cols"
    <3> DEFINE j == bufs[n].join
    <3>1. j \in DOMAIN joins' /\ joins'[j] = js[j]
      BY <1>2, <1>5, <1>16, <2>2
    <3> HIDE DEF j
    <3>2. JoinOf(joins'[j], heap', bl) = JoinOf(js[j], h, bl)
      BY <1>11, <1>12, <3>1 DEF JoinOf
    <3> QED
      BY <2>2, <3>2 DEF ContentOf, j
  <2> QED
    BY <1>3, <1>16, <2>1, <2>2
<1> QED
  BY <1>1, <1>2, <1>4, <1>8, <1>15, <1>16
-----------------------------------------------------------------------------
(* Slices of sequences.                                                    *)
LEMMA Same ==
  ASSUME NEW S, NEW s \in Seq(S), NEW r \in Seq(S), Len(s) = Len(r), \A i \in 1 .. Len(s) : s[i] = r[i]
  PROVE  s = r
BY SeqEqual

LEMMA WindowOfWindow ==
  ASSUME NEW s \in Seq(Elements), NEW o \in Nat, NEW n \in Nat, o + n <= Len(s),
         NEW i \in Nat, NEW k \in Nat, i <= k, k <= n
  PROVE  SubSeq(s, o + i + 1, o + i + (k - i)) = SubSeq(SubSeq(s, o + 1, o + n), i + 1, k)
<1> DEFINE w == SubSeq(s, o + 1, o + n)
           l == SubSeq(s, o + i + 1, o + i + (k - i))
           r == SubSeq(w, i + 1, k)
<1>1. w \in Seq(Elements) /\ Len(w) = n /\ \A x \in 1 .. n : w[x] = s[o + x]
  BY Windows
<1>2. o + i \in Nat /\ k - i \in Nat /\ o + i + (k - i) <= Len(s) /\ i + (k - i) = k
  OBVIOUS
<1>3. l \in Seq(Elements) /\ Len(l) = k - i /\ \A x \in 1 .. k - i : l[x] = s[o + i + x]
  BY <1>2, Windows
<1> HIDE DEF w
<1>4. SubSeq(w, i + 1, i + (k - i)) = r
  BY <1>2
<1>5. r \in Seq(Elements) /\ Len(r) = k - i /\ \A x \in 1 .. k - i : r[x] = w[i + x]
  BY <1>1, <1>2, <1>4, Windows
<1> HIDE DEF l, r
<1>6. \A x \in 1 .. k - i : l[x] = r[x]
  <2> SUFFICES ASSUME NEW x \in 1 .. k - i PROVE l[x] = r[x]
    OBVIOUS
  <2>1. i + x \in 1 .. n /\ o + (i + x) = o + i + x
    BY <1>2
  <2>2. w[i + x] = s[o + (i + x)]
    BY <1>1, <2>1
  <2> QED
    BY <1>3, <1>5, <2>1, <2>2
<1>7. l = r
  BY <1>3, <1>5, <1>6, Same
<1> QED
  BY <1>7 DEF l, r, w

LEMMA WholeWindow ==
  ASSUME NEW s \in Seq(Elements)
  PROVE  SubSeq(s, 1, Len(s)) = s
<1>1. Len(s) \in Nat /\ 0 + 1 = 1 /\ 0 + Len(s) = Len(s)
  OBVIOUS
<1>2. /\ SubSeq(s, 1, Len(s)) \in Seq(Elements) /\ Len(SubSeq(s, 1, Len(s))) = Len(s)
      /\ \A x \in 1 .. Len(s) : SubSeq(s, 1, Len(s))[x] = s[x]
  OBVIOUS
<1> QED
  BY <1>2, Same

LEMMA WindowOfJoin ==
  ASSUME NEW p \in Seq(Elements), NEW q \in Seq(Elements), NEW i \in Nat, NEW k \in Nat, i <= k
  PROVE  /\ k <= Len(p) => SubSeq(p \o q, i + 1, k) = SubSeq(p, i + 1, k)
         /\ Len(p) <= i /\ k <= Len(p) + Len(q)
              => SubSeq(p \o q, i + 1, k) = SubSeq(q, i - Len(p) + 1, k - Len(p))
<1> DEFINE s == p \o q
           l == SubSeq(s, i + 1, k)
<1>1. /\ s \in Seq(Elements) /\ Len(s) = Len(p) + Len(q)
      /\ \A x \in 1 .. Len(p) : s[x] = p[x]
      /\ \A x \in 1 .. Len(q) : s[Len(p) + x] = q[x]
  <2>1. s \in Seq(Elements) /\ Len(s) = Len(p) + Len(q)
    BY ConcatProperties
  <2>2. \A x \in 1 .. Len(p) + Len(q) : s[x] = IF x <= Len(p) THEN p[x] ELSE q[x - Len(p)]
    BY ConcatProperties
  <2>3. Len(p) \in Nat /\ Len(q) \in Nat
    OBVIOUS
  <2> HIDE DEF s
  <2>4. ASSUME NEW x \in 1 .. Len(q) PROVE s[Len(p) + x] = q[x]
    <3> DEFINE y == Len(p) + x
    <3>1. y \in 1 .. Len(p) + Len(q) /\ ~(y <= Len(p)) /\ y - Len(p) = x
      BY <2>3
    <3> HIDE DEF y
    <3>2. s[y] = q[x]
      BY <2>2, <3>1
    <3> QED
      BY <3>2 DEF y
  <2>5. ASSUME NEW x \in 1 .. Len(p) PROVE s[x] = p[x]
    <3>1. x \in 1 .. Len(p) + Len(q) /\ x <= Len(p)
      BY <2>3
    <3> QED
      BY <2>2, <3>1
  <2> QED
    BY <2>1, <2>4, <2>5
<1>2. Len(p) \in Nat /\ Len(q) \in Nat /\ k - i \in Nat /\ i + (k - i) = k
  OBVIOUS
<1> HIDE DEF s
<1>3. k <= Len(s) => l \in Seq(Elements) /\ Len(l) = k - i /\ \A x \in 1 .. k - i : l[x] = s[i + x]
  <2> SUFFICES ASSUME k <= Len(s) PROVE l \in Seq(Elements) /\ Len(l) = k - i /\ \A x \in 1 .. k - i : l[x] = s[i + x]
    OBVIOUS
  <2> DEFINE n == k - i
  <2>1. n \in Nat /\ i + n = k /\ i + n <= Len(s)
    BY <1>2
  <2> HIDE DEF n
  <2>2. /\ SubSeq(s, i + 1, i + n) \in Seq(Elements) /\ Len(SubSeq(s, i + 1, i + n)) = n
        /\ \A x \in 1 .. n : SubSeq(s, i + 1, i + n)[x] = s[i + x]
    BY <1>1, <2>1, Windows
  <2> QED
    BY <2>1, <2>2 DEF n
<1> HIDE DEF l
<1>4. ASSUME k <= Len(p) PROVE l = SubSeq(p, i + 1, k)
  <2> DEFINE r == SubSeq(p, i + 1, k)
  <2>1. r \in Seq(Elements) /\ Len(r) = k - i /\ \A x \in 1 .. k - i : r[x] = p[i + x]
    BY <1>2, <1>4, Windows
  <2> HIDE DEF r
  <2>2. \A x \in 1 .. k - i : i + x \in 1 .. Len(p)
    BY <1>2, <1>4
  <2>3. k <= Len(s)
    BY <1>1, <1>2, <1>4
  <2>4. \A x \in 1 .. k - i : l[x] = r[x]
    BY <1>1, <1>3, <2>1, <2>2, <2>3
  <2>5. l = r
    BY <1>3, <2>1, <2>3, <2>4, Same
  <2> QED
    BY <2>5 DEF r
<1>5. ASSUME Len(p) <= i, k <= Len(p) + Len(q) PROVE l = SubSeq(q, i - Len(p) + 1, k - Len(p))
  <2> DEFINE f == i - Len(p)
             n == k - i
             r == SubSeq(q, f + 1, f + n)
  <2>1. f \in Nat /\ n \in Nat /\ f + n = k - Len(p) /\ f + n <= Len(q)
    BY <1>2, <1>5
  <2>2. \A x \in 1 .. n : f + x \in 1 .. Len(q) /\ Len(p) + (f + x) = i + x
    BY <1>2, <1>5
  <2>3. k <= Len(s)
    BY <1>1, <1>5
  <2>4. l \in Seq(Elements) /\ Len(l) = n /\ \A x \in 1 .. n : l[x] = s[i + x]
    BY <1>3, <2>3
  <2> HIDE DEF f, n
  <2>5. r \in Seq(Elements) /\ Len(r) = n /\ \A x \in 1 .. n : r[x] = q[f + x]
    BY <2>1, Windows
  <2> HIDE DEF r
  <2>6. ASSUME NEW x \in 1 .. n PROVE l[x] = r[x]
    <3>1. s[Len(p) + (f + x)] = q[f + x]
      BY <1>1, <2>2
    <3> QED
      BY <2>2, <2>4, <2>5, <3>1
  <2>7. l = r
    BY <2>4, <2>5, <2>6, Same
  <2>8. r = SubSeq(q, f + 1, k - Len(p))
    BY <2>1 DEF r
  <2> QED
    BY <2>7, <2>8 DEF f
<1> QED
  BY <1>4, <1>5 DEF l, s
-----------------------------------------------------------------------------
(* A slice of a plain buffer is a view of what it was sliced from.         *)
LEMMA Parts ==
  ASSUME TypeOK, NEW a \in DOMAIN heap, NEW i \in Nat, NEW k \in Nat, i <= k, k <= Len(heap[a])
  PROVE  /\ Part(a, i, k) \in Plains(heap)
         /\ PlainOf(Part(a, i, k), heap, block) = SubSeq(heap[a], i + 1, k)
<1>1. heap[a] \in Seq(Elements) /\ Len(heap[a]) <= LEN /\ LEN \in Nat
  BY BuffersAssumption DEF TypeOK
<1>2. CASE i = 0 /\ k = Len(heap[a])
  <2>1. Part(a, i, k) = Owned(a) /\ Owned(a) \in Plains(heap)
    BY <1>2, PlainsAre DEF Part
  <2>2. PlainOf(Owned(a), heap, block) = heap[a]
    BY DEF PlainOf, Owned
  <2> QED
    BY <1>1, <1>2, <2>1, <2>2, WholeWindow
<1>3. CASE ~(i = 0 /\ k = Len(heap[a]))
  <2> DEFINE n == k - i
  <2>1. i \in 0 .. LEN /\ n \in 0 .. LEN /\ i + n = k
    BY <1>1
  <2>2. Part(a, i, k) = Slice(a, i, n)
    BY <1>3 DEF Part
  <2> HIDE DEF n
  <2>3. Slice(a, i, n) \in Plains(heap)
    BY <2>1, PlainsAre
  <2>4. PlainOf(Slice(a, i, n), heap, block) = SubSeq(heap[a], i + 1, i + n)
    BY DEF PlainOf, Slice
  <2> QED
    BY <2>1, <2>2, <2>3, <2>4
<1> QED
  BY <1>2, <1>3

LEMMA PlainSlices ==
  ASSUME TypeOK, NEW b \in Plains(heap), NEW i \in Nat, NEW k \in Nat, i <= k,
         k <= Len(PlainOf(b, heap, block))
  PROVE  /\ PlainSliced(b, i, k) \in Plains(heap)
         /\ PlainOf(PlainSliced(b, i, k), heap, block) = SubSeq(PlainOf(b, heap, block), i + 1, k)
<1> DEFINE s == PlainOf(b, heap, block)
<1>0. LEN \in Nat
  BY BuffersAssumption
<1>1. CASE b = Empty
  <2>1. b.is = "empty" /\ s = <<>>
    BY <1>1 DEF Empty, PlainOf
  <2>2. i = k
    BY <2>1
  <2>3. PlainSliced(b, i, k) = Empty
    BY <2>1, <2>2 DEF PlainSliced
  <2>4. SubSeq(s, i + 1, k) = <<>>
    BY <2>1, <2>2
  <2> QED
    BY <1>1, <2>1, <2>3, <2>4
<1>2. CASE \E e \in Elements : b = One(e)
  <2>1. PICK e \in Elements : b = One(e)
    BY <1>2
  <2>2. b.is = "one" /\ s = <<e>>
    BY <2>1 DEF One, PlainOf
  <2>3. CASE i = k
    <3>1. PlainSliced(b, i, k) = Empty /\ Empty \in Plains(heap)
      BY <2>2, <2>3, PlainsAre DEF PlainSliced
    <3>2. PlainOf(Empty, heap, block) = <<>>
      BY DEF Empty, PlainOf
    <3>3. SubSeq(s, i + 1, k) = <<>>
      BY <2>2, <2>3
    <3> QED
      BY <3>1, <3>2, <3>3
  <2>4. CASE i # k
    <3>1. PlainSliced(b, i, k) = b
      BY <2>2, <2>4 DEF PlainSliced
    <3>2. i = 0 /\ k = Len(s) /\ s \in Seq(Elements)
      BY <2>2, <2>4
    <3>3. SubSeq(s, 1, Len(s)) = s
      BY <3>2, WholeWindow
    <3> QED
      BY <3>1, <3>2, <3>3
  <2> QED
    BY <2>3, <2>4
<1>3. CASE \E a \in DOMAIN heap : b = Owned(a)
  <2>1. PICK a \in DOMAIN heap : b = Owned(a)
    BY <1>3
  <2>2. b.is = "owned" /\ b.vec = a
    BY <2>1 DEF Owned
  <2>3. s = heap[a]
    BY <2>2 DEF PlainOf
  <2>4. PlainSliced(b, i, k) = Part(a, i, k)
    BY <2>2 DEF PlainSliced
  <2> QED
    BY <2>3, <2>4, Parts
<1>4. CASE \E a \in DOMAIN heap, o \in 0 .. LEN, n \in 0 .. LEN : b = Slice(a, o, n) /\ o + n <= Len(heap[a])
  <2>1. PICK a \in DOMAIN heap, o \in 0 .. LEN, n \in 0 .. LEN : b = Slice(a, o, n) /\ o + n <= Len(heap[a])
    BY <1>4
  <2>2. b.is = "slice" /\ b.vec = a /\ b.off = o /\ b.len = n
    BY <2>1 DEF Slice
  <2>3. heap[a] \in Seq(Elements) /\ Len(heap[a]) <= LEN
    BY DEF TypeOK
  <2>4. s = SubSeq(heap[a], o + 1, o + n)
    BY <2>2 DEF PlainOf
  <2>5. k <= n
    BY <2>1, <2>3, <2>4, Windows
  <2> DEFINE l == k - i
  <2>6. o + i \in 0 .. LEN /\ l \in 0 .. LEN /\ o + i + l <= Len(heap[a])
    BY <1>0, <2>1, <2>3, <2>5
  <2>7. PlainSliced(b, i, k) = Slice(a, o + i, l)
    BY <2>2 DEF PlainSliced, Window
  <2>8. SubSeq(heap[a], o + i + 1, o + i + l) = SubSeq(SubSeq(heap[a], o + 1, o + n), i + 1, k)
    BY <2>1, <2>3, <2>5, WindowOfWindow
  <2> HIDE DEF l
  <2>9. Slice(a, o + i, l) \in Plains(heap)
    BY <2>6, PlainsAre
  <2>10. PlainOf(Slice(a, o + i, l), heap, block) = SubSeq(heap[a], o + i + 1, o + i + l)
    BY DEF PlainOf, Slice
  <2> QED
    BY <2>4, <2>7, <2>8, <2>9, <2>10
<1>5. CASE \E p \in Blocks, o \in 0 .. LEN, n \in 0 .. LEN : b = Foreign(p, o, n, p) /\ o + n <= LEN
  <2>1. PICK p \in Blocks, o \in 0 .. LEN, n \in 0 .. LEN : b = Foreign(p, o, n, p) /\ o + n <= LEN
    BY <1>5
  <2>2. b.is = "foreign" /\ b.ptr = p /\ b.off = o /\ b.len = n /\ b.owner = p
    BY <2>1 DEF Foreign
  <2>3. block[p] \in Seq(Elements) /\ Len(block[p]) = LEN
    BY DEF TypeOK
  <2>4. s = SubSeq(block[p], o + 1, o + n)
    BY <2>2 DEF PlainOf
  <2>5. k <= n
    BY <2>1, <2>3, <2>4, Windows
  <2> DEFINE l == k - i
  <2>6. o + i \in 0 .. LEN /\ l \in 0 .. LEN /\ o + i + l <= LEN
    BY <1>0, <2>1, <2>5
  <2>7. PlainSliced(b, i, k) = Foreign(p, o + i, l, p)
    BY <2>2 DEF PlainSliced, SliceOfForeign
  <2>8. SubSeq(block[p], o + i + 1, o + i + l) = SubSeq(SubSeq(block[p], o + 1, o + n), i + 1, k)
    BY <2>1, <2>3, <2>5, WindowOfWindow
  <2> HIDE DEF l
  <2>9. Foreign(p, o + i, l, p) \in Plains(heap)
    BY <2>6, PlainsAre
  <2>10. PlainOf(Foreign(p, o + i, l, p), heap, block) = SubSeq(block[p], o + i + 1, o + i + l)
    BY DEF PlainOf, Foreign
  <2> QED
    BY <2>4, <2>7, <2>8, <2>9, <2>10
<1> QED
  BY <1>1, <1>2, <1>3, <1>4, <1>5, PlainsAre
-----------------------------------------------------------------------------
(* What the steps keep: with the types, that a join has no more elements   *)
(* than a buffer may, and that the joins there are are those names hold.   *)
JoinsFit  == \A j \in DOMAIN joins : Len(JoinOf(joins[j], heap, block)) <= LEN
JoinsHeld == DOMAIN joins = Held(buf)
Inv       == TypeOK /\ JoinsFit /\ JoinsHeld

Val(n) == IF buf[n] = None THEN None ELSE AsSlice(buf[n])

LEMMA Contents ==
  ASSUME NEW b
  PROVE  /\ Plain(b) = PlainOf(b, heap, block)
         /\ AsSlice(b) = ContentOf(b, heap, joins, block)
BY DEF Plain, PlainOf, AsSlice, ContentOf, Joined, JoinOf

LEMMA ValIs ==
  ASSUME NEW n \in Names
  PROVE  /\ Val(n) = IF buf[n] = None THEN None ELSE ContentOf(buf[n], heap, joins, block)
         /\ Val(n)' = IF buf'[n] = None THEN None ELSE ContentOf(buf'[n], heap', joins', block')
<1>1. Val(n) = IF buf[n] = None THEN None ELSE ContentOf(buf[n], heap, joins, block)
  BY Contents DEF Val
<1>2. Val(n)' = IF buf'[n] = None THEN None ELSE ContentOf(buf'[n], heap', joins', block')
  BY DEF Val, PlainOf, Plain, AsSlice, ContentOf, Joined, JoinOf
<1> QED
  BY <1>1, <1>2

LEMMA ColsAre ==
  ASSUME NEW j
  PROVE  Cols(j).is = "cols" /\ Cols(j).join = j
BY DEF Cols

LEMMA BufThere ==
  ASSUME NEW h, NEW js, DOMAIN h \subseteq Allocs, DOMAIN js \subseteq Joins, NEW b \in Bufs(h, js)
  PROVE  b # None
<1>1. CASE b \in Plains(h)
  BY <1>1, PlainsAre, NoneAssumption
<1>2. CASE \E j \in DOMAIN js : b = Cols(j)
  BY <1>2, NoneAssumption
<1> QED
  BY <1>1, <1>2 DEF Bufs

(* The content of every buffer is a sequence no longer than a buffer is.   *)
LEMMA Measured ==
  ASSUME Inv, NEW b \in Bufs(heap, joins)
  PROVE  Sequence(AsSlice(b))
<1>1. SoundHeap(heap) /\ SoundJoins(heap, joins) /\ SoundBlock(block)
  BY TypeIsSound DEF Inv, Sound
<1>2. CASE b \in Plains(heap)
  <2>1. AsSlice(b) = PlainOf(b, heap, block)
    BY <1>2, Contents, PlainVector DEF ContentOf
  <2> QED
    BY <1>1, <1>2, <2>1, PlainSequence
<1>3. ASSUME NEW j \in DOMAIN joins, b = Cols(j) PROVE Sequence(AsSlice(b))
  <2>1. AsSlice(b) = JoinOf(joins[j], heap, block)
    BY <1>3, Contents, ColsAre DEF ContentOf
  <2>2. joins[j] \in JoinsOver(heap)
    BY <1>1 DEF SoundJoins
  <2> DEFINE c == joins[j]
  <2>3. c.parts[1] \in Plains(heap) /\ c.parts[2] \in Plains(heap) /\ c.flat \in {None} \cup DOMAIN heap
    BY <2>2 DEF JoinsOver
  <2>4. Len(JoinOf(c, heap, block)) <= LEN
    BY DEF Inv, JoinsFit
  <2> HIDE DEF c
  <2>5. ASSUME c.flat # None PROVE Sequence(JoinOf(c, heap, block))
    BY <1>1, <2>3, <2>5 DEF JoinOf, SoundHeap
  <2>6. ASSUME c.flat = None PROVE Sequence(JoinOf(c, heap, block))
    <3> DEFINE p == PlainOf(c.parts[1], heap, block)
               q == PlainOf(c.parts[2], heap, block)
    <3>1. Sequence(p) /\ Sequence(q)
      BY <1>1, <2>3, PlainSequence
    <3>2. JoinOf(c, heap, block) = p \o q
      BY <2>6 DEF JoinOf
    <3> HIDE DEF p, q
    <3>3. p \in Seq(Elements) /\ q \in Seq(Elements)
      BY <3>1 DEF Sequence
    <3>4. p \o q \in Seq(Elements)
      BY <3>3, ConcatProperties
    <3> QED
      BY <2>4, <3>2, <3>4 DEF Sequence
  <2> QED
    BY <2>1, <2>5, <2>6 DEF c
<1> QED
  BY <1>2, <1>3 DEF Bufs

(* A slice of a buffer is a view of what it was sliced from.               *)
LEMMA Slices ==
  ASSUME Inv, NEW b \in Bufs(heap, joins), NEW i \in Nat, NEW k \in Nat, i <= k,
         k <= Len(AsSlice(b)), Sliced(b, i, k) # None
  PROVE  /\ Sliced(b, i, k) \in Plains(heap)
         /\ AsSlice(Sliced(b, i, k)) = SubSeq(AsSlice(b), i + 1, k)
<1>1. SoundHeap(heap) /\ SoundJoins(heap, joins) /\ SoundBlock(block) /\ TypeOK
  BY TypeIsSound DEF Inv, Sound
<1>2. /\ Sliced(b, i, k) \in Plains(heap)
      /\ PlainOf(Sliced(b, i, k), heap, block) = SubSeq(AsSlice(b), i + 1, k)
  <2>1. CASE b \in Plains(heap)
    <3>1. AsSlice(b) = PlainOf(b, heap, block) /\ Sliced(b, i, k) = PlainSliced(b, i, k)
      BY <2>1, Contents, PlainVector DEF ContentOf, Sliced
    <3> QED
      BY <1>1, <2>1, <3>1, PlainSlices
  <2>2. ASSUME NEW j \in DOMAIN joins, b = Cols(j)
        PROVE  /\ Sliced(b, i, k) \in Plains(heap)
               /\ PlainOf(Sliced(b, i, k), heap, block) = SubSeq(AsSlice(b), i + 1, k)
    <3>1. AsSlice(b) = JoinOf(joins[j], heap, block) /\ Sliced(b, i, k) = JoinSliced(joins[j], i, k)
      BY <2>2, Contents, ColsAre DEF ContentOf, Sliced
    <3>2. joins[j] \in JoinsOver(heap)
      BY <1>1 DEF SoundJoins
    <3> DEFINE c == joins[j]
    <3>3. c.parts[1] \in Plains(heap) /\ c.parts[2] \in Plains(heap) /\ c.flat \in {None} \cup DOMAIN heap
      BY <3>2 DEF JoinsOver
    <3> HIDE DEF c
    <3>4. CASE c.flat # None
      <4>1. JoinOf(c, heap, block) = heap[c.flat] /\ JoinSliced(c, i, k) = Part(c.flat, i, k)
        BY <3>4 DEF JoinOf, JoinSliced
      <4>2. k <= Len(heap[c.flat]) /\ c.flat \in DOMAIN heap
        BY <3>1, <3>3, <3>4, <4>1 DEF c
      <4> QED
        BY <1>1, <3>1, <4>1, <4>2, Parts DEF c
    <3>5. CASE c.flat = None
      <4> DEFINE p == PlainOf(c.parts[1], heap, block)
                 q == PlainOf(c.parts[2], heap, block)
      <4>1. Sequence(p) /\ Sequence(q)
        BY <1>1, <3>3, PlainSequence
      <4>2. AsSlice(b) = p \o q
        BY <3>1, <3>5 DEF JoinOf, c
      <4>3. Plain(c.parts[1]) = p
        BY Contents
      <4>4. p \in Seq(Elements) /\ q \in Seq(Elements) /\ Len(p) \in Nat /\ Len(q) \in Nat
        BY <4>1 DEF Sequence
      <4> HIDE DEF p, q
      <4>5. Len(p \o q) = Len(p) + Len(q)
        BY <4>4, ConcatProperties
      <4>6. CASE k <= Len(p)
        <5>1. JoinSliced(c, i, k) = PlainSliced(c.parts[1], i, k)
          BY <3>5, <4>3, <4>6 DEF JoinSliced
        <5>2. /\ PlainSliced(c.parts[1], i, k) \in Plains(heap)
              /\ PlainOf(PlainSliced(c.parts[1], i, k), heap, block) = SubSeq(p, i + 1, k)
          BY <1>1, <3>3, <4>6, PlainSlices DEF p
        <5>3. SubSeq(p \o q, i + 1, k) = SubSeq(p, i + 1, k)
          BY <4>4, <4>6, WindowOfJoin
        <5> QED
          BY <3>1, <4>2, <5>1, <5>2, <5>3 DEF c
      <4>7. CASE k > Len(p) /\ i >= Len(p)
        <5> DEFINE f == i - Len(p)
                   g == k - Len(p)
        <5>1. f \in Nat /\ g \in Nat /\ f <= g /\ g <= Len(q) /\ k <= Len(p) + Len(q) /\ Len(p) <= i
          BY <4>2, <4>4, <4>5, <4>7
        <5>2. JoinSliced(c, i, k) = PlainSliced(c.parts[2], f, g)
          <6>1. ~(k <= Len(p))
            BY <4>4, <4>7
          <6> QED
            BY <3>5, <4>3, <4>7, <6>1 DEF JoinSliced
        <5>3. SubSeq(p \o q, i + 1, k) = SubSeq(q, f + 1, g)
          BY <4>4, <5>1, WindowOfJoin
        <5> HIDE DEF f, g
        <5>4. /\ PlainSliced(c.parts[2], f, g) \in Plains(heap)
              /\ PlainOf(PlainSliced(c.parts[2], f, g), heap, block) = SubSeq(q, f + 1, g)
          BY <1>1, <3>3, <5>1, PlainSlices DEF q
        <5> QED
          BY <3>1, <4>2, <5>2, <5>3, <5>4 DEF c
      <4>8. CASE k > Len(p) /\ ~(i >= Len(p))
        <5>1. ~(k <= Len(p))
          BY <4>4, <4>8
        <5>2. JoinSliced(c, i, k) = None
          BY <3>5, <4>3, <4>8, <5>1 DEF JoinSliced
        <5> QED
          BY <3>1, <5>2 DEF c
      <4> QED
        BY <4>4, <4>6, <4>7, <4>8
    <3> QED
      BY <3>4, <3>5
  <2> QED
    BY <2>1, <2>2 DEF Bufs
<1>3. AsSlice(Sliced(b, i, k)) = PlainOf(Sliced(b, i, k), heap, block)
  BY <1>2, Contents, PlainVector DEF ContentOf
<1> QED
  BY <1>2, <1>3
-----------------------------------------------------------------------------
(* Storage grows: what was there stays, a join made stays what it was, and *)
(* a join not made yet has the parts it had and the content it had.        *)
Grows(h, js) ==
  /\ SoundHeap(h) /\ SoundJoins(h, js)
  /\ \A a \in DOMAIN heap : a \in DOMAIN h /\ h[a] = heap[a]
  /\ \A j \in DOMAIN js : Len(JoinOf(js[j], h, block)) <= LEN
  /\ \A j \in DOMAIN joins : /\ j \in DOMAIN js
                             /\ js[j].parts = joins[j].parts
                             /\ joins[j].flat # None => js[j].flat = joins[j].flat
                             /\ JoinOf(js[j], h, block) = JoinOf(joins[j], heap, block)

Once ==
  \A j \in DOMAIN joins \cap DOMAIN joins' :
    /\ joins'[j].parts = joins[j].parts
    /\ joins[j].flat # None =>
         joins'[j].flat = joins[j].flat /\ heap'[joins[j].flat] = heap[joins[j].flat]

LEMMA JoinTyped ==
  ASSUME NEW h, NEW js, SoundJoins(h, js), NEW j \in DOMAIN js
  PROVE  /\ js[j].parts[1] \in Plains(h) /\ js[j].parts[2] \in Plains(h)
         /\ js[j].flat # None => js[j].flat \in DOMAIN h
BY DEF SoundJoins, JoinsOver

LEMMA StillThere ==
  ASSUME Inv, NEW h, NEW js, Grows(h, js), NEW b \in Bufs(heap, joins)
  PROVE  b \in Bufs(h, js) /\ ContentOf(b, h, js, block) = AsSlice(b)
<1>1. CASE b \in Plains(heap)
  <2>1. b \in Plains(h) /\ PlainOf(b, h, block) = PlainOf(b, heap, block)
    BY <1>1, PlainVector, PlainElsewhere DEF Grows
  <2>2. AsSlice(b) = PlainOf(b, heap, block) /\ ContentOf(b, h, js, block) = PlainOf(b, h, block)
    BY <1>1, Contents, PlainVector DEF ContentOf
  <2> QED
    BY <2>1, <2>2 DEF Bufs
<1>2. ASSUME NEW j \in DOMAIN joins, b = Cols(j)
      PROVE  b \in Bufs(h, js) /\ ContentOf(b, h, js, block) = AsSlice(b)
  <2>1. j \in DOMAIN js /\ JoinOf(js[j], h, block) = JoinOf(joins[j], heap, block)
    BY DEF Grows
  <2>2. AsSlice(b) = JoinOf(joins[j], heap, block) /\ ContentOf(b, h, js, block) = JoinOf(js[j], h, block)
    BY <1>2, Contents, ColsAre DEF ContentOf
  <2> QED
    BY <1>2, <2>1, <2>2 DEF Bufs
<1> QED
  BY <1>1, <1>2 DEF Bufs

(* What letting go of the unheld comes to, whatever was named before.      *)
LEMMA BecomeFits ==
  ASSUME NEW bufs, NEW h, NEW js, Sound(bufs, h, js), Become(bufs, h, js), block' = block, SoundBlock(block),
         \A j \in DOMAIN js : Len(JoinOf(js[j], h, block)) <= LEN
  PROVE  /\ Inv'
         /\ \A n \in Names : Val(n)' = IF bufs[n] = None THEN None ELSE ContentOf(bufs[n], h, js, block)
<1>1. /\ buf' = bufs /\ Sound(buf', heap', joins')
      /\ \A n \in Names : bufs[n] # None =>
           ContentOf(bufs[n], heap', joins', block) = ContentOf(bufs[n], h, js, block)
      /\ DOMAIN joins' \subseteq DOMAIN js
  BY BecomeKeeps
<1>2. DOMAIN joins' = Held(bufs)
  BY DEF Become
<1>3. TypeOK'
  <2>1. Sound(buf, heap, joins)' /\ SoundBlock(block)'
    BY <1>1 DEF Sound, SoundHeap, SoundJoins, SoundBlock, Bufs, Plains, JoinsOver, Sequence
  <2>2. (Sound(buf, heap, joins) /\ SoundBlock(block) => TypeOK)'
    BY TypeIsSound, PTL
  <2> QED
    BY <2>1, <2>2
<1>4. JoinsHeld'
  BY <1>1, <1>2 DEF JoinsHeld, Held, Named
<1>5. ASSUME NEW j \in DOMAIN joins' PROVE Len(JoinOf(joins'[j], heap', block)) <= LEN
  <2>1. PICK n \in Names : bufs[n] # None /\ bufs[n].is = "cols" /\ j = bufs[n].join
    BY <1>2 DEF Held, Named
  <2>2. ContentOf(bufs[n], heap', joins', block) = JoinOf(joins'[j], heap', block)
    BY <2>1 DEF ContentOf
  <2>3. ContentOf(bufs[n], h, js, block) = JoinOf(js[j], h, block)
    BY <2>1 DEF ContentOf
  <2>4. Len(JoinOf(js[j], h, block)) <= LEN
    BY <1>1
  <2> QED
    BY <1>1, <2>1, <2>2, <2>3, <2>4
<1>6. JoinsFit'
  BY <1>5 DEF JoinsFit, JoinOf, PlainOf
<1>7. \A n \in Names : Val(n)' = IF bufs[n] = None THEN None ELSE ContentOf(bufs[n], h, js, block)
  BY <1>1, ValIs
<1> QED
  BY <1>3, <1>4, <1>6, <1>7 DEF Inv

(* Names may be given buffers of grown storage.                            *)
LEMMA BecomeGives ==
  ASSUME Inv, NEW bufs, NEW h, NEW js, Grows(h, js), Become(bufs, h, js), block' = block,
         bufs \in [Names -> {None} \cup Bufs(h, js)]
  PROVE  /\ Inv' /\ Once
         /\ \A n \in Names : Val(n)' = IF bufs[n] = None THEN None ELSE ContentOf(bufs[n], h, js, block)
         /\ \A n \in Names : bufs[n] = buf[n] => Val(n)' = Val(n)
<1>1. Sound(bufs, h, js) /\ SoundBlock(block)
  BY TypeIsSound DEF Inv, Grows, Sound
<1>2. /\ Inv'
      /\ \A n \in Names : Val(n)' = IF bufs[n] = None THEN None ELSE ContentOf(bufs[n], h, js, block)
  BY <1>1, BecomeFits DEF Grows
<1>3. ASSUME NEW n \in Names, bufs[n] = buf[n] PROVE Val(n)' = Val(n)
  <2>1. buf[n] \in {None} \cup Bufs(heap, joins)
    BY TypeIsSound DEF Inv, Sound
  <2> QED
    BY <1>2, <1>3, <2>1, StillThere DEF Val
<1>4. Once
  <2>1. /\ \A j \in DOMAIN joins' : joins'[j] = js[j]
        /\ Sound(buf', heap', joins')
        /\ \A a \in DOMAIN heap' : a \in DOMAIN h /\ heap'[a] = h[a]
    BY <1>1, BecomeKeeps
  <2> SUFFICES ASSUME NEW j \in DOMAIN joins \cap DOMAIN joins'
               PROVE  /\ joins'[j].parts = joins[j].parts
                      /\ joins[j].flat # None =>
                           joins'[j].flat = joins[j].flat /\ heap'[joins[j].flat] = heap[joins[j].flat]
    BY DEF Once
  <2>2. joins'[j].parts = joins[j].parts /\ (joins[j].flat # None => joins'[j].flat = joins[j].flat)
    BY <2>1 DEF Grows
  <2>3. ASSUME joins[j].flat # None PROVE heap'[joins[j].flat] = heap[joins[j].flat]
    <3>1. joins'[j].flat \in DOMAIN heap'
      BY <2>1, <2>2, <2>3, JoinTyped DEF Sound
    <3>2. joins[j].flat \in DOMAIN heap
      BY <2>3, JoinTyped, TypeIsSound DEF Inv, Sound
    <3> QED
      BY <2>1, <2>2, <2>3, <3>1, <3>2 DEF Grows
  <2> QED
    BY <2>2, <2>3
<1> QED
  BY <1>2, <1>3, <1>4
-----------------------------------------------------------------------------
(* What a step makes of the values: one name is given one, or none is.     *)
Gives(n, x) == \A m \in Names : Val(m)' = IF m = n THEN x ELSE Val(m)
Unmoved     == \A m \in Names : Val(m)' = Val(m)

LEMMA BecomeOne ==
  ASSUME Inv, NEW n \in Names, NEW b, NEW h, NEW js, Grows(h, js), b \in {None} \cup Bufs(h, js),
         Become([buf EXCEPT ![n] = b], h, js), block' = block
  PROVE  Inv' /\ Once /\ Gives(n, IF b = None THEN None ELSE ContentOf(b, h, js, block))
<1> DEFINE bufs == [buf EXCEPT ![n] = b]
<1>1. buf \in [Names -> {None} \cup Bufs(heap, joins)]
  BY TypeIsSound DEF Inv, Sound
<1>2. bufs[n] = b /\ \A m \in Names : m # n => bufs[m] = buf[m]
  BY <1>1
<1>3. bufs \in [Names -> {None} \cup Bufs(h, js)]
  <2>1. \A m \in Names : buf[m] \in {None} \cup Bufs(h, js)
    BY <1>1, StillThere
  <2> QED
    BY <1>1, <2>1
<1>4. Become(bufs, h, js)
  OBVIOUS
<1> HIDE DEF bufs
<1>5. /\ Inv' /\ Once
      /\ \A m \in Names : Val(m)' = IF bufs[m] = None THEN None ELSE ContentOf(bufs[m], h, js, block)
      /\ \A m \in Names : bufs[m] = buf[m] => Val(m)' = Val(m)
  BY <1>3, <1>4, BecomeGives
<1> QED
  BY <1>2, <1>5 DEF Gives

LEMMA GrowsNot ==
  ASSUME Inv
  PROVE  Grows(heap, joins)
BY TypeIsSound DEF Inv, JoinsFit, Grows, Sound

(* A fresh vector leaves every buffer's content as it is.                  *)
LEMMA GrowsVec ==
  ASSUME Inv, Room, NEW s, Sequence(s)
  PROVE  /\ Grows(With(heap, FreshVec, s), joins)
         /\ FreshVec \in Allocs /\ FreshVec \notin DOMAIN heap
         /\ FreshVec \in DOMAIN With(heap, FreshVec, s) /\ With(heap, FreshVec, s)[FreshVec] = s
<1>1. FreshVec \in Allocs /\ FreshVec \notin DOMAIN heap
  BY DEF Room, FreshVec
<1> DEFINE h == With(heap, FreshVec, s)
<1>2. /\ DOMAIN h = DOMAIN heap \cup {FreshVec} /\ h[FreshVec] = s
      /\ \A a \in DOMAIN heap : a \in DOMAIN h /\ h[a] = heap[a]
  BY <1>1 DEF With
<1> HIDE DEF h
<1>3. SoundHeap(heap) /\ SoundJoins(heap, joins)
  BY TypeIsSound DEF Inv, Sound
<1>4. SoundHeap(h)
  BY <1>1, <1>2, <1>3 DEF SoundHeap
<1>5. \A b \in Plains(heap) : b \in Plains(h) /\ PlainOf(b, h, block) = PlainOf(b, heap, block)
  BY <1>2, PlainVector, PlainElsewhere
<1>6. SoundJoins(h, joins)
  BY <1>2, <1>3, <1>5 DEF SoundJoins, JoinsOver
<1>7. \A j \in DOMAIN joins : JoinOf(joins[j], h, block) = JoinOf(joins[j], heap, block)
  BY <1>2, <1>3, <1>5, JoinTyped DEF JoinOf
<1>8. Grows(h, joins)
  BY <1>2, <1>4, <1>6, <1>7 DEF Inv, JoinsFit, Grows
<1> QED
  BY <1>1, <1>2, <1>8 DEF h

(* A name given a fresh vector holds what was put in it.                   *)
LEMMA FreshGiven ==
  ASSUME Inv, NEW n \in Names, NEW s, Sequence(s), Room, block' = block,
         Become([buf EXCEPT ![n] = Owned(FreshVec)], With(heap, FreshVec, s), joins)
  PROVE  Inv' /\ Once /\ Gives(n, s)
<1> DEFINE h == With(heap, FreshVec, s)
           b == Owned(FreshVec)
<1>1. /\ Grows(h, joins) /\ FreshVec \in DOMAIN h /\ h[FreshVec] = s
      /\ Become([buf EXCEPT ![n] = b], h, joins)
  BY GrowsVec
<1>2. b.is = "owned" /\ b.vec = FreshVec
  BY DEF Owned
<1>3. b \in Plains(h)
  BY <1>1, PlainsAre
<1> HIDE DEF h, b
<1>4. b \in Bufs(h, joins) /\ ContentOf(b, h, joins, block) = s
  BY <1>1, <1>2, <1>3 DEF Bufs, ContentOf, PlainOf
<1>5. b # None
  BY <1>1, <1>4, BufThere DEF Grows, SoundHeap, SoundJoins
<1> QED
  BY <1>1, <1>4, <1>5, BecomeOne

(* A name given a buffer of the storage there is holds what it held.       *)
LEMMA ViewGiven ==
  ASSUME Inv, NEW n \in Names, NEW b \in Bufs(heap, joins), block' = block,
         Become([buf EXCEPT ![n] = b], heap, joins)
  PROVE  Inv' /\ Once /\ Gives(n, AsSlice(b))
<1>1. Grows(heap, joins)
  BY GrowsNot
<1>2. b # None
  BY <1>1, BufThere DEF Grows, SoundHeap, SoundJoins
<1> QED
  BY <1>1, <1>2, BecomeOne, Contents

LEMMA EmptyGiven ==
  ASSUME Inv, NEW n \in Names, block' = block, Become([buf EXCEPT ![n] = Empty], heap, joins)
  PROVE  Inv' /\ Once /\ Gives(n, <<>>)
<1>1. Empty \in Plains(heap) /\ PlainOf(Empty, heap, block) = <<>>
  BY PlainsAre DEF PlainOf, Empty
<1>2. Empty \in Bufs(heap, joins) /\ AsSlice(Empty) = <<>>
  BY <1>1, Contents, PlainVector DEF Bufs, ContentOf
<1> QED
  BY <1>2, ViewGiven

LEMMA OneGiven ==
  ASSUME Inv, NEW n \in Names, NEW s \in Seq(Elements), Len(s) = 1, block' = block,
         Become([buf EXCEPT ![n] = One(s[1])], heap, joins)
  PROVE  Inv' /\ Once /\ Gives(n, s)
<1>1. One(s[1]) \in Plains(heap)
  BY PlainsAre
<1>2. PlainOf(One(s[1]), heap, block) = s
  <2>1. PlainOf(One(s[1]), heap, block) = <<s[1]>>
    BY DEF PlainOf, One
  <2>2. <<s[1]>> = s
    OBVIOUS
  <2> QED
    BY <2>1, <2>2
<1>3. One(s[1]) \in Bufs(heap, joins) /\ AsSlice(One(s[1])) = s
  BY <1>1, <1>2, Contents, PlainVector DEF Bufs, ContentOf
<1> QED
  BY <1>3, ViewGiven

(* One per operation. *)
LEMMA FromVecGives ==
  ASSUME Inv, NEW n \in Names, FromVec(n)
  PROVE  Inv' /\ Once /\ call'.op = "make" /\ call'.on = n /\ Gives(n, call'.elems)
<1>1. PICK s \in Vectors :
        /\ call' = [op |-> "make", on |-> n, elems |-> s]
        /\ CASE s = <<>>            -> Become([buf EXCEPT ![n] = Empty], heap, joins)
             [] Len(s) = 1 /\ fits  -> Become([buf EXCEPT ![n] = One(s[1])], heap, joins)
             [] OTHER -> /\ Room
                         /\ Become([buf EXCEPT ![n] = Owned(FreshVec)], With(heap, FreshVec, s), joins)
        /\ block' = block
  BY DEF FromVec
<1>2. s \in Seq(Elements) /\ Sequence(s)
  BY BuffersAssumption DEF Sequence
<1>3. Inv' /\ Once /\ Gives(n, s)
  <2>1. CASE s = <<>>
    <3>1. Become([buf EXCEPT ![n] = Empty], heap, joins)
      BY <1>1, <2>1
    <3> QED
      BY <1>1, <2>1, <3>1, EmptyGiven
  <2>2. CASE s # <<>> /\ Len(s) = 1 /\ fits
    <3>1. Become([buf EXCEPT ![n] = One(s[1])], heap, joins)
      BY <1>1, <1>2, <2>2
    <3> QED
      BY <1>1, <1>2, <2>2, <3>1, OneGiven
  <2>3. CASE s # <<>> /\ ~(Len(s) = 1 /\ fits)
    <3>1. Room /\ Become([buf EXCEPT ![n] = Owned(FreshVec)], With(heap, FreshVec, s), joins)
      BY <1>1, <2>3
    <3> QED
      BY <1>1, <1>2, <3>1, FreshGiven
  <2> QED
    BY <2>1, <2>2, <2>3
<1> QED
  BY <1>1, <1>3

LEMMA BorrowGives ==
  ASSUME Inv, NEW n \in Names, Borrow(n)
  PROVE  Inv' /\ Once /\ call'.op = "make" /\ call'.on = n /\ Gives(n, call'.elems)
<1>1. PICK p \in Blocks, len \in 0 .. LEN :
        /\ call' = [op |-> "make", on |-> n, elems |-> SubSeq(block[p], 1, len)]
        /\ Become([buf EXCEPT ![n] = Foreign(p, 0, len, p)], heap, joins)
        /\ block' = block
  BY DEF Borrow
<1> DEFINE b == Foreign(p, 0, len, p)
<1>2. LEN \in Nat /\ 0 \in 0 .. LEN /\ 0 + len <= LEN /\ 0 + 1 = 1 /\ 0 + len = len
  BY BuffersAssumption
<1>3. b \in Plains(heap)
  BY <1>2, PlainsAre
<1>4. PlainOf(b, heap, block) = SubSeq(block[p], 1, len)
  <2>1. PlainOf(b, heap, block) = SubSeq(block[p], 0 + 1, 0 + len)
    BY DEF PlainOf, Foreign
  <2> QED
    BY <1>2, <2>1
<1> HIDE DEF b
<1>5. b \in Bufs(heap, joins) /\ AsSlice(b) = SubSeq(block[p], 1, len)
  BY <1>3, <1>4, Contents, PlainVector DEF Bufs, ContentOf
<1>6. Become([buf EXCEPT ![n] = b], heap, joins)
  BY <1>1 DEF b
<1>7. Inv' /\ Once /\ Gives(n, SubSeq(block[p], 1, len))
  BY <1>1, <1>5, <1>6, ViewGiven
<1> QED
  BY <1>1, <1>7

LEMMA Buffered ==
  ASSUME Inv, NEW n \in Names, buf[n] # None
  PROVE  buf[n] \in Bufs(heap, joins) /\ Sequence(AsSlice(buf[n])) /\ Val(n) = AsSlice(buf[n])
<1>1. buf[n] \in Bufs(heap, joins)
  BY TypeIsSound DEF Inv, Sound
<1> QED
  BY <1>1, Measured DEF Val

LEMMA CloneGives ==
  ASSUME Inv, NEW n \in Names, NEW m \in Names, Clone(n, m)
  PROVE  Inv' /\ Once /\ call'.op = "clone" /\ call'.on = n /\ call'.of = m /\ Gives(n, Val(m))
<1>1. Inv' /\ Once /\ Gives(n, Val(m))
  BY Buffered, ViewGiven DEF Clone
<1> QED
  BY <1>1 DEF Clone

LEMMA DropGives ==
  ASSUME Inv, NEW n \in Names, Drop(n)
  PROVE  Inv' /\ Once /\ call'.op = "drop" /\ call'.on = n /\ Gives(n, None)
<1>1. Inv' /\ Once /\ Gives(n, None)
  BY GrowsNot, BecomeOne DEF Drop
<1> QED
  BY <1>1 DEF Drop

LEMMA SliceGives ==
  ASSUME Inv, NEW n \in Names, NEW m \in Names, SliceOf(n, m)
  PROVE  /\ Inv' /\ Once /\ call'.op = "slice" /\ call'.on = n /\ call'.of = m
         /\ Gives(n, SubSeq(Val(m), call'.from + 1, call'.upto))
<1>1. buf[m] # None /\ block' = block
  BY DEF SliceOf
<1>2. Len(AsSlice(buf[m])) \in Nat /\ buf[m] \in Bufs(heap, joins) /\ Val(m) = AsSlice(buf[m])
  BY <1>1, Buffered DEF Sequence
<1>3. PICK i \in 0 .. Len(AsSlice(buf[m])) : \E k \in i .. Len(AsSlice(buf[m])) :
        /\ Sliced(buf[m], i, k) # None
        /\ call' = [op |-> "slice", on |-> n, of |-> m, from |-> i, upto |-> k]
        /\ Become([buf EXCEPT ![n] = Sliced(buf[m], i, k)], heap, joins)
  BY DEF SliceOf, Length
<1>4. PICK k \in i .. Len(AsSlice(buf[m])) :
        /\ Sliced(buf[m], i, k) # None
        /\ call' = [op |-> "slice", on |-> n, of |-> m, from |-> i, upto |-> k]
        /\ Become([buf EXCEPT ![n] = Sliced(buf[m], i, k)], heap, joins)
  BY <1>3
<1>5. i \in Nat /\ k \in Nat /\ i <= k /\ k <= Len(AsSlice(buf[m]))
  BY <1>2
<1>6. /\ Sliced(buf[m], i, k) \in Plains(heap)
      /\ AsSlice(Sliced(buf[m], i, k)) = SubSeq(AsSlice(buf[m]), i + 1, k)
  BY <1>2, <1>4, <1>5, Slices
<1>7. Inv' /\ Once /\ Gives(n, SubSeq(Val(m), i + 1, k))
  BY <1>1, <1>2, <1>4, <1>6, ViewGiven DEF Bufs
<1> QED
  BY <1>4, <1>7

LEMMA JoinGives ==
  ASSUME Inv, NEW n \in Names, NEW l \in Names, NEW m \in Names, Join(n, l, m)
  PROVE  /\ Inv' /\ Once /\ call'.op = "join" /\ call'.on = n /\ call'.of = l /\ call'.with = m
         /\ Gives(n, Val(l) \o Val(m))
<1> DEFINE c  == [parts |-> <<buf[l], buf[m]>>, flat |-> None]
           js == With(joins, FreshJoin, c)
           b  == Cols(FreshJoin)
           s  == AsSlice(buf[l]) \o AsSlice(buf[m])
<1>1. /\ buf[l] # None /\ buf[l].is # "cols" /\ buf[m] # None /\ buf[m].is # "cols"
      /\ Joins \ DOMAIN joins # {} /\ block' = block
      /\ Length(buf[l]) + Length(buf[m]) <= LEN
      /\ call' = [op |-> "join", on |-> n, of |-> l, with |-> m]
      /\ Become([buf EXCEPT ![n] = b], heap, js)
  BY DEF Join
<1>2. FreshJoin \in Joins /\ FreshJoin \notin DOMAIN joins
  BY <1>1 DEF FreshJoin
<1>3. /\ DOMAIN js = DOMAIN joins \cup {FreshJoin} /\ js[FreshJoin] = c
      /\ \A j \in DOMAIN joins : j \in DOMAIN js /\ js[j] = joins[j]
  BY <1>2 DEF With
<1> HIDE DEF js
<1>4. buf[l] \in Plains(heap) /\ buf[m] \in Plains(heap)
  BY <1>1, Buffered, ColsAre DEF Bufs
<1>5. AsSlice(buf[l]) = PlainOf(buf[l], heap, block) /\ AsSlice(buf[m]) = PlainOf(buf[m], heap, block)
  BY <1>1, Contents DEF ContentOf
<1>6. c \in JoinsOver(heap) /\ JoinOf(c, heap, block) = s
  BY <1>4, <1>5 DEF JoinsOver, JoinOf
<1>7. Len(s) <= LEN
  <2>1. /\ AsSlice(buf[l]) \in Seq(Elements) /\ AsSlice(buf[m]) \in Seq(Elements)
    BY <1>1, Buffered DEF Sequence
  <2>2. Len(s) = Len(AsSlice(buf[l])) + Len(AsSlice(buf[m]))
    BY <2>1, ConcatProperties
  <2> QED
    BY <1>1, <2>2 DEF Length
<1> HIDE DEF c, s
<1>8. SoundHeap(heap) /\ SoundJoins(heap, joins)
  BY TypeIsSound DEF Inv, Sound
<1>9. SoundJoins(heap, js)
  BY <1>2, <1>3, <1>6, <1>8 DEF SoundJoins
<1>10. \A j \in DOMAIN js : Len(JoinOf(js[j], heap, block)) <= LEN
  BY <1>3, <1>6, <1>7 DEF Inv, JoinsFit
<1>11. Grows(heap, js)
  BY <1>3, <1>8, <1>9, <1>10 DEF Grows
<1>12. b.is = "cols" /\ b.join = FreshJoin /\ b \in Bufs(heap, js)
  BY <1>3, ColsAre DEF Bufs
<1> HIDE DEF b
<1>13. ContentOf(b, heap, js, block) = s
  BY <1>3, <1>6, <1>12 DEF ContentOf
<1>14. b # None
  BY <1>8, <1>9, <1>12, BufThere DEF SoundHeap, SoundJoins
<1>15. Inv' /\ Once /\ Gives(n, s)
  BY <1>1, <1>11, <1>12, <1>13, <1>14, BecomeOne
<1>16. s = Val(l) \o Val(m)
  BY <1>1, Buffered DEF s
<1> QED
  BY <1>1, <1>15, <1>16

LEMMA MakeJoinGives ==
  ASSUME Inv, NEW j \in DOMAIN joins, MakeJoin(j)
  PROVE  Inv' /\ Once /\ call'.op = "none" /\ Unmoved
<1> DEFINE s  == AsSlice(Cols(j))
           h  == With(heap, FreshVec, s)
           js == [joins EXCEPT ![j].flat = FreshVec]
<1>1. joins[j].flat = None /\ Room /\ call' = Quiet /\ block' = block /\ Become(buf, h, js)
  BY DEF MakeJoin
<1>2. Cols(j) \in Bufs(heap, joins)
  BY DEF Bufs
<1>3. Sequence(s) /\ s = JoinOf(joins[j], heap, block)
  BY <1>2, Measured, Contents, ColsAre DEF ContentOf
<1> HIDE DEF s
<1>4. /\ Grows(h, joins) /\ FreshVec \in Allocs
      /\ FreshVec \in DOMAIN h /\ h[FreshVec] = s
  BY <1>1, <1>3, GrowsVec
<1> HIDE DEF h
<1>5. FreshVec # None
  BY <1>4, NoneAssumption
<1>6. joins[j] \in JoinsOver(h)
  BY <1>4 DEF Grows, SoundJoins
<1>7. /\ DOMAIN js = DOMAIN joins /\ \A i \in DOMAIN joins \ {j} : js[i] = joins[i]
      /\ js[j].parts = joins[j].parts /\ js[j].flat = FreshVec /\ js[j] \in JoinsOver(h)
  BY <1>4, <1>6 DEF JoinsOver
<1> HIDE DEF js
<1>8. JoinOf(js[j], h, block) = s
  BY <1>4, <1>5, <1>7 DEF JoinOf
<1>9. Len(s) <= LEN
  BY <1>3 DEF Sequence
<1>10. Grows(h, js)
  <2>1. SoundHeap(h) /\ SoundJoins(h, js)
    BY <1>4, <1>7 DEF Grows, SoundJoins
  <2>2. \A i \in DOMAIN js : Len(JoinOf(js[i], h, block)) <= LEN
    BY <1>4, <1>7, <1>8, <1>9 DEF Grows
  <2>3. \A i \in DOMAIN joins : /\ i \in DOMAIN js
                                /\ js[i].parts = joins[i].parts
                                /\ joins[i].flat # None => js[i].flat = joins[i].flat
                                /\ JoinOf(js[i], h, block) = JoinOf(joins[i], heap, block)
    BY <1>1, <1>3, <1>4, <1>7, <1>8 DEF Grows
  <2> QED
    BY <1>4, <2>1, <2>2, <2>3 DEF Grows
<1>11. buf \in [Names -> {None} \cup Bufs(h, js)]
  <2>1. buf \in [Names -> {None} \cup Bufs(heap, joins)]
    BY TypeIsSound DEF Inv, Sound
  <2>2. \A m \in Names : buf[m] \in {None} \cup Bufs(h, js)
    BY <1>10, <2>1, StillThere
  <2> QED
    BY <2>1, <2>2
<1>12. Inv' /\ Once /\ Unmoved
  BY <1>1, <1>10, <1>11, BecomeGives DEF Unmoved
<1> QED
  BY <1>1, <1>12 DEF Quiet

(* Written in place, a vector is this buffer's alone: no other name, part  *)
(* of a join or join made is a view of it.                                 *)
LEMMA InPlace ==
  ASSUME Inv, NEW n \in Names, buf[n] # None, SoleOwner(buf[n]), NEW s, Sequence(s), block' = block,
         Become(buf, [heap EXCEPT ![buf[n].vec] = s], joins)
  PROVE  Inv' /\ Once /\ Gives(n, s)
<1> DEFINE a == buf[n].vec
           h == [heap EXCEPT ![a] = s]
<1>1. /\ buf \in [Names -> {None} \cup Bufs(heap, joins)]
      /\ SoundHeap(heap) /\ SoundJoins(heap, joins) /\ SoundBlock(block)
  BY TypeIsSound DEF Inv, Sound
<1>2. buf[n].is = "owned" /\ Holders(a, buf, joins) = 1
  BY DEF SoleOwner
<1>3. buf[n] \in Plains(heap) /\ a \in DOMAIN heap
  BY <1>1, <1>2, ColsAre, PlainVector DEF Bufs, Vectored
<1>4. n \in NamesOf(a, buf)
  BY <1>2 DEF NamesOf
<1>5. NamesOf(a, buf) = {n} /\ PartsOf(a, joins) = {} /\ FlatsOf(a, joins) = {}
  BY <1>1, <1>2, <1>4, HoldersCounted DEF SoundJoins
<1>6. Become(buf, h, joins)
  OBVIOUS
<1>7. DOMAIN h = DOMAIN heap /\ h[a] = s /\ \A x \in DOMAIN heap \ {a} : h[x] = heap[x]
  BY <1>3
<1> HIDE DEF h, a
<1>8. SoundHeap(h)
  BY <1>1, <1>7 DEF SoundHeap
<1>9. ASSUME NEW b \in Plains(heap), ~(Vectored(b) /\ b.vec = a)
      PROVE  b \in Plains(h) /\ PlainOf(b, h, block) = PlainOf(b, heap, block)
  BY <1>7, <1>9, PlainVector, PlainElsewhere
<1>10. ASSUME NEW m \in Names, m # n, buf[m] \in Plains(heap), buf[m] # None
       PROVE  ~(Vectored(buf[m]) /\ buf[m].vec = a)
  BY <1>5, <1>10 DEF NamesOf, Vectored
<1>11. ASSUME NEW j \in DOMAIN joins, NEW i \in {1, 2}
       PROVE  ~(Vectored(joins[j].parts[i]) /\ joins[j].parts[i].vec = a)
  <2>1. <<j, i>> \notin PartsOf(a, joins)
    BY <1>5
  <2> QED
    BY <2>1 DEF PartsOf, Vectored
<1>12. ASSUME NEW j \in DOMAIN joins
       PROVE  joins[j] \in JoinsOver(h) /\ JoinOf(joins[j], h, block) = JoinOf(joins[j], heap, block)
  <2> DEFINE c == joins[j]
             p == c.parts[1]
             q == c.parts[2]
  <2>1. p \in Plains(heap) /\ q \in Plains(heap) /\ (c.flat # None => c.flat \in DOMAIN heap)
    BY <1>1, JoinTyped
  <2>2. ~(Vectored(p) /\ p.vec = a) /\ ~(Vectored(q) /\ q.vec = a)
    BY <1>11
  <2>3. c.flat # a
    BY <1>5 DEF FlatsOf
  <2>4. c \in JoinsOver(heap)
    BY <1>1 DEF SoundJoins
  <2> HIDE DEF c
  <2>5. /\ p \in Plains(h) /\ q \in Plains(h)
        /\ PlainOf(p, h, block) = PlainOf(p, heap, block) /\ PlainOf(q, h, block) = PlainOf(q, heap, block)
    BY <1>9, <2>1, <2>2
  <2>6. c \in JoinsOver(h)
    BY <1>7, <2>4, <2>5 DEF JoinsOver
  <2>7. JoinOf(c, h, block) = JoinOf(c, heap, block)
    BY <1>7, <2>1, <2>3, <2>5 DEF JoinOf
  <2> QED
    BY <2>6, <2>7 DEF c
<1>13. SoundJoins(h, joins)
  BY <1>1, <1>12 DEF SoundJoins
<1>14. ASSUME NEW m \in Names, m # n, buf[m] # None
       PROVE  buf[m] \in Bufs(h, joins) /\ ContentOf(buf[m], h, joins, block) = AsSlice(buf[m])
  <2>1. CASE buf[m] \in Plains(heap)
    <3>1. buf[m] \in Plains(h) /\ PlainOf(buf[m], h, block) = PlainOf(buf[m], heap, block)
      BY <1>9, <1>10, <1>14, <2>1
    <3> QED
      BY <2>1, <3>1, Contents, PlainVector DEF Bufs, ContentOf
  <2>2. ASSUME NEW j \in DOMAIN joins, buf[m] = Cols(j)
        PROVE  buf[m] \in Bufs(h, joins) /\ ContentOf(buf[m], h, joins, block) = AsSlice(buf[m])
    BY <1>12, <2>2, Contents, ColsAre DEF Bufs, ContentOf
  <2> QED
    BY <1>1, <1>14, <2>1, <2>2 DEF Bufs
<1>15. buf[n] \in Bufs(h, joins) /\ ContentOf(buf[n], h, joins, block) = s
  <2>1. buf[n] = Owned(a)
    BY <1>2, <1>3, PlainsAre DEF Empty, One, Owned, Slice, Foreign, a
  <2>2. Owned(a) \in Plains(h)
    BY <1>3, <1>7, PlainsAre
  <2>3. PlainOf(Owned(a), h, block) = s
    BY <1>7 DEF PlainOf, Owned
  <2> QED
    BY <1>2, <2>1, <2>2, <2>3 DEF Bufs, ContentOf
<1>16. Sound(buf, h, joins)
  BY <1>1, <1>8, <1>13, <1>14, <1>15 DEF Sound
<1>17. \A j \in DOMAIN joins : Len(JoinOf(joins[j], h, block)) <= LEN
  BY <1>12 DEF Inv, JoinsFit
<1>18. /\ Inv'
       /\ \A m \in Names : Val(m)' = IF buf[m] = None THEN None ELSE ContentOf(buf[m], h, joins, block)
  BY <1>1, <1>6, <1>16, <1>17, BecomeFits
<1>19. Gives(n, s)
  BY <1>14, <1>15, <1>18 DEF Gives, Val
<1>20. Once
  <2>1. /\ \A j \in DOMAIN joins' : joins'[j] = joins[j]
        /\ Sound(buf', heap', joins')
        /\ \A x \in DOMAIN heap' : x \in DOMAIN h /\ heap'[x] = h[x]
    BY <1>6, <1>16, BecomeKeeps
  <2>2. ASSUME NEW j \in DOMAIN joins \cap DOMAIN joins', joins[j].flat # None
        PROVE  heap'[joins[j].flat] = heap[joins[j].flat]
    <3>1. joins[j].flat \in DOMAIN heap'
      BY <2>1, <2>2, JoinTyped DEF Sound
    <3>2. joins[j].flat # a
      BY <1>5 DEF FlatsOf
    <3> QED
      BY <1>7, <2>1, <3>1, <3>2
  <2> QED
    BY <2>1, <2>2 DEF Once
<1> QED
  BY <1>18, <1>19, <1>20

LEMMA WriteGives ==
  ASSUME Inv, NEW n \in Names, buf[n] # None, NEW s, Sequence(s), Write(n, s)
  PROVE  Inv' /\ Once /\ Gives(n, s)
<1>1. CASE SoleOwner(buf[n])
  BY <1>1, InPlace DEF Write
<1>2. CASE ~SoleOwner(buf[n])
  BY <1>2, FreshGiven DEF Write
<1> QED
  BY <1>1, <1>2

LEMMA PushGives ==
  ASSUME Inv, NEW n \in Names, Push(n)
  PROVE  Inv' /\ Once /\ call'.op = "push" /\ call'.on = n /\ Gives(n, Append(Val(n), call'.elem))
<1>1. buf[n] # None /\ Length(buf[n]) < LEN
  BY DEF Push
<1>2. PICK e \in Elements : /\ call' = [op |-> "push", on |-> n, elem |-> e]
                            /\ Write(n, Append(AsSlice(buf[n]), e))
  BY DEF Push
<1> DEFINE s == AsSlice(buf[n])
<1>3. s \in Seq(Elements) /\ Len(s) < LEN /\ Val(n) = s /\ LEN \in Nat
  BY <1>1, Buffered, BuffersAssumption DEF Sequence, Length
<1> HIDE DEF s
<1>4. Append(s, e) \in Seq(Elements) /\ Len(Append(s, e)) = Len(s) + 1
  BY <1>3
<1>5. Sequence(Append(s, e))
  BY <1>3, <1>4 DEF Sequence
<1>6. Inv' /\ Once /\ Gives(n, Append(s, e))
  BY <1>1, <1>2, <1>5, WriteGives DEF s
<1> QED
  BY <1>2, <1>3, <1>6

LEMMA SetGives ==
  ASSUME Inv, NEW n \in Names, Set(n)
  PROVE  /\ Inv' /\ Once /\ call'.op = "set" /\ call'.on = n
         /\ Gives(n, [Val(n) EXCEPT ![call'.at] = call'.elem])
<1>1. buf[n] # None
  BY DEF Set
<1>2. PICK i \in 1 .. Length(buf[n]), e \in Elements :
        /\ call' = [op |-> "set", on |-> n, at |-> i, elem |-> e]
        /\ Write(n, [AsSlice(buf[n]) EXCEPT ![i] = e])
  BY DEF Set
<1> DEFINE s == AsSlice(buf[n])
           r == [s EXCEPT ![i] = e]
<1>3. s \in Seq(Elements) /\ Len(s) <= LEN /\ Val(n) = s
  BY <1>1, Buffered DEF Sequence
<1> HIDE DEF s
<1>4. r \in Seq(Elements) /\ Len(r) = Len(s)
  <2>1. i \in 1 .. Len(s)
    BY <1>2 DEF Length, s
  <2> QED
    BY <1>3, <2>1, ExceptSeq
<1>5. Sequence(r)
  BY <1>3, <1>4 DEF Sequence
<1>6. Write(n, r)
  BY <1>2 DEF s
<1>7. r = [Val(n) EXCEPT ![call'.at] = call'.elem]
  BY <1>2, <1>3
<1> HIDE DEF r
<1>8. Inv' /\ Once /\ Gives(n, r)
  BY <1>1, <1>5, <1>6, WriteGives
<1> QED
  BY <1>2, <1>7, <1>8

LEMMA IntoVecGives ==
  ASSUME Inv, NEW n \in Names, IntoVec(n)
  PROVE  Inv' /\ Once /\ call'.op = "move" /\ call'.on = n /\ Gives(n, Val(n))
<1> DEFINE s == AsSlice(buf[n])
<1>1. /\ buf[n] # None /\ call' = [op |-> "move", on |-> n] /\ block' = block
      /\ CASE s = <<>>           -> Become([buf EXCEPT ![n] = Empty], heap, joins)
           [] Len(s) = 1 /\ fits -> Become([buf EXCEPT ![n] = One(s[1])], heap, joins)
           [] SoleOwner(buf[n])  -> Become(buf, heap, joins)
           [] OTHER -> Room /\ Become([buf EXCEPT ![n] = Owned(FreshVec)], With(heap, FreshVec, s), joins)
  BY DEF IntoVec
<1>2. s \in Seq(Elements) /\ Sequence(s) /\ Val(n) = s
  BY <1>1, Buffered DEF Sequence
<1> HIDE DEF s
<1>3. Inv' /\ Once /\ Gives(n, s)
  <2>1. CASE s = <<>> /\ Become([buf EXCEPT ![n] = Empty], heap, joins)
    BY <1>1, <2>1, EmptyGiven
  <2>2. CASE Len(s) = 1 /\ Become([buf EXCEPT ![n] = One(s[1])], heap, joins)
    BY <1>1, <1>2, <2>2, OneGiven
  <2>3. CASE Become(buf, heap, joins)
    <3>1. buf \in [Names -> {None} \cup Bufs(heap, joins)]
      BY TypeIsSound DEF Inv, Sound
    <3>2. Inv' /\ Once /\ \A m \in Names : buf[m] = buf[m] => Val(m)' = Val(m)
      BY <1>1, <2>3, <3>1, GrowsNot, BecomeGives
    <3> QED
      BY <1>2, <3>2 DEF Gives
  <2>4. CASE Room /\ Become([buf EXCEPT ![n] = Owned(FreshVec)], With(heap, FreshVec, s), joins)
    BY <1>1, <1>2, <2>4, FreshGiven
  <2> QED
    BY <1>1, <2>1, <2>2, <2>3, <2>4
<1> QED
  BY <1>1, <1>2, <1>3

(* The host writes to a block only when no buffer views it.                *)
LEMMA ReuseGives ==
  ASSUME Inv, NEW b \in Blocks, Reuse(b)
  PROVE  Inv' /\ Once /\ call'.op = "none" /\ Unmoved
<1>1. /\ ~Lent(b) /\ call' = Quiet /\ buf' = buf /\ heap' = heap /\ joins' = joins
      /\ \E i \in 1 .. LEN, e \in Elements : block' = [block EXCEPT ![b][i] = e]
  BY DEF Reuse
<1>2. /\ buf \in [Names -> {None} \cup Bufs(heap, joins)]
      /\ SoundHeap(heap) /\ SoundJoins(heap, joins) /\ SoundBlock(block)
  BY TypeIsSound DEF Inv, Sound
<1>3. SoundBlock(block') /\ \A p \in Blocks \ {b} : block'[p] = block[p]
  <2>1. PICK i \in 1 .. LEN, e \in Elements : block' = [block EXCEPT ![b][i] = e]
    BY <1>1
  <2>2. block[b] \in Seq(Elements) /\ Len(block[b]) = LEN
    BY <1>2 DEF SoundBlock
  <2> DEFINE r == [block[b] EXCEPT ![i] = e]
  <2>3. r \in Seq(Elements) /\ Len(r) = LEN
    BY <2>2, ExceptSeq
  <2>4. block' = [block EXCEPT ![b] = r]
    BY <2>1
  <2> HIDE DEF r
  <2> QED
    BY <1>2, <2>3, <2>4 DEF SoundBlock
<1>4. ASSUME NEW x \in Plains(heap), x \in Live(buf, joins)
      PROVE  PlainOf(x, heap, block') = PlainOf(x, heap, block)
  <2>1. x.is = "foreign" => x.ptr \in Blocks /\ x.ptr # b
    BY <1>1, <1>4, PlainVector DEF Lent
  <2>2. Vectored(x) => x.vec \in DOMAIN heap
    BY <1>4, PlainVector
  <2> QED
    BY <1>3, <1>4, <2>1, <2>2, PlainElsewhere
<1>5. ASSUME NEW j \in DOMAIN joins
      PROVE  JoinOf(joins[j], heap, block') = JoinOf(joins[j], heap, block)
  <2>1. joins[j].parts[1] \in Live(buf, joins) /\ joins[j].parts[2] \in Live(buf, joins)
    <3>1. j \in Held(buf)
      BY DEF Inv, JoinsHeld
    <3> QED
      BY <3>1 DEF Live
  <2>2. joins[j].parts[1] \in Plains(heap) /\ joins[j].parts[2] \in Plains(heap)
    BY <1>2, JoinTyped
  <2> QED
    BY <1>4, <2>1, <2>2 DEF JoinOf
<1>6. ASSUME NEW n \in Names PROVE Val(n)' = Val(n)
  <2>1. CASE buf[n] = None
    BY <1>1, <2>1, ValIs
  <2>2. CASE buf[n] # None /\ buf[n] \in Plains(heap)
    <3>1. buf[n] \in Live(buf, joins)
      BY <2>2 DEF Live, Named
    <3> QED
      BY <1>1, <1>4, <2>2, <3>1, ValIs, PlainVector DEF ContentOf
  <2>3. ASSUME NEW j \in DOMAIN joins, buf[n] = Cols(j) PROVE Val(n)' = Val(n)
    <3>1. ContentOf(Cols(j), heap, joins, block) = JoinOf(joins[j], heap, block)
      BY ColsAre DEF ContentOf
    <3>2. ContentOf(Cols(j), heap, joins, block') = JoinOf(joins[j], heap, block')
      BY ColsAre DEF ContentOf
    <3> QED
      BY <1>1, <1>5, <2>3, <3>1, <3>2, ValIs
  <2> QED
    BY <1>2, <2>1, <2>2, <2>3 DEF Bufs
<1>7. TypeOK'
  BY <1>1, <1>3, TypeIsSound DEF Inv, TypeOK, SoundBlock, Plains
<1>8. JoinsFit'
  <2>1. \A j \in DOMAIN joins : Len(JoinOf(joins[j], heap, block')) <= LEN
    BY <1>5 DEF Inv, JoinsFit
  <2> QED
    BY <1>1, <2>1 DEF JoinsFit, JoinOf, PlainOf
<1>9. JoinsHeld'
  BY <1>1 DEF Inv, JoinsHeld, Held, Named
<1> QED
  BY <1>1, <1>6, <1>7, <1>8, <1>9 DEF Inv, Once, Unmoved, Quiet
-----------------------------------------------------------------------------
Value == [n \in Names |-> IF buf[n] = None THEN None ELSE AsSlice(buf[n])]

LEMMA ValueIs == Value = [n \in Names |-> Val(n)] /\ Value' = [n \in Names |-> Val(n)']
BY DEF Value, Val

LEMMA GivenMaps ==
  ASSUME NEW n \in Names, NEW x, call'.op # "none", call'.on = n, Private!Given(call') = x, Gives(n, x)
  PROVE  Private!Next
<1>1. Value' = [Value EXCEPT ![n] = x]
  BY ValueIs DEF Gives
<1> QED
  BY <1>1 DEF Private!Next, Value

LEMMA UnmovedMaps ==
  ASSUME Unmoved, call'.op = "none"
  PROVE  Private!Next
<1>1. Value' = Value
  BY ValueIs DEF Unmoved
<1> QED
  BY <1>1 DEF Private!Next, Value

(* Every operation keeps the invariant, keeps every join made, and is what *)
(* its call says on private values.                                        *)
LEMMA OperationMaps ==
  ASSUME Inv, Operation
  PROVE  Inv' /\ Once /\ Private!Next
<1>0. \A m \in Names : Value[m] = Val(m)
  BY ValueIs
<1>1. ASSUME NEW n \in Names, FromVec(n) \/ Borrow(n) PROVE Inv' /\ Once /\ Private!Next
  <2>1. Inv' /\ Once /\ call'.op = "make" /\ call'.on = n /\ Gives(n, call'.elems)
    BY <1>1, FromVecGives, BorrowGives
  <2>2. Private!Given(call') = call'.elems
    BY <2>1 DEF Private!Given
  <2> QED
    BY <2>1, <2>2, GivenMaps
<1>2. ASSUME NEW n \in Names, Drop(n) PROVE Inv' /\ Once /\ Private!Next
  <2>1. Inv' /\ Once /\ call'.op = "drop" /\ call'.on = n /\ Gives(n, None)
    BY <1>2, DropGives
  <2>2. Private!Given(call') = None
    BY <2>1 DEF Private!Given
  <2> QED
    BY <2>1, <2>2, GivenMaps
<1>3. ASSUME NEW n \in Names, Push(n) PROVE Inv' /\ Once /\ Private!Next
  <2>1. Inv' /\ Once /\ call'.op = "push" /\ call'.on = n /\ Gives(n, Append(Val(n), call'.elem))
    BY <1>3, PushGives
  <2>2. Private!Given(call') = Append(Val(n), call'.elem)
    BY <1>0, <2>1 DEF Private!Given, Value
  <2> QED
    BY <2>1, <2>2, GivenMaps
<1>4. ASSUME NEW n \in Names, Set(n) PROVE Inv' /\ Once /\ Private!Next
  <2>1. /\ Inv' /\ Once /\ call'.op = "set" /\ call'.on = n
        /\ Gives(n, [Val(n) EXCEPT ![call'.at] = call'.elem])
    BY <1>4, SetGives
  <2>2. Private!Given(call') = [Val(n) EXCEPT ![call'.at] = call'.elem]
    BY <1>0, <2>1 DEF Private!Given, Value
  <2> QED
    BY <2>1, <2>2, GivenMaps
<1>5. ASSUME NEW n \in Names, IntoVec(n) PROVE Inv' /\ Once /\ Private!Next
  <2>1. Inv' /\ Once /\ call'.op = "move" /\ call'.on = n /\ Gives(n, Val(n))
    BY <1>5, IntoVecGives
  <2>2. Private!Given(call') = Val(n)
    BY <1>0, <2>1 DEF Private!Given, Value
  <2> QED
    BY <2>1, <2>2, GivenMaps
<1>6. ASSUME NEW n \in Names, NEW m \in Names, Clone(n, m) PROVE Inv' /\ Once /\ Private!Next
  <2>1. Inv' /\ Once /\ call'.op = "clone" /\ call'.on = n /\ call'.of = m /\ Gives(n, Val(m))
    BY <1>6, CloneGives
  <2>2. Private!Given(call') = Val(m)
    BY <1>0, <2>1 DEF Private!Given, Value
  <2> QED
    BY <2>1, <2>2, GivenMaps
<1>7. ASSUME NEW n \in Names, NEW m \in Names, SliceOf(n, m) PROVE Inv' /\ Once /\ Private!Next
  <2>1. /\ Inv' /\ Once /\ call'.op = "slice" /\ call'.on = n /\ call'.of = m
        /\ Gives(n, SubSeq(Val(m), call'.from + 1, call'.upto))
    BY <1>7, SliceGives
  <2>2. Private!Given(call') = SubSeq(Val(m), call'.from + 1, call'.upto)
    BY <1>0, <2>1 DEF Private!Given, Value
  <2> QED
    BY <2>1, <2>2, GivenMaps
<1>8. ASSUME NEW n \in Names, NEW l \in Names, NEW m \in Names, Join(n, l, m)
      PROVE  Inv' /\ Once /\ Private!Next
  <2>1. /\ Inv' /\ Once /\ call'.op = "join" /\ call'.on = n /\ call'.of = l /\ call'.with = m
        /\ Gives(n, Val(l) \o Val(m))
    BY <1>8, JoinGives
  <2>2. Private!Given(call') = Val(l) \o Val(m)
    BY <1>0, <2>1 DEF Private!Given, Value
  <2> QED
    BY <2>1, <2>2, GivenMaps
<1>9. ASSUME NEW j \in DOMAIN joins, MakeJoin(j) PROVE Inv' /\ Once /\ Private!Next
  BY <1>9, MakeJoinGives, UnmovedMaps
<1>10. ASSUME NEW b \in Blocks, Reuse(b) PROVE Inv' /\ Once /\ Private!Next
  BY <1>10, ReuseGives, UnmovedMaps
<1> QED
  BY <1>1, <1>2, <1>3, <1>4, <1>5, <1>6, <1>7, <1>8, <1>9, <1>10 DEF Operation

LEMMA InitHolds == Init => Inv /\ Private!Init
<1> SUFFICES ASSUME Init PROVE Inv /\ Private!Init
  OBVIOUS
<1>1. /\ buf = [n \in Names |-> None] /\ heap = <<>> /\ joins = <<>> /\ call = [op |-> "none"]
      /\ block \in [Blocks -> {s \in Vectors : Len(s) = LEN}]
  BY DEF Init, Quiet
<1>2. DOMAIN heap = {} /\ DOMAIN joins = {}
  BY <1>1
<1>3. TypeOK
  <2>1. block \in [Blocks -> {s \in Seq(Elements) : Len(s) = LEN}]
    BY <1>1, BuffersAssumption
  <2>2. buf \in [Names -> {None} \cup Plains(heap) \cup {Cols(j) : j \in DOMAIN joins}]
    BY <1>1
  <2> QED
    BY <1>2, <2>1, <2>2 DEF TypeOK
<1>4. JoinsFit /\ JoinsHeld
  BY <1>1, <1>2 DEF JoinsFit, JoinsHeld, Held, Named
<1>5. Private!Init
  BY <1>1 DEF Private!Init
<1> QED
  BY <1>3, <1>4, <1>5 DEF Inv

LEMMA StepHolds == Inv /\ [Next]_vars => Inv' /\ [Once]_vars /\ [Private!Next]_<<Value, call>>
<1> SUFFICES ASSUME Inv, [Next]_vars PROVE Inv' /\ [Once]_vars /\ [Private!Next]_<<Value, call>>
  OBVIOUS
<1>1. CASE Next
  BY <1>1, OperationMaps DEF Next
<1>2. CASE UNCHANGED vars
  <2>1. buf' = buf /\ heap' = heap /\ joins' = joins /\ block' = block /\ call' = call
    BY <1>2 DEF vars
  <2>2. Inv'
    <3>1. TypeOK'
      BY <2>1 DEF Inv, TypeOK, Plains
    <3>2. JoinsFit'
      BY <2>1 DEF Inv, JoinsFit, JoinOf, PlainOf
    <3>3. JoinsHeld'
      BY <2>1 DEF Inv, JoinsHeld, Held, Named
    <3> QED
      BY <3>1, <3>2, <3>3 DEF Inv
  <2>3. Value' = Value
    BY <2>1 DEF Value, AsSlice, Joined, Plain
  <2> QED
    BY <1>2, <2>1, <2>2, <2>3
<1> QED
  BY <1>1, <1>2

LEMMA Invariance == Spec => []Inv
<1>1. Init => Inv
  BY InitHolds
<1>2. Inv /\ [Next]_vars => Inv'
  BY StepHolds
<1> QED
  BY <1>1, <1>2, PTL DEF Spec

(* Every buffer there ever is names storage that is there, and its window  *)
(* lies within it: nothing freed or given back is read.                    *)
THEOREM BuffersAreTyped == Spec => []TypeOK
<1>1. Inv => TypeOK
  BY DEF Inv
<1> QED
  BY <1>1, Invariance, PTL

(* However buffers are cloned, sliced, joined, borrowed, moved and written,*)
(* each is what it would be were it a sequence of its own ("a Buf behaves  *)
(* as a private value however cheaply it was cloned").                     *)
THEOREM BuffersArePrivate == Spec => ImplementsPrivate
<1>1. Init => Private!Init
  BY InitHolds
<1>2. Inv /\ [Next]_vars => [Private!Next]_<<Value, call>>
  BY StepHolds
<1> QED
  BY <1>1, <1>2, Invariance, PTL DEF Spec, ImplementsPrivate, Private!Spec, Value

(* A join is made at most once for all the clones that share it, and what  *)
(* was made is neither replaced nor written to.                            *)
THEOREM JoinMadeOnceAlways == Spec => JoinMadeOnce
<1>1. Inv /\ [Next]_vars => [Once]_vars
  BY StepHolds
<1> QED
  BY <1>1, Invariance, PTL DEF Spec, JoinMadeOnce, Once
=============================================================================
