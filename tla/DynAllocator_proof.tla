------------------------- MODULE DynAllocator_proof -------------------------
(***************************************************************************)
(* Proofs about ggml_dyn_tallocr, for all tensors, sizes, alignments and   *)
(* chunks: no two tensors ever share memory, no byte is lost, and free     *)
(* neighbours are one block.                                               *)
(***************************************************************************)
EXTENDS DynAllocator, FiniteSetTheorems, SequenceTheorems, TLAPS

\* What holds of the free blocks of one chunk: none is empty, no two overlap.
Solid(free) == \A i \in DOMAIN free : free[i].size > 0
Disjoint(free) == \A i, k \in DOMAIN free : i # k => Apart(free[i], free[k])
Sound(free) == free \in Seq(Block) /\ Solid(free) /\ Disjoint(free)

\* The blocks leave region r alone.
Clear(free, r) == \A i \in DOMAIN free : Apart(free[i], r)

\* A place in memory: a block, or the region of a tensor.
IsPlace(r) == r.offset \in Nat /\ r.size \in Nat /\ r.size > 0

DynTypeOK ==
    /\ chunks \in Seq(Chunk)
    /\ owned \in [Tensors -> Region]

OwnedInv ==
    \A t \in Tensors : owned[t] # Nowhere =>
        owned[t].chunk \in DOMAIN chunks /\ owned[t].size > 0

FreeInv == \A c \in DOMAIN chunks : Sound(Free(c))

ClearInv == \A c \in DOMAIN chunks, t \in Tensors :
                owned[t].chunk = c => Clear(Free(c), owned[t])

DynInv == DynTypeOK /\ OwnedInv /\ FreeInv /\ ClearInv /\ NoOverlap
-----------------------------------------------------------------------------
\* Padding keeps a size positive and adds less than one alignment.
LEMMA AlignedSize ==
    ASSUME NEW size \in Nat \ {0}
    PROVE  Aligned(size) \in Nat \ {0} /\ Aligned(size) >= size
           /\ Aligned(size) < size + Alignment
<1>1. Alignment \in Nat \ {0} BY DynAllocatorAssumption
<1>. DEFINE q == (size + Alignment - 1) \div Alignment
            m == (size + Alignment - 1) % Alignment
<1>2. size + Alignment - 1 = Alignment * q + m /\ q \in Nat /\ m \in 0 .. Alignment - 1
  BY <1>1
<1>3. Aligned(size) = q * Alignment BY DEF Aligned
<1>. QED BY <1>1, <1>2, <1>3

\* What is left of a sequence when one element is removed.
LEMMA RemoveAtFacts ==
    ASSUME NEW S, NEW f \in Seq(S), NEW i \in DOMAIN f
    PROVE  /\ RemoveAt(f, i) \in Seq(S)
           /\ Len(RemoveAt(f, i)) = Len(f) - 1
           /\ \A k \in 1 .. Len(f) - 1 :
                 RemoveAt(f, i)[k] = IF k < i THEN f[k] ELSE f[k + 1]
<1>. DEFINE a == SubSeq(f, 1, i - 1)
            b == SubSeq(f, i + 1, Len(f))
<1>1. a \in Seq(S) /\ Len(a) = i - 1 /\ \A k \in 1 .. i - 1 : a[k] = f[k]
  BY SubSeqProperties, SubSeqEmpty
<1>2. b \in Seq(S) /\ Len(b) = Len(f) - i /\ \A k \in 1 .. Len(f) - i : b[k] = f[i + k]
  BY SubSeqProperties, SubSeqEmpty
<1>3. RemoveAt(f, i) = a \o b BY DEF RemoveAt
<1>4. /\ a \o b \in Seq(S)
      /\ Len(a \o b) = Len(a) + Len(b)
      /\ \A k \in 1 .. Len(a) + Len(b) :
            (a \o b)[k] = IF k <= Len(a) THEN a[k] ELSE b[k - Len(a)]
  BY <1>1, <1>2, ConcatProperties, Zenon
<1>5. i \in 1 .. Len(f) /\ Len(f) \in Nat BY LenProperties
<1>. HIDE DEF a, b
<1>6. Len(a) + Len(b) = Len(f) - 1 BY <1>1, <1>2, <1>5
<1>7. ASSUME NEW k \in 1 .. Len(f) - 1
      PROVE  (a \o b)[k] = IF k < i THEN f[k] ELSE f[k + 1]
  <2>1. CASE k < i
    <3>1. k \in 1 .. i - 1 /\ k \in 1 .. Len(a) + Len(b) /\ k <= Len(a)
      BY <2>1, <1>1, <1>5, <1>6
    <3>2. (a \o b)[k] = a[k] BY <1>4, <3>1
    <3>3. a[k] = f[k] BY <1>1, <3>1
    <3>. QED BY <2>1, <3>2, <3>3
  <2>2. CASE k >= i
    <3>0. k \in 1 .. Len(a) + Len(b) /\ ~(k <= Len(a)) /\ Len(a) = i - 1
      BY <2>2, <1>1, <1>5, <1>6
    <3>1. (a \o b)[k] = b[k - (i - 1)] BY <1>4, <3>0
    <3>2. b[k - (i - 1)] = f[i + (k - (i - 1))]
      <4>1. k - (i - 1) \in 1 .. Len(f) - i BY <2>2, <1>5
      <4>. QED BY <1>2, <4>1
    <3>3. i + (k - (i - 1)) = k + 1 /\ ~(k < i) BY <2>2, <1>5
    <3>. QED BY <3>1, <3>2, <3>3
  <2>3. k < i \/ k >= i BY <1>5
  <2>. QED BY <2>1, <2>2, <2>3, Zenon
<1>. QED BY <1>3, <1>4, <1>6, <1>7

\* And when one is inserted.
IsInserted(g, f, i, e) ==
    /\ Len(g) = Len(f) + 1
    /\ \A k \in 1 .. Len(f) + 1 :
          g[k] = IF k < i THEN f[k] ELSE IF k = i THEN e ELSE f[k - 1]

LEMMA InsertAtFacts ==
    ASSUME NEW S, NEW f \in Seq(S), NEW e \in S, NEW i \in 1 .. Len(f) + 1
    PROVE  InsertAt(f, i, e) \in Seq(S) /\ IsInserted(InsertAt(f, i, e), f, i, e)
<1>. DEFINE a == SubSeq(f, 1, i - 1)
            b == SubSeq(f, i, Len(f))
            ae == a \o <<e>>
<1>1. a \in Seq(S) /\ Len(a) = i - 1 /\ \A k \in 1 .. i - 1 : a[k] = f[k]
  BY SubSeqProperties, SubSeqEmpty
<1>2. b \in Seq(S) /\ Len(b) = Len(f) - i + 1 /\ \A k \in 1 .. Len(b) : b[k] = f[i + k - 1]
  BY SubSeqProperties, SubSeqEmpty
<1>3. InsertAt(f, i, e) = ae \o b BY DEF InsertAt
<1>4. ae \in Seq(S) /\ Len(ae) = i
      /\ \A k \in 1 .. i : ae[k] = IF k < i THEN f[k] ELSE e
  <2>1. <<e>> \in Seq(S) /\ Len(<<e>>) = 1 /\ <<e>>[1] = e OBVIOUS
  <2>2. /\ ae \in Seq(S)
        /\ Len(ae) = Len(a) + Len(<<e>>)
        /\ \A k \in 1 .. Len(a) + Len(<<e>>) :
              ae[k] = IF k <= Len(a) THEN a[k] ELSE <<e>>[k - Len(a)]
    BY <1>1, <2>1, ConcatProperties, Zenon
  <2>3. i \in Nat BY LenProperties
  <2>. HIDE DEF a, ae
  <2>. QED BY <1>1, <2>1, <2>2, <2>3
<1>5. /\ ae \o b \in Seq(S)
      /\ Len(ae \o b) = Len(ae) + Len(b)
      /\ \A k \in 1 .. Len(ae) + Len(b) :
            (ae \o b)[k] =
                IF k <= Len(ae) THEN ae[k] ELSE b[k - Len(ae)]
  BY <1>2, <1>4, ConcatProperties, ZenonT(30)
<1>6. Len(f) \in Nat BY LenProperties
<1>. HIDE DEF a, b, ae
<1>7. Len(ae) + Len(b) = Len(f) + 1 BY <1>2, <1>4, <1>6
<1>8. ASSUME NEW k \in 1 .. Len(f) + 1
      PROVE  (ae \o b)[k] = IF k < i THEN f[k] ELSE IF k = i THEN e ELSE f[k - 1]
  <2>1. CASE k <= i
    <3>1. (ae \o b)[k] = ae[k] BY <2>1, <1>4, <1>5, <1>6, <1>7
    <3>. QED BY <2>1, <3>1, <1>4, <1>6
  <2>2. CASE k > i
    <3>1. (ae \o b)[k] = b[k - i] BY <2>2, <1>4, <1>5, <1>6, <1>7
    <3>2. b[k - i] = f[i + (k - i) - 1] BY <2>2, <1>2, <1>6
    <3>3. i + (k - i) - 1 = k - 1 /\ ~(k < i) /\ k # i BY <2>2, <1>6
    <3>. QED BY <3>1, <3>2, <3>3
  <2>3. k <= i \/ k > i BY <1>6
  <2>. QED BY <2>1, <2>2, <2>3, Zenon
<1>. QED BY <1>3, <1>5, <1>7, <1>8 DEF IsInserted
-----------------------------------------------------------------------------
\* Dropping a block keeps the list sound; the blocks left are those of the other
\* positions.
LEMMA DropBlock ==
    ASSUME NEW free, Sound(free), NEW i \in DOMAIN free,
           NEW left, left = RemoveAt(free, i)
    PROVE  /\ Sound(left)
           /\ DOMAIN left = 1 .. Len(free) - 1
           /\ \A k \in DOMAIN left : left[k] = IF k < i THEN free[k] ELSE free[k + 1]
           /\ \A k \in DOMAIN left : \E j \in DOMAIN free : left[k] = free[j] /\ j # i
<1>1. /\ free \in Seq(Block) /\ DOMAIN free = 1 .. Len(free) /\ Len(free) \in Nat
  BY LenProperties DEF Sound
<1>2. /\ left \in Seq(Block) /\ DOMAIN left = 1 .. Len(free) - 1
      /\ \A k \in DOMAIN left : left[k] = IF k < i THEN free[k] ELSE free[k + 1]
  <2>1. /\ left \in Seq(Block) /\ Len(left) = Len(free) - 1
        /\ \A k \in 1 .. Len(free) - 1 : left[k] = IF k < i THEN free[k] ELSE free[k + 1]
    BY <1>1, RemoveAtFacts, Zenon
  <2>2. DOMAIN left = 1 .. Len(left) BY <2>1, LenProperties, Zenon
  <2>. QED BY <2>1, <2>2
<1>3. \A k \in DOMAIN left : \E j \in DOMAIN free : left[k] = free[j] /\ j # i
  BY <1>1, <1>2
<1>4. \A k, l \in DOMAIN left : k # l =>
         \E j, m \in DOMAIN free : left[k] = free[j] /\ left[l] = free[m] /\ j # m
  <2>. TAKE k, l \in DOMAIN left
  <2>. HAVE k # l
  <2>. DEFINE From(n) == IF n < i THEN n ELSE n + 1
  <2>1. From(k) \in DOMAIN free /\ From(l) \in DOMAIN free /\ From(k) # From(l)
    BY <1>1, <1>2
  <2>2. left[k] = free[From(k)] /\ left[l] = free[From(l)] BY <1>2
  <2>. QED BY <2>1, <2>2
<1>5. Sound(left) BY <1>2, <1>3, <1>4 DEF Sound, Solid, Disjoint
<1>. QED BY <1>2, <1>3, <1>5

\* Changing a block keeps the list sound where the new block is apart from the
\* others.
LEMMA ChangeBlock ==
    ASSUME NEW free, Sound(free), NEW i \in DOMAIN free, NEW b \in Block, b.size > 0,
           \A k \in DOMAIN free : k # i => Apart(b, free[k]),
           NEW left, left = [free EXCEPT ![i] = b]
    PROVE  /\ Sound(left)
           /\ \A x : Clear(free, x) /\ Apart(b, x) => Clear(left, x)
<1>1. free \in Seq(Block) /\ DOMAIN free = 1 .. Len(free) BY LenProperties DEF Sound
<1>2. /\ left \in Seq(Block) /\ DOMAIN left = DOMAIN free
      /\ \A k \in DOMAIN free : left[k] = IF k = i THEN b ELSE free[k]
  BY <1>1, ExceptSeq
<1>3. Solid(left) BY <1>2 DEF Sound, Solid
<1>4. ASSUME NEW k \in DOMAIN free, NEW l \in DOMAIN free, k # l
      PROVE  Apart(left[k], left[l])
  <2>1. Apart(free[k], free[l]) BY <1>4 DEF Sound, Disjoint
  <2>2. CASE k = i BY <1>2, <1>4, <2>2
  <2>3. CASE l = i
    <3>1. Apart(b, free[k]) BY <1>4, <2>3
    <3>. QED BY <1>2, <1>4, <2>3, <3>1 DEF Apart
  <2>4. CASE k # i /\ l # i BY <1>2, <2>1, <2>4
  <2>. QED BY <2>2, <2>3, <2>4
<1>5. \A x : Clear(free, x) /\ Apart(b, x) => Clear(left, x) BY <1>2 DEF Clear
<1>. QED BY <1>2, <1>3, <1>4, <1>5 DEF Sound, Disjoint

\* Taking the start of a block, all of it or less, leaves the list sound and
\* clear of what was taken and of all it was clear of before.
Remaining(free, i, size) ==
    IF free[i].size = size THEN RemoveAt(free, i)
    ELSE [free EXCEPT ![i] = [offset |-> free[i].offset + size,
                              size |-> free[i].size - size]]

LEMMA TakeFromBlock ==
    ASSUME NEW free, Sound(free), NEW i \in DOMAIN free,
           NEW size \in Nat \ {0}, size <= free[i].size,
           NEW left, left = Remaining(free, i, size)
    PROVE  /\ Sound(left)
           /\ \A r : r.offset = free[i].offset /\ r.size = size => Clear(left, r)
           /\ \A x : IsPlace(x) /\ Clear(free, x) => Clear(left, x)
<1>1. /\ free \in Seq(Block) /\ DOMAIN free = 1 .. Len(free) /\ Len(free) \in Nat
      /\ \A k \in DOMAIN free : free[k] \in Block
  BY LenProperties, ElementOfSeq DEF Sound
<1>2. CASE free[i].size = size
  <2>1. left = RemoveAt(free, i) BY <1>2 DEF Remaining
  <2>2. /\ Sound(left)
        /\ \A k \in DOMAIN left : \E j \in DOMAIN free : left[k] = free[j] /\ j # i
    BY <2>1, DropBlock, Zenon
  <2>3. ASSUME NEW r, r.offset = free[i].offset, r.size = size
        PROVE  Clear(left, r)
    <3>1. \A j \in DOMAIN free : j # i => Apart(free[i], free[j])
      BY <1>1 DEF Sound, Disjoint
    <3>2. ASSUME NEW j \in DOMAIN free, j # i PROVE Apart(r, free[j])
      BY <1>2, <2>3, <3>1, <3>2 DEF Apart, End
    <3>. QED BY <2>2, <3>2 DEF Clear, Apart
  <2>4. \A x : Clear(free, x) => Clear(left, x) BY <2>2 DEF Clear
  <2>. QED BY <2>2, <2>3, <2>4
<1>3. CASE free[i].size # size
  <2>. DEFINE b == [offset |-> free[i].offset + size, size |-> free[i].size - size]
  <2>1. b \in Block /\ b.size > 0 /\ End(b) = End(free[i]) /\ b.offset >= free[i].offset
        /\ b.offset = free[i].offset + size
    BY <1>1, <1>3, SMTT(30) DEF Block, End
  <2>2. left = [free EXCEPT ![i] = b] BY <1>3 DEF Remaining
  <2>. HIDE DEF b
  <2>3. ASSUME NEW x, Apart(free[i], x), x.offset \in Nat, x.size \in Nat
        PROVE  Apart(b, x)
    <3>1. free[i].offset \in Nat /\ free[i].size \in Nat /\ b.offset \in Nat /\ b.size \in Nat
      BY <1>1, <2>1 DEF Block
    <3>2. End(free[i]) = free[i].offset + free[i].size /\ End(x) = x.offset + x.size
      BY DEF End
    <3>. QED BY <2>1, <2>3, <3>1, <3>2 DEF Apart
  <2>4. \A k \in DOMAIN free : k # i => Apart(b, free[k])
    BY <1>1, <2>3 DEF Sound, Disjoint, Block
  <2>5. Sound(left) /\ \A x : Clear(free, x) /\ Apart(b, x) => Clear(left, x)
    BY <2>1, <2>2, <2>4, ChangeBlock, Zenon
  <2>6. ASSUME NEW r, r.offset = free[i].offset, r.size = size
        PROVE  Clear(left, r)
    <3>1. Apart(b, r) BY <1>1, <2>1, <2>6 DEF Apart, End, Block
    <3>2. ASSUME NEW k \in DOMAIN free, k # i PROVE Apart(free[k], r)
      <4>1. Apart(free[k], free[i]) BY <3>2 DEF Sound, Disjoint
      <4>. QED BY <1>1, <2>6, <4>1 DEF Apart, End, Block
    <3>3. \A k \in DOMAIN left : left[k] = IF k = i THEN b ELSE free[k]
      BY <1>1, <2>1, <2>2, ExceptSeq
    <3>4. DOMAIN left = DOMAIN free BY <2>2
    <3>. QED BY <3>1, <3>2, <3>3, <3>4 DEF Clear
  <2>7. ASSUME NEW x, IsPlace(x), Clear(free, x) PROVE Clear(left, x)
    <3>1. Apart(b, x) BY <2>3, <2>7 DEF Clear, IsPlace
    <3>. QED BY <2>5, <2>7, <3>1
  <2>. QED BY <2>5, <2>6, <2>7
<1>. QED BY <1>2, <1>3

\* What is apart from two neighbours is apart from the block they are joined to.
LEMMA JoinApart ==
    ASSUME NEW a, NEW b, NEW x, IsPlace(a), IsPlace(b), IsPlace(x),
           End(a) = b.offset, Apart(a, x), Apart(b, x),
           NEW j, j.offset = a.offset, j.size = a.size + b.size
    PROVE  Apart(j, x) /\ IsPlace(j) /\ End(j) = End(b)
BY DEF IsPlace, Apart, End

\* A freed region joined to the blocks it touches.
LEMMA MergedBlock ==
    ASSUME NEW free, Sound(free), NEW offset \in Nat, NEW size \in Nat \ {0},
           Clear(free, [offset |-> offset, size |-> size]),
           NEW i \in DOMAIN free, Touches(free[i], offset, size)
    PROVE  LET left == MergedAt(free, i, offset, size) IN
           /\ Sound(left)
           /\ \A x : IsPlace(x) /\ Clear(free, x)
                     /\ Apart([offset |-> offset, size |-> size], x) => Clear(left, x)
<1>. DEFINE left == MergedAt(free, i, offset, size)
            freed == [offset |-> offset, size |-> size]
            Before(x) == IsPlace(x) /\ Clear(free, x) /\ Apart(freed, x)
<1>1. /\ free \in Seq(Block) /\ DOMAIN free = 1 .. Len(free) /\ Len(free) \in Nat
      /\ \A k \in DOMAIN free : free[k] \in Block /\ IsPlace(free[k])
  <2>1. free \in Seq(Block) BY DEF Sound
  <2>2. DOMAIN free = 1 .. Len(free) /\ Len(free) \in Nat BY <2>1, LenProperties
  <2>3. \A k \in DOMAIN free : free[k] \in Block BY <2>1, <2>2, ElementOfSeq
  <2>. QED BY <2>1, <2>2, <2>3 DEF Sound, Solid, Block, IsPlace
<1>2. IsPlace(freed) /\ freed.offset = offset /\ freed.size = size BY DEF IsPlace
<1>3. \A k \in DOMAIN free : Apart(free[k], freed) /\ Apart(freed, free[k])
  BY DEF Clear, Apart
<1>4. \A k, l \in DOMAIN free : k # l => Apart(free[k], free[l]) BY DEF Sound, Disjoint
<1>. HIDE DEF freed
<1>5. CASE End(free[i]) = offset
  <2>1. CASE i < Len(free) /\ offset + size = free[i + 1].offset
    <3>. DEFINE b == [offset |-> free[i].offset,
                      size |-> free[i].size + size + free[i + 1].size]
                g == [offset |-> free[i].offset, size |-> free[i].size + size]
                rest == RemoveAt(free, i + 1)
    <3>1. i + 1 \in DOMAIN free /\ i + 1 # i BY <1>1, <2>1, SMTT(30)
    <3>2. left = [rest EXCEPT ![i] = b] BY <1>5, <2>1 DEF MergedAt
    <3>3. /\ Sound(rest) /\ DOMAIN rest = 1 .. Len(free) - 1
          /\ \A k \in DOMAIN rest : rest[k] = IF k < i + 1 THEN free[k] ELSE free[k + 1]
          /\ \A k \in DOMAIN rest : \E j \in DOMAIN free : rest[k] = free[j] /\ j # i + 1
      BY <3>1, DropBlock, SMTT(30) DEF rest
    <3>. HIDE DEF rest
    <3>4. ASSUME NEW x, IsPlace(x), Apart(free[i], x), Apart(freed, x), Apart(free[i + 1], x)
          PROVE  Apart(b, x)
      <4>1. Apart(g, x) /\ IsPlace(g) /\ End(g) = End(freed)
        BY <1>1, <1>2, <1>5, <3>4, JoinApart, SMTT(30)
      <4>2. End(g) = free[i + 1].offset BY <1>2, <2>1, <4>1 DEF End
      <4>3. b.offset = g.offset /\ b.size = g.size + free[i + 1].size OBVIOUS
      <4>. HIDE DEF b, g
      <4>. QED BY <1>1, <3>1, <3>4, <4>1, <4>2, <4>3, JoinApart
    <3>5. b \in Block /\ b.size > 0 BY <1>1, <3>1, SMTT(30) DEF Block, IsPlace
    <3>6. i \in DOMAIN rest BY <1>1, <2>1, <3>3
    <3>. HIDE DEF b
    <3>7. ASSUME NEW k \in DOMAIN rest, k # i
          PROVE  \E j \in DOMAIN free : rest[k] = free[j] /\ j # i /\ j # i + 1
      <4>1. CASE k < i + 1
        BY <1>1, <3>3, <3>7, <4>1
      <4>2. CASE ~(k < i + 1)
        <5>1. k + 1 \in DOMAIN free /\ k + 1 # i /\ k + 1 # i + 1 BY <1>1, <3>3, <3>7, <4>2
        <5>. QED BY <3>3, <4>2, <5>1
      <4>. QED BY <4>1, <4>2
    <3>8. \A k \in DOMAIN rest : k # i => Apart(b, rest[k])
      BY <1>1, <1>3, <1>4, <3>1, <3>4, <3>7, SMTT(30)
    <3>9. Sound(left) /\ \A x : Clear(rest, x) /\ Apart(b, x) => Clear(left, x)
      BY <3>2, <3>3, <3>5, <3>6, <3>8, ChangeBlock, Zenon
    <3>10. \A x : Before(x) => Clear(rest, x) /\ Apart(b, x)
      BY <3>1, <3>3, <3>4 DEF Clear
    <3>. QED BY <3>9, <3>10 DEF freed
  <2>2. CASE ~(i < Len(free) /\ offset + size = free[i + 1].offset)
    <3>. DEFINE b == [offset |-> free[i].offset, size |-> free[i].size + size]
    <3>1. left = [free EXCEPT ![i] = b] BY <1>5, <2>2 DEF MergedAt
    <3>2. ASSUME NEW x, IsPlace(x), Apart(free[i], x), Apart(freed, x)
          PROVE  Apart(b, x)
      BY <1>1, <1>2, <1>5, <3>2, JoinApart
    <3>3. b \in Block /\ b.size > 0 BY <1>1 DEF Block, IsPlace
    <3>. HIDE DEF b
    <3>4. \A k \in DOMAIN free : k # i => Apart(b, free[k])
      BY <1>1, <1>3, <1>4, <3>2
    <3>5. Sound(left) /\ \A x : Clear(free, x) /\ Apart(b, x) => Clear(left, x)
      BY <3>1, <3>3, <3>4, ChangeBlock, Zenon
    <3>. QED BY <3>2, <3>5 DEF freed, Clear
  <2>. QED BY <2>1, <2>2
<1>6. CASE End(free[i]) # offset
  <2>0. offset + size = free[i].offset /\ End(freed) = free[i].offset
    BY <1>2, <1>6 DEF Touches, End
  <2>1. CASE i > 1 /\ End(free[i - 1]) = offset
    <3>. DEFINE b == [offset |-> free[i - 1].offset,
                      size |-> free[i - 1].size + free[i].size + size]
                g == [offset |-> free[i - 1].offset, size |-> free[i - 1].size + size]
                rest == RemoveAt(free, i)
    <3>1. i - 1 \in DOMAIN free /\ i - 1 # i BY <1>1, <2>1
    <3>2. left = [rest EXCEPT ![i - 1] = b] BY <1>6, <2>1 DEF MergedAt
    <3>3. /\ Sound(rest) /\ DOMAIN rest = 1 .. Len(free) - 1
          /\ \A k \in DOMAIN rest : rest[k] = IF k < i THEN free[k] ELSE free[k + 1]
          /\ \A k \in DOMAIN rest : \E j \in DOMAIN free : rest[k] = free[j] /\ j # i
      BY DropBlock DEF rest
    <3>. HIDE DEF rest
    <3>4. ASSUME NEW x, IsPlace(x), Apart(free[i - 1], x), Apart(freed, x), Apart(free[i], x)
          PROVE  Apart(b, x)
      <4>1. Apart(g, x) /\ IsPlace(g) /\ End(g) = End(freed)
        BY <1>1, <1>2, <2>1, <3>1, <3>4, JoinApart, SMTT(30)
      <4>2. b.offset = g.offset /\ b.size = g.size + free[i].size
        BY <1>1, <3>1 DEF IsPlace
      <4>. HIDE DEF b, g
      <4>. QED BY <1>1, <2>0, <3>4, <4>1, <4>2, JoinApart
    <3>5. b \in Block /\ b.size > 0 BY <1>1, <3>1, SMTT(30) DEF Block, IsPlace
    <3>6. i - 1 \in DOMAIN rest BY <1>1, <2>1, <3>3
    <3>. HIDE DEF b
    <3>7. ASSUME NEW k \in DOMAIN rest, k # i - 1
          PROVE  \E j \in DOMAIN free : rest[k] = free[j] /\ j # i /\ j # i - 1
      <4>1. CASE k < i
        BY <1>1, <3>3, <3>7, <4>1
      <4>2. CASE ~(k < i)
        <5>1. k + 1 \in DOMAIN free /\ k + 1 # i /\ k + 1 # i - 1 BY <1>1, <3>3, <3>7, <4>2
        <5>. QED BY <3>3, <4>2, <5>1
      <4>. QED BY <4>1, <4>2
    <3>8. \A k \in DOMAIN rest : k # i - 1 => Apart(b, rest[k])
      BY <1>1, <1>3, <1>4, <3>1, <3>4, <3>7, SMTT(30)
    <3>9. Sound(left) /\ \A x : Clear(rest, x) /\ Apart(b, x) => Clear(left, x)
      BY <3>2, <3>3, <3>5, <3>6, <3>8, ChangeBlock, Zenon
    <3>10. \A x : Before(x) => Clear(rest, x) /\ Apart(b, x)
      BY <3>1, <3>3, <3>4 DEF Clear
    <3>. QED BY <3>9, <3>10 DEF freed
  <2>2. CASE ~(i > 1 /\ End(free[i - 1]) = offset)
    <3>. DEFINE b == [offset |-> offset, size |-> free[i].size + size]
    <3>1. left = [free EXCEPT ![i] = b] BY <1>6, <2>2 DEF MergedAt
    <3>2. ASSUME NEW x, IsPlace(x), Apart(free[i], x), Apart(freed, x)
          PROVE  Apart(b, x)
      <4>1. b.offset = freed.offset /\ b.size = freed.size + free[i].size
        BY <1>1, <1>2 DEF IsPlace
      <4>. HIDE DEF b
      <4>. QED BY <1>1, <1>2, <2>0, <3>2, <4>1, JoinApart
    <3>3. b \in Block /\ b.size > 0 BY <1>1 DEF Block, IsPlace
    <3>. HIDE DEF b
    <3>4. \A k \in DOMAIN free : k # i => Apart(b, free[k])
      BY <1>1, <1>3, <1>4, <3>2
    <3>5. Sound(left) /\ \A x : Clear(free, x) /\ Apart(b, x) => Clear(left, x)
      BY <3>1, <3>3, <3>4, ChangeBlock, Zenon
    <3>. QED BY <3>2, <3>5 DEF freed, Clear
  <2>. QED BY <2>1, <2>2
<1>. QED BY <1>5, <1>6

\* A freed region that touches no block becomes one.
LEMMA InsertedBlock ==
    ASSUME NEW free, Sound(free), NEW b \in Block, b.size > 0, Clear(free, b),
           NEW i \in 1 .. Len(free) + 1, NEW left, left = InsertAt(free, i, b)
    PROVE  Sound(left) /\ \A x : Clear(free, x) /\ Apart(b, x) => Clear(left, x)
<1>1. /\ free \in Seq(Block) /\ DOMAIN free = 1 .. Len(free) /\ Len(free) \in Nat
  BY LenProperties DEF Sound
<1>2. /\ left \in Seq(Block) /\ Len(left) = Len(free) + 1
      /\ \A k \in 1 .. Len(free) + 1 :
            left[k] = IF k < i THEN free[k] ELSE IF k = i THEN b ELSE free[k - 1]
  <2>1. left \in Seq(Block) /\ IsInserted(left, free, i, b)
    BY <1>1, InsertAtFacts, Zenon
  <2>. QED BY <2>1 DEF IsInserted
<1>3. DOMAIN left = 1 .. Len(free) + 1 BY <1>2, LenProperties
<1>. DEFINE From(n) == IF n < i THEN n ELSE n - 1
<1>4. \A k \in DOMAIN left : k # i => From(k) \in DOMAIN free /\ left[k] = free[From(k)]
  BY <1>1, <1>2, <1>3
<1>5. \A k, l \in DOMAIN left : k # i /\ l # i /\ k # l => From(k) # From(l)
  BY <1>1, <1>3
<1>6. i \in DOMAIN left /\ left[i] = b BY <1>1, <1>2, <1>3
<1>. HIDE DEF From
<1>7. Solid(left) BY <1>4, <1>6 DEF Sound, Solid
<1>8. ASSUME NEW k \in DOMAIN left, NEW l \in DOMAIN left, k # l
      PROVE  Apart(left[k], left[l])
  <2>1. CASE k = i
    <3>1. Apart(free[From(l)], b) BY <1>4, <1>8, <2>1 DEF Clear
    <3>. QED BY <1>4, <1>6, <1>8, <2>1, <3>1 DEF Apart
  <2>2. CASE l = i
    <3>1. Apart(free[From(k)], b) BY <1>4, <1>8, <2>2 DEF Clear
    <3>. QED BY <1>4, <1>6, <1>8, <2>2, <3>1
  <2>3. CASE k # i /\ l # i BY <1>4, <1>5, <1>8, <2>3 DEF Sound, Disjoint
  <2>. QED BY <2>1, <2>2, <2>3
<1>9. \A x : Clear(free, x) /\ Apart(b, x) => Clear(left, x) BY <1>4, <1>6 DEF Clear
<1>. QED BY <1>2, <1>7, <1>8, <1>9 DEF Sound, Disjoint

\* ggml_dyn_tallocr_free_bytes: the blocks of one chunk change, and stay sound.
LEMMA FreedBytes ==
    ASSUME DynTypeOK, FreeInv, NEW c \in DOMAIN chunks,
           NEW offset \in Nat, NEW size \in Nat \ {0},
           Clear(Free(c), [offset |-> offset, size |-> size]),
           FreeBytes(c, offset, size)
    PROVE  \E left :
              /\ Sound(left)
              /\ chunks' = [chunks EXCEPT ![c].free = left]
              /\ \A x : IsPlace(x) /\ Clear(Free(c), x)
                        /\ Apart([offset |-> offset, size |-> size], x) => Clear(left, x)
<1>. DEFINE free == Free(c)
            b == [offset |-> offset, size |-> size]
            touching == {i \in DOMAIN free : Touches(free[i], offset, size)}
<1>1. Sound(free) BY DEF FreeInv
<1>2. b \in Block /\ b.size > 0 BY DEF Block
<1>3. CASE \E i \in touching :
              chunks' = [chunks EXCEPT ![c].free = MergedAt(free, i, offset, size)]
  <2>1. PICK i \in touching :
            chunks' = [chunks EXCEPT ![c].free = MergedAt(free, i, offset, size)]
    BY <1>3
  <2>. DEFINE left == MergedAt(free, i, offset, size)
  <2>2. Sound(left) /\ \A x : IsPlace(x) /\ Clear(free, x) /\ Apart(b, x) => Clear(left, x)
    BY <1>1, <2>1, MergedBlock
  <2>. QED BY <2>1, <2>2
<1>4. CASE \E i \in 1 .. Len(free) + 1 :
              chunks' = [chunks EXCEPT ![c].free = InsertAt(free, i, b)]
  <2>1. PICK i \in 1 .. Len(free) + 1 :
            chunks' = [chunks EXCEPT ![c].free = InsertAt(free, i, b)]
    BY <1>4
  <2>. DEFINE left == InsertAt(free, i, b)
  <2>2. Sound(left) /\ \A x : Clear(free, x) /\ Apart(b, x) => Clear(left, x)
    BY <1>1, <1>2, InsertedBlock
  <2>. QED BY <2>1, <2>2
<1>. QED BY <1>3, <1>4 DEF FreeBytes

\* What is apart from a region is apart from each part of it.
LEMMA PartApart ==
    ASSUME NEW r, NEW s, NEW x, IsPlace(r), IsPlace(s), IsPlace(x),
           s.offset >= r.offset, End(s) <= End(r)
    PROVE  /\ Apart(r, x) => Apart(s, x) /\ Apart(x, s)
           /\ Apart(x, r) => Apart(s, x) /\ Apart(x, s)
BY DEF IsPlace, Apart, End
-----------------------------------------------------------------------------
\* Handing out the start of a block of chunks that agree with what is owned.
LEMMA Taken ==
    ASSUME DynInv, NEW cs \in Seq(Chunk), DOMAIN chunks \subseteq DOMAIN cs,
           \A d \in DOMAIN cs : Sound(cs[d].free),
           \A d \in DOMAIN cs, u \in Tensors :
              owned[u].chunk = d => Clear(cs[d].free, owned[u]),
           NEW t \in Tensors, NEW c \in DOMAIN cs, NEW i \in DOMAIN cs[c].free,
           NEW size \in Nat \ {0}, size <= cs[c].free[i].size,
           Take(t, cs, c, i, size)
    PROVE  DynInv'
<1>. DEFINE free == cs[c].free
            b == free[i]
            left == Remaining(free, i, size)
            top == Larger(cs[c].max_size, b.offset + size)
            r == [chunk |-> c, offset |-> b.offset, size |-> size]
<1>1. chunks' = [cs EXCEPT ![c] = [free |-> left, max_size |-> top]]
      /\ owned' = [owned EXCEPT ![t] = r]
  BY DEF Take, Remaining
<1>2. /\ cs \in Seq(Chunk) /\ DOMAIN cs = 1 .. Len(cs) /\ Len(cs) \in Nat
      /\ cs[c] \in Chunk
  BY LenProperties, ElementOfSeq
<1>3. b \in Block /\ IsPlace(b)
  <2>1. free \in Seq(Block) /\ b.size > 0 BY DEF Sound, Solid
  <2>2. b \in Block BY <2>1, LenProperties, ElementOfSeq
  <2>. QED BY <2>1, <2>2 DEF Block, IsPlace
<1>4. r \in Region /\ IsPlace(r) /\ End(r) <= End(b) /\ r.offset >= b.offset
      /\ r.chunk = c /\ r.offset = b.offset /\ r.size = size
  BY <1>2, <1>3 DEF Region, IsPlace, Block, End
<1>5. /\ Sound(left)
      /\ Clear(left, r)
      /\ \A x : IsPlace(x) /\ Clear(free, x) => Clear(left, x)
  <2>1. Sound(free) /\ i \in DOMAIN free /\ size <= free[i].size OBVIOUS
  <2>2. left = Remaining(free, i, size) OBVIOUS
  <2>. HIDE DEF left, free
  <2>3. /\ Sound(left)
        /\ \A y : y.offset = free[i].offset /\ y.size = size => Clear(left, y)
        /\ \A x : IsPlace(x) /\ Clear(free, x) => Clear(left, x)
    BY <2>1, <2>2, TakeFromBlock, Zenon
  <2>. HIDE DEF r
  <2>. QED BY <1>4, <2>3, SMTT(30)
<1>6. top \in Nat BY <1>2, <1>3, SMTT(30) DEF Chunk, Block, Larger
<1>. HIDE DEF left, top, r, b
<1>7. [free |-> left, max_size |-> top] \in Chunk BY <1>5, <1>6 DEF Sound, Chunk
<1>8. /\ chunks' \in Seq(Chunk) /\ DOMAIN chunks' = DOMAIN cs
      /\ \A d \in DOMAIN cs : chunks'[d] = IF d = c THEN [free |-> left, max_size |-> top]
                                           ELSE cs[d]
  BY <1>1, <1>2, <1>7, ExceptSeq
<1>9. /\ owned' \in [Tensors -> Region]
      /\ \A u \in Tensors : owned'[u] = IF u = t THEN r ELSE owned[u]
  BY <1>1, <1>4 DEF DynInv, DynTypeOK
<1>10. \A u \in Tensors : owned[u].chunk \in DOMAIN cs => IsPlace(owned[u])
  <2>1. \A u \in Tensors : owned[u].chunk \in DOMAIN cs => owned[u] # Nowhere
    BY <1>2 DEF Nowhere
  <2>. QED BY <2>1 DEF DynInv, DynTypeOK, OwnedInv, Region, IsPlace
<1>11. DynTypeOK' BY <1>8, <1>9 DEF DynTypeOK
<1>12. OwnedInv'
  <2>1. r # Nowhere BY <1>2, <1>4 DEF Nowhere
  <2>. QED BY <1>4, <1>8, <1>9 DEF DynInv, OwnedInv
<1>13. FreeInv'
  <2>. SUFFICES ASSUME NEW d \in DOMAIN cs PROVE Sound(chunks'[d].free)
    BY <1>8 DEF FreeInv, Free, Sound, Solid, Disjoint, Apart, End
  <2>. QED BY <1>5, <1>8
<1>14. ClearInv'
  <2>. SUFFICES ASSUME NEW d \in DOMAIN cs, NEW u \in Tensors, owned'[u].chunk = d
                PROVE  Clear(chunks'[d].free, owned'[u])
    BY <1>8 DEF ClearInv, Free, Clear, Apart, End
  <2>1. CASE u = t BY <1>4, <1>5, <1>8, <1>9, <2>1
  <2>2. CASE u # t /\ d = c BY <1>5, <1>8, <1>9, <1>10, <2>2
  <2>3. CASE u # t /\ d # c BY <1>8, <1>9, <2>3
  <2>. QED BY <2>1, <2>2, <2>3
<1>15. NoOverlap'
  <2>1. ASSUME NEW u \in Tensors, u # t, owned[u].chunk = c
        PROVE  Apart(r, owned[u]) /\ Apart(owned[u], r)
    <3>1. Apart(b, owned[u]) BY <2>1 DEF Clear, b
    <3>. QED BY <1>3, <1>4, <1>10, <2>1, <3>1, PartApart
  <2>. SUFFICES ASSUME NEW u \in Tensors, NEW v \in Tensors, u # v,
                       owned'[u] # Nowhere, owned'[u].chunk = owned'[v].chunk
                PROVE  Apart(owned'[u], owned'[v])
    BY DEF NoOverlap, Apart, End
  <2>2. CASE u = t BY <1>4, <1>9, <2>1, <2>2
  <2>3. CASE v = t BY <1>4, <1>9, <2>1, <2>3
  <2>4. CASE u # t /\ v # t BY <1>9, <2>4 DEF DynInv, NoOverlap
  <2>. QED BY <2>2, <2>3, <2>4
<1>. QED BY <1>11, <1>12, <1>13, <1>14, <1>15 DEF DynInv
-----------------------------------------------------------------------------
\* Padded sizes, and why a new chunk is large enough.
LEMMA NewChunkFits ==
    ASSUME DynTypeOK, NEW size \in Sizes
    PROVE  LET fresh == NewChunk(Aligned(size)) IN
           /\ fresh \in Chunk /\ Sound(fresh.free) /\ DOMAIN fresh.free = {1}
           /\ Aligned(size) <= fresh.free[1].size
<1>. DEFINE n == Aligned(size)
            room == IF Len(chunks) = MaxChunks - 1 THEN Endless ELSE Larger(n, MaxChunkSize)
            b == [offset |-> 0, size |-> room]
<1>1. n \in Nat \ {0} /\ n < size + Alignment
  BY AlignedSize, DynAllocatorAssumption
<1>2. room \in Nat \ {0} /\ n <= room
  BY <1>1, DynAllocatorAssumption DEF Larger
<1>3. NewChunk(n) = [free |-> <<b>>, max_size |-> 0] BY DEF NewChunk
<1>. HIDE DEF n, room
<1>4. b \in Block /\ b.size = room BY <1>2 DEF Block
<1>. HIDE DEF b
<1>5. /\ <<b>> \in Seq(Block) /\ DOMAIN <<b>> = {1} /\ <<b>>[1] = b BY <1>4
<1>6. Sound(<<b>>) BY <1>2, <1>4, <1>5 DEF Sound, Solid, Disjoint
<1>. QED BY <1>2, <1>3, <1>4, <1>5, <1>6 DEF Chunk, n

\* ggml_dyn_tallocr_alloc.
LEMMA AllocStep ==
    ASSUME DynInv, NEW t \in Tensors, NEW size \in Sizes, Alloc(t, size)
    PROVE  DynInv'
<1>. DEFINE n == Aligned(size)
<1>1. n \in Nat \ {0} BY AlignedSize, DynAllocatorAssumption
<1>2. /\ chunks \in Seq(Chunk) /\ DOMAIN chunks = 1 .. Len(chunks) /\ Len(chunks) \in Nat
      /\ \A d \in DOMAIN chunks : Sound(chunks[d].free)
      /\ \A d \in DOMAIN chunks, u \in Tensors :
            owned[u].chunk = d => Clear(chunks[d].free, owned[u])
  BY LenProperties DEF DynInv, DynTypeOK, FreeInv, ClearInv, Free
<1>3. \A d \in DOMAIN chunks : Len(Free(d)) \in Nat /\ DOMAIN Free(d) = 1 .. Len(Free(d))
  BY <1>2, LenProperties DEF Free, Sound
<1>. HIDE DEF n
<1>4. CASE \E c \in DOMAIN chunks : \E i \in DOMAIN Free(c) :
              BestFit(c, i, n) /\ Take(t, chunks, c, i, n)
  <2>0. PICK c \in DOMAIN chunks :
            \E i \in DOMAIN Free(c) : BestFit(c, i, n) /\ Take(t, chunks, c, i, n)
    BY <1>4
  <2>1. PICK i \in DOMAIN Free(c) : BestFit(c, i, n) /\ Take(t, chunks, c, i, n)
    BY <2>0
  <2>2. i \in DOMAIN chunks[c].free /\ n <= chunks[c].free[i].size
    <3>1. Free(c) \in Seq(Block) BY <1>2 DEF Sound, Free
    <3>2. Free(c)[i] \in Block BY <1>3, <3>1, ElementOfSeq
    <3>. QED BY <1>1, <2>1, <3>2 DEF BestFit, Fits, Free, Block
  <2>. QED BY <1>1, <1>2, <2>1, <2>2, Taken
<1>5. CASE \E c \in DOMAIN chunks :
              BestReuse(c, n) /\ Take(t, chunks, c, Len(Free(c)), n)
  <2>1. PICK c \in DOMAIN chunks : BestReuse(c, n) /\ Take(t, chunks, c, Len(Free(c)), n)
    BY <1>5
  <2>2. Free(c) # <<>> /\ LastBlock(c).size >= n BY <2>1 DEF BestReuse, LastFits
  <2>3. Len(Free(c)) \in DOMAIN chunks[c].free
    <3>1. Free(c) \in Seq(Block) BY <1>2 DEF Sound, Free
    <3>2. Len(Free(c)) # 0 BY <2>2, <3>1, EmptySeq
    <3>. QED BY <1>3, <3>2 DEF Free
  <2>4. n <= chunks[c].free[Len(Free(c))].size
    <3>1. Free(c) \in Seq(Block) BY <1>2 DEF Sound, Free
    <3>2. Free(c)[Len(Free(c))] \in Block BY <1>3, <2>3, <3>1, ElementOfSeq DEF Free
    <3>. QED BY <1>1, <2>2, <3>2 DEF LastBlock, Free, Block
  <2>. QED BY <1>1, <1>2, <2>1, <2>3, <2>4, Taken
<1>6. CASE Take(t, Append(chunks, NewChunk(n)), Len(chunks) + 1, 1, n)
  <2>. DEFINE fresh == NewChunk(n)
              cs == Append(chunks, fresh)
  <2>1. /\ fresh \in Chunk /\ Sound(fresh.free) /\ DOMAIN fresh.free = {1}
        /\ n <= fresh.free[1].size
    BY NewChunkFits DEF DynInv, n
  <2>. HIDE DEF fresh
  <2>2. /\ cs \in Seq(Chunk) /\ DOMAIN cs = 1 .. Len(chunks) + 1
        /\ cs[Len(chunks) + 1] = fresh
        /\ \A d \in DOMAIN chunks : cs[d] = chunks[d]
    BY <1>2, <2>1, AppendProperties, LenProperties
  <2>. HIDE DEF cs
  <2>3. \A d \in DOMAIN cs : Sound(cs[d].free) BY <1>2, <2>1, <2>2
  <2>4. \A u \in Tensors : owned[u].chunk # Len(chunks) + 1
    <3>. TAKE u \in Tensors
    <3>1. CASE owned[u] = Nowhere BY <1>2, <3>1 DEF Nowhere
    <3>2. CASE owned[u] # Nowhere BY <1>2, <3>2 DEF DynInv, OwnedInv
    <3>. QED BY <3>1, <3>2
  <2>5. \A d \in DOMAIN cs, u \in Tensors :
           owned[u].chunk = d => Clear(cs[d].free, owned[u])
    BY <1>2, <2>2, <2>4
  <2>6. DOMAIN chunks \subseteq DOMAIN cs /\ Len(chunks) + 1 \in DOMAIN cs
        /\ 1 \in DOMAIN cs[Len(chunks) + 1].free
        /\ n <= cs[Len(chunks) + 1].free[1].size
    BY <1>2, <2>1, <2>2
  <2>7. Take(t, cs, Len(chunks) + 1, 1, n) BY <1>6 DEF cs, fresh
  <2>. QED BY <1>1, <2>2, <2>3, <2>5, <2>6, <2>7, Taken
<1>. QED BY <1>4, <1>5, <1>6 DEF Alloc, AllocAligned, n

\* A region, or the end of it, goes back to its chunk; what is owned then lies in
\* what was owned, and leaves the freed bytes alone.
LEMMA GivenBack ==
    ASSUME DynInv, owned' \in [Tensors -> Region],
           NEW p \in Tensors, owned[p] # Nowhere, NEW t \in Tensors,
           NEW offset \in Nat, NEW size \in Nat \ {0},
           offset >= owned[p].offset, offset + size <= End(owned[p]),
           FreeBytes(owned[p].chunk, offset, size),
           \A u \in Tensors : u # t /\ u # p => owned'[u] = owned[u],
           \A u \in {t, p} : owned'[u] # Nowhere =>
              /\ u = t
              /\ owned'[t].chunk = owned[p].chunk
              /\ IsPlace(owned'[t])
              /\ owned'[t].offset >= owned[p].offset
              /\ End(owned'[t]) <= offset
    PROVE  DynInv'
<1>. DEFINE c == owned[p].chunk
            freed == [offset |-> offset, size |-> size]
<1>1. /\ chunks \in Seq(Chunk) /\ DOMAIN chunks = 1 .. Len(chunks) /\ Len(chunks) \in Nat
      /\ \A d \in DOMAIN chunks : chunks[d] \in Chunk
  BY LenProperties, ElementOfSeq DEF DynInv, DynTypeOK
<1>2. /\ c \in DOMAIN chunks
      /\ \A u \in Tensors : owned[u] # Nowhere =>
            IsPlace(owned[u]) /\ owned[u].chunk \in DOMAIN chunks
      /\ \A u \in Tensors : owned[u].chunk \in DOMAIN chunks => owned[u] # Nowhere
  BY <1>1, SMTT(30) DEF DynInv, DynTypeOK, OwnedInv, Region, IsPlace, Nowhere
<1>3. IsPlace(freed) /\ freed.offset = offset /\ End(freed) = offset + size
  BY DEF IsPlace, End
<1>4. \A i \in DOMAIN Free(c) : IsPlace(Free(c)[i])
  <2>1. Free(c) \in Seq(Block) /\ Solid(Free(c)) BY <1>2 DEF DynInv, FreeInv, Sound
  <2>2. \A i \in DOMAIN Free(c) : Free(c)[i] \in Block BY <2>1, LenProperties, ElementOfSeq
  <2>. QED BY <2>1, <2>2 DEF Solid, Block, IsPlace
<1>. HIDE DEF freed
<1>5. ASSUME NEW s, IsPlace(s), s.offset >= owned[p].offset, End(s) <= End(owned[p])
      PROVE  /\ Clear(Free(c), s)
             /\ \A u \in Tensors : u # p /\ owned[u].chunk = c =>
                   Apart(s, owned[u]) /\ Apart(owned[u], s)
  <2>1. \A i \in DOMAIN Free(c) : Apart(Free(c)[i], owned[p])
    BY <1>2 DEF DynInv, ClearInv, Clear
  <2>2. Clear(Free(c), s) BY <1>2, <1>4, <1>5, <2>1, PartApart DEF Clear
  <2>3. \A u \in Tensors : u # p /\ owned[u].chunk = c => Apart(owned[p], owned[u])
    BY DEF DynInv, NoOverlap
  <2>. QED BY <1>2, <1>5, <2>2, <2>3, PartApart
<1>6. PICK left :
         /\ Sound(left)
         /\ chunks' = [chunks EXCEPT ![c].free = left]
         /\ \A x : IsPlace(x) /\ Clear(Free(c), x) /\ Apart(freed, x) => Clear(left, x)
  <2>1. Clear(Free(c), freed) BY <1>3, <1>5
  <2>. QED BY <1>2, <2>1, FreedBytes DEF DynInv, freed
<1>7. /\ chunks' \in Seq(Chunk) /\ DOMAIN chunks' = DOMAIN chunks
      /\ \A d \in DOMAIN chunks : chunks'[d].free = IF d = c THEN left ELSE chunks[d].free
  <2>. DEFINE new == [chunks[c] EXCEPT !.free = left]
  <2>1. new \in Chunk /\ new.free = left BY <1>1, <1>2, <1>6 DEF Chunk, Sound
  <2>2. chunks' = [chunks EXCEPT ![c] = new] BY <1>6
  <2>. HIDE DEF new
  <2>. QED BY <1>1, <1>2, <2>1, <2>2, ExceptSeq
<1>8. DynTypeOK' BY <1>7 DEF DynTypeOK
<1>9. \A u \in Tensors : owned'[u] # Nowhere =>
         /\ IsPlace(owned'[u]) /\ owned'[u].chunk \in DOMAIN chunks
         /\ u # p \/ u = t
         /\ u # t => owned'[u] = owned[u]
  BY <1>2
<1>10. OwnedInv' BY <1>7, <1>9 DEF OwnedInv, IsPlace
<1>11. FreeInv'
  <2>. SUFFICES ASSUME NEW d \in DOMAIN chunks PROVE Sound(chunks'[d].free)
    BY <1>7 DEF FreeInv, Free, Sound, Solid, Disjoint, Apart, End
  <2>. QED BY <1>6, <1>7 DEF DynInv, FreeInv, Free
<1>12. \A u \in Tensors : owned'[u].chunk \in DOMAIN chunks => owned'[u] # Nowhere
  BY <1>1 DEF Nowhere
<1>13. owned'[t] # Nowhere =>
          /\ owned'[t].chunk = c
          /\ Clear(Free(c), owned'[t]) /\ Apart(freed, owned'[t])
          /\ \A u \in Tensors : u # t /\ owned'[u].chunk = c =>
                Apart(owned'[t], owned'[u]) /\ Apart(owned'[u], owned'[t])
  <2>. HAVE owned'[t] # Nowhere
  <2>1. /\ owned'[t].chunk = c /\ IsPlace(owned'[t])
        /\ owned'[t].offset >= owned[p].offset /\ End(owned'[t]) <= offset
    OBVIOUS
  <2>2. IsPlace(owned[p]) /\ End(owned'[t]) <= End(owned[p])
    BY <1>2, <2>1 DEF IsPlace, End
  <2>3. Apart(freed, owned'[t]) BY <1>3, <2>1 DEF Apart
  <2>4. /\ Clear(Free(c), owned'[t])
        /\ \A u \in Tensors : u # p /\ owned[u].chunk = c =>
              Apart(owned'[t], owned[u]) /\ Apart(owned[u], owned'[t])
    BY <1>5, <2>1, <2>2
  <2>5. \A u \in Tensors : u # t /\ owned'[u].chunk = c => u # p /\ owned'[u] = owned[u]
    BY <1>2, <1>9, <1>12
  <2>. QED BY <2>1, <2>3, <2>4, <2>5
<1>14. ClearInv'
  <2>. SUFFICES ASSUME NEW d \in DOMAIN chunks, NEW u \in Tensors, owned'[u].chunk = d
                PROVE  Clear(chunks'[d].free, owned'[u])
    BY <1>7 DEF ClearInv, Free, Clear, Apart, End
  <2>1. owned'[u] # Nowhere BY <1>12
  <2>2. CASE u = t BY <1>6, <1>7, <1>9, <1>13, <2>1, <2>2
  <2>3. CASE u # t
    <3>1. u # p /\ owned'[u] = owned[u] BY <1>9, <2>1, <2>3
    <3>2. Clear(chunks[d].free, owned[u]) BY <3>1 DEF DynInv, ClearInv, Free
    <3>3. CASE d = c
      <4>1. Apart(freed, owned[u]) BY <1>3, <1>5, <3>1, <3>3
      <4>2. IsPlace(owned[u]) /\ Clear(Free(c), owned[u])
        BY <1>9, <2>1, <3>1, <3>2, <3>3 DEF Free
      <4>3. Clear(left, owned[u]) BY <1>6, <4>1, <4>2
      <4>. QED BY <1>7, <3>1, <3>3, <4>3
    <3>4. CASE d # c BY <1>7, <3>1, <3>2, <3>4
    <3>. QED BY <3>3, <3>4
  <2>. QED BY <2>2, <2>3
<1>15. NoOverlap'
  <2>. SUFFICES ASSUME NEW u \in Tensors, NEW v \in Tensors, u # v,
                       owned'[u] # Nowhere, owned'[u].chunk = owned'[v].chunk
                PROVE  Apart(owned'[u], owned'[v])
    BY DEF NoOverlap, Apart, End
  <2>1. owned'[v] # Nowhere BY <1>9, <1>12
  <2>2. CASE u = t BY <1>13, <2>2
  <2>3. CASE v = t BY <1>13, <2>1, <2>3
  <2>4. CASE u # t /\ v # t BY <1>9, <2>1, <2>4 DEF DynInv, NoOverlap
  <2>. QED BY <2>2, <2>3, <2>4
<1>. QED BY <1>8, <1>10, <1>11, <1>14, <1>15 DEF DynInv

LEMMA FreeStep ==
    ASSUME DynInv, NEW t \in Tensors, FreeTensor(t)
    PROVE  DynInv'
<1>1. /\ owned[t] # Nowhere /\ owned[t] \in Region /\ owned[t].size > 0
      /\ FreeBytes(owned[t].chunk, owned[t].offset, owned[t].size)
      /\ owned' = [owned EXCEPT ![t] = Nowhere]
  BY DEF FreeTensor, DynInv, DynTypeOK, OwnedInv
<1>2. /\ owned[t].offset \in Nat /\ owned[t].size \in Nat \ {0}
      /\ owned[t].offset + owned[t].size <= End(owned[t])
  BY <1>1 DEF Region, End
<1>3. /\ owned' \in [Tensors -> Region] /\ owned'[t] = Nowhere
      /\ \A u \in Tensors : u # t => owned'[u] = owned[u]
  BY <1>1 DEF DynInv, DynTypeOK, Region, Nowhere
<1>. QED BY <1>1, <1>2, <1>3, GivenBack

LEMMA HandOverStep ==
    ASSUME DynInv, NEW p \in Tensors, NEW t \in Tensors, NEW size \in Sizes,
           HandOver(p, t, size)
    PROVE  DynInv'
<1>. DEFINE n == Aligned(size)
            r == owned[p]
            s == [r EXCEPT !.size = n]
<1>1. n \in Nat \ {0} BY AlignedSize, DynAllocatorAssumption
<1>. HIDE DEF n
<1>2. /\ r # Nowhere /\ owned[t] = Nowhere /\ n <= r.size /\ p # t
      /\ owned' = [owned EXCEPT ![p] = Nowhere, ![t] = s]
  BY DEF HandOver, n
<1>3. r \in Region /\ IsPlace(r) /\ r.chunk \in DOMAIN chunks
  BY <1>2 DEF DynInv, DynTypeOK, OwnedInv, Region, IsPlace
<1>4. /\ s \in Region /\ IsPlace(s) /\ s.chunk = r.chunk /\ s.offset = r.offset
      /\ s.size = n /\ End(s) = r.offset + n
  BY <1>1, <1>3 DEF Region, IsPlace, End
<1>. HIDE DEF s
<1>5. /\ owned' \in [Tensors -> Region] /\ owned'[t] = s /\ owned'[p] = Nowhere
      /\ \A u \in Tensors : u # p /\ u # t => owned'[u] = owned[u]
  BY <1>2, <1>4 DEF DynInv, DynTypeOK, Region, Nowhere
<1>6. CASE n < r.size
  <2>1. FreeBytes(r.chunk, r.offset + n, r.size - n) BY <1>6 DEF HandOver, n
  <2>2. /\ r.offset + n \in Nat /\ r.size - n \in Nat \ {0} /\ r.offset + n >= r.offset
        /\ (r.offset + n) + (r.size - n) <= End(r)
    BY <1>1, <1>3, <1>6 DEF IsPlace, End
  <2>3. \A u \in {t, p} : owned'[u] # Nowhere =>
           /\ u = t
           /\ owned'[t].chunk = r.chunk
           /\ IsPlace(owned'[t])
           /\ owned'[t].offset >= r.offset
           /\ End(owned'[t]) <= r.offset + n
    BY <1>1, <1>3, <1>4, <1>5 DEF IsPlace
  <2>. QED BY <1>2, <1>5, <2>1, <2>2, <2>3, GivenBack
<1>7. CASE n = r.size
  <2>1. chunks' = chunks BY <1>3, <1>7 DEF HandOver, n, IsPlace
  <2>2. s = r BY <1>3, <1>7 DEF s, Region
  <2>3. DynTypeOK' BY <1>5, <2>1 DEF DynInv, DynTypeOK
  <2>4. OwnedInv' BY <1>2, <1>3, <1>5, <2>1, <2>2 DEF DynInv, OwnedInv, IsPlace
  <2>5. FreeInv' BY <2>1 DEF DynInv, FreeInv, Free, Sound, Solid, Disjoint, Apart, End
  <2>6. \A c \in DOMAIN chunks : Nowhere.chunk # c
    BY LenProperties DEF DynInv, DynTypeOK, Nowhere
  <2>7. ClearInv'
    <3>. SUFFICES ASSUME NEW c \in DOMAIN chunks, NEW u \in Tensors, owned'[u].chunk = c
                  PROVE  Clear(Free(c), owned'[u])
      BY <2>1 DEF ClearInv, Free, Clear, Apart, End
    <3>. QED BY <1>5, <2>2, <2>6 DEF DynInv, ClearInv
  <2>8. NoOverlap'
    <3>. SUFFICES ASSUME NEW u \in Tensors, NEW v \in Tensors, u # v,
                         owned'[u] # Nowhere, owned'[u].chunk = owned'[v].chunk
                  PROVE  Apart(owned'[u], owned'[v])
      BY DEF NoOverlap, Apart, End
    <3>1. owned'[v] # Nowhere /\ u # p /\ v # p
      BY <1>2, <1>3, <1>5, <2>2, <2>6 DEF DynInv, OwnedInv
    <3>. QED BY <1>2, <1>5, <2>2, <3>1 DEF DynInv, NoOverlap
  <2>. QED BY <2>3, <2>4, <2>5, <2>7, <2>8 DEF DynInv
<1>. QED BY <1>1, <1>2, <1>3, <1>6, <1>7 DEF IsPlace

LEMMA ResetStep ==
    ASSUME Reset
    PROVE  DynInv'
<1>1. chunks' = <<>> /\ owned' = [t \in Tensors |-> Nowhere] BY DEF Reset
<1>2. DOMAIN chunks' = {} /\ chunks' \in Seq(Chunk) BY <1>1
<1>3. \A t \in Tensors : owned'[t] = Nowhere BY <1>1
<1>4. DynTypeOK' BY <1>1, <1>2 DEF DynTypeOK, Region, Nowhere
<1>5. OwnedInv' /\ NoOverlap' BY <1>3 DEF OwnedInv, NoOverlap
<1>6. FreeInv' /\ ClearInv' BY <1>2 DEF FreeInv, ClearInv
<1>. QED BY <1>4, <1>5, <1>6 DEF DynInv

LEMMA DynStart == DynInit => DynInv
<1>. SUFFICES ASSUME DynInit PROVE DynInv OBVIOUS
<1>1. chunks = <<>> /\ owned = [t \in Tensors |-> Nowhere] BY DEF DynInit
<1>2. DOMAIN chunks = {} /\ chunks \in Seq(Chunk) BY <1>1
<1>3. \A t \in Tensors : owned[t] = Nowhere BY <1>1
<1>4. DynTypeOK BY <1>1, <1>2 DEF DynTypeOK, Region, Nowhere
<1>5. OwnedInv /\ NoOverlap BY <1>3 DEF OwnedInv, NoOverlap
<1>6. FreeInv /\ ClearInv BY <1>2 DEF FreeInv, ClearInv
<1>. QED BY <1>4, <1>5, <1>6 DEF DynInv

LEMMA DynInductive == DynInv /\ [DynNext]_dynVars => DynInv'
<1>. SUFFICES ASSUME DynInv, [DynNext]_dynVars PROVE DynInv' OBVIOUS
<1>1. CASE \E t \in Tensors, size \in Sizes : Alloc(t, size) BY <1>1, AllocStep
<1>2. CASE \E t \in Tensors : FreeTensor(t) BY <1>2, FreeStep
<1>3. CASE \E p, t \in Tensors, size \in Sizes : HandOver(p, t, size)
  BY <1>3, HandOverStep
<1>4. CASE Reset BY <1>4, ResetStep
<1>5. CASE UNCHANGED dynVars
  BY <1>5 DEF dynVars, DynInv, DynTypeOK, OwnedInv, FreeInv, ClearInv, NoOverlap,
              Free, Clear, Apart, End
<1>. QED BY <1>1, <1>2, <1>3, <1>4, <1>5 DEF DynNext

\* NoOverlap, for every set of tensors, sizes and alignment: whatever is asked
\* for, freed or handed over, in whatever order, no two tensors share a byte.
THEOREM NobodyShares == DynSpec => []NoOverlap
<1>1. DynInv => NoOverlap BY DEF DynInv
<1>. QED BY <1>1, DynStart, DynInductive, PTL DEF DynSpec
-----------------------------------------------------------------------------
(* Nothing is lost, and freed neighbours are joined: a chunk is tiled by its *)
(* blocks and by what is owned in it, from its start to its end.             *)

Sorted(free) == \A i, k \in DOMAIN free : i < k => End(free[i]) < free[k].offset

\* Byte x lies in a place, or in one of the free blocks.
Within(b, x) == b.offset <= x /\ x < End(b)
Holds(free, x) == \E i \in DOMAIN free : Within(free[i], x)

\* No block ends after cap.
Below(free, cap) == \A i \in DOMAIN free : End(free[i]) <= cap

\* The blocks become those of left, which hold the bytes from lo to hi besides.
Grows(free, left, lo, hi) ==
    /\ Sorted(left)
    /\ \A x \in Nat : Holds(free, x) \/ (lo <= x /\ x < hi) => Holds(left, x)
    /\ \A cap \in Nat : Below(free, cap) /\ hi <= cap => Below(left, cap)

\* Chunk c is ch, and the blocks and the owned regions of it are its first cap
\* bytes.
Tiled(ch, c, cap) ==
    /\ ch.max_size <= cap /\ Below(ch.free, cap)
    /\ \A t \in Tensors : owned[t].chunk = c => End(owned[t]) <= cap
    /\ \A x \in 0 .. cap - 1 :
          \/ Holds(ch.free, x)
          \/ \E t \in Tensors : owned[t].chunk = c /\ Within(owned[t], x)

TileInv == \A c \in DOMAIN chunks :
               Sorted(Free(c)) /\ \E cap \in Nat : Tiled(chunks[c], c, cap)

LEMMA BlockFacts ==
    ASSUME NEW free \in Seq(Block)
    PROVE  /\ DOMAIN free = 1 .. Len(free) /\ Len(free) \in Nat
           /\ \A k \in DOMAIN free :
                 /\ free[k] \in Block /\ free[k].offset \in Nat /\ free[k].size \in Nat
                 /\ End(free[k]) \in Nat /\ free[k].offset <= End(free[k])
<1>1. DOMAIN free = 1 .. Len(free) /\ Len(free) \in Nat BY LenProperties
<1>2. \A k \in DOMAIN free : free[k] \in Block BY <1>1, ElementOfSeq
<1>3. \A b \in Block : /\ b.offset \in Nat /\ b.size \in Nat
                       /\ End(b) \in Nat /\ b.offset <= End(b)
  BY DEF Block, End
<1>. QED BY <1>1, <1>2, <1>3, Zenon

\* A block grows over the bytes it touches, and meets no other.
LEMMA ChangedGrows ==
    ASSUME NEW free \in Seq(Block), Sorted(free), NEW i \in DOMAIN free, NEW b \in Block,
           NEW left, left = [free EXCEPT ![i] = b],
           NEW lo \in Nat, NEW hi \in Nat,
           b.offset <= free[i].offset, End(free[i]) <= End(b),
           b.offset <= lo, hi <= End(b), End(b) \in {hi, End(free[i])},
           \A k \in DOMAIN free : k < i => End(free[k]) < b.offset,
           \A k \in DOMAIN free : i < k => End(b) < free[k].offset
    PROVE  Grows(free, left, lo, hi)
<1>1. /\ DOMAIN free = 1 .. Len(free) /\ Len(free) \in Nat
      /\ \A k \in DOMAIN free : free[k].offset \in Nat /\ End(free[k]) \in Nat
  BY BlockFacts
<1>2. b.offset \in Nat /\ End(b) \in Nat BY DEF Block, End
<1>3. DOMAIN left = DOMAIN free /\ left[i] = b
      /\ \A k \in DOMAIN free : k # i => left[k] = free[k]
  BY ExceptSeq
<1>4. Sorted(left)
  <2>. SUFFICES ASSUME NEW k \in DOMAIN free, NEW l \in DOMAIN free, k < l
                PROVE  End(left[k]) < left[l].offset
    BY <1>3 DEF Sorted
  <2>1. k # l BY <1>1
  <2>2. CASE k = i BY <1>3, <2>1, <2>2
  <2>3. CASE l = i BY <1>3, <2>1, <2>3
  <2>4. CASE k # i /\ l # i BY <1>3, <2>4 DEF Sorted
  <2>. QED BY <2>2, <2>3, <2>4
<1>5. ASSUME NEW x \in Nat, Holds(free, x) \/ (lo <= x /\ x < hi)
      PROVE  Holds(left, x)
  <2>1. CASE lo <= x /\ x < hi
    <3>1. Within(b, x) BY <1>2, <2>1 DEF Within
    <3>. QED BY <1>3, <3>1 DEF Holds
  <2>2. CASE Holds(free, x)
    <3>1. PICK k \in DOMAIN free : Within(free[k], x) BY <2>2 DEF Holds
    <3>2. CASE k = i
      <4>1. Within(b, x) BY <1>1, <1>2, <3>1, <3>2 DEF Within
      <4>. QED BY <1>3, <4>1 DEF Holds
    <3>3. CASE k # i BY <1>3, <3>1, <3>3 DEF Holds
    <3>. QED BY <3>2, <3>3
  <2>. QED BY <1>5, <2>1, <2>2
<1>6. ASSUME NEW cap \in Nat, Below(free, cap), hi <= cap
      PROVE  Below(left, cap)
  <2>1. End(b) <= cap BY <1>6 DEF Below
  <2>. QED BY <1>3, <1>6, <2>1 DEF Below
<1>. QED BY <1>4, <1>5, <1>6 DEF Grows

\* Two blocks and the bytes between them become one.
LEMMA JoinedGrows ==
    ASSUME NEW free, Sound(free), Sorted(free), NEW i \in DOMAIN free, i + 1 \in DOMAIN free,
           NEW b \in Block, NEW left, left = [RemoveAt(free, i + 1) EXCEPT ![i] = b],
           NEW lo \in Nat, NEW hi \in Nat, End(free[i]) = lo, hi = free[i + 1].offset,
           b.offset = free[i].offset, End(b) = End(free[i + 1])
    PROVE  Grows(free, left, lo, hi)
<1>. DEFINE rest == RemoveAt(free, i + 1)
<1>1. /\ free \in Seq(Block) /\ DOMAIN free = 1 .. Len(free) /\ Len(free) \in Nat
      /\ \A k \in DOMAIN free : free[k].offset \in Nat /\ End(free[k]) \in Nat
  <2>1. free \in Seq(Block) BY DEF Sound
  <2>. QED BY <2>1, BlockFacts
<1>2. b.offset \in Nat /\ End(b) \in Nat BY DEF Block, End
<1>3. /\ rest \in Seq(Block) /\ DOMAIN rest = 1 .. Len(free) - 1
      /\ \A k \in DOMAIN rest : rest[k] = IF k < i + 1 THEN free[k] ELSE free[k + 1]
  <2>1. /\ Sound(rest) /\ DOMAIN rest = 1 .. Len(free) - 1
        /\ \A k \in DOMAIN rest : rest[k] = IF k < i + 1 THEN free[k] ELSE free[k + 1]
    BY DropBlock
  <2>. QED BY <2>1 DEF Sound
<1>. HIDE DEF rest
<1>4. i \in 1 .. Len(free) - 1 BY <1>1
<1>5. /\ DOMAIN left = 1 .. Len(free) - 1 /\ left[i] = b
      /\ \A k \in 1 .. Len(free) - 1 : k < i => left[k] = free[k]
      /\ \A k \in 1 .. Len(free) - 1 : i < k => left[k] = free[k + 1]
  <2>1. left = [rest EXCEPT ![i] = b] BY DEF rest
  <2>2. DOMAIN left = DOMAIN rest /\ left[i] = b
        /\ \A k \in DOMAIN rest : k # i => left[k] = rest[k]
    BY <1>3, <1>4, <2>1, ExceptSeq
  <2>3. \A k \in 1 .. Len(free) - 1 :
           /\ k < i => k # i /\ k < i + 1
           /\ i < k => k # i /\ ~(k < i + 1)
    BY <1>1
  <2>. QED BY <1>3, <2>2, <2>3
<1>6. Sorted(left)
  <2>. SUFFICES ASSUME NEW k \in DOMAIN left, NEW l \in DOMAIN left, k < l
                PROVE  End(left[k]) < left[l].offset
    BY DEF Sorted
  <2>a. k \in 1 .. Len(free) - 1 /\ l \in 1 .. Len(free) - 1 BY <1>5
  <2>b. \A n \in 1 .. Len(free) - 1 : n \in DOMAIN free /\ n + 1 \in DOMAIN free BY <1>1
  <2>0. k + 1 \in DOMAIN free /\ l + 1 \in DOMAIN free /\ k \in DOMAIN free /\ l \in DOMAIN free
    BY <2>a, <2>b, Zenon
  <2>1. CASE l < i
    <3>1. k < i BY <1>1, <2>a, <2>1
    <3>. QED BY <1>5, <2>a, <2>0, <2>1, <3>1 DEF Sorted
  <2>2. CASE l = i
    <3>1. End(free[k]) < free[i].offset BY <2>0, <2>2 DEF Sorted
    <3>. QED BY <1>5, <2>a, <2>2, <3>1
  <2>3. CASE k = i
    <3>1. i + 1 < l + 1 /\ i < l BY <1>1, <2>a, <2>3
    <3>2. End(free[i + 1]) < free[l + 1].offset BY <2>0, <3>1 DEF Sorted
    <3>. QED BY <1>5, <2>a, <2>3, <3>1, <3>2
  <2>4. CASE k < i /\ i < l
    <3>1. k < l + 1 BY <1>1, <2>a, <2>4
    <3>. QED BY <1>5, <2>a, <2>0, <2>4, <3>1 DEF Sorted
  <2>5. CASE i < k
    <3>1. i < l /\ k + 1 < l + 1 BY <1>1, <2>a, <2>5
    <3>2. left[k] = free[k + 1] /\ left[l] = free[l + 1] BY <1>5, <2>a, <2>5, <3>1
    <3>3. End(free[k + 1]) < free[l + 1].offset BY <2>0, <3>1 DEF Sorted
    <3>. QED BY <3>2, <3>3
  <2>. QED BY <1>1, <2>a, <2>1, <2>2, <2>3, <2>4, <2>5
<1>7. ASSUME NEW x \in Nat, Holds(free, x) \/ (lo <= x /\ x < hi)
      PROVE  Holds(left, x)
  <2>0. free[i].offset <= End(free[i]) /\ free[i + 1].offset <= End(free[i + 1])
        /\ End(free[i]) < free[i + 1].offset
    <3>1. free[i] \in Block /\ free[i + 1] \in Block BY <1>1, ElementOfSeq
    <3>2. i < i + 1 BY <1>1
    <3>. QED BY <3>1, <3>2 DEF Block, End, Sorted
  <2>1. CASE free[i].offset <= x /\ x < End(free[i + 1])
    <3>1. Within(b, x) BY <2>1 DEF Within
    <3>. QED BY <1>4, <1>5, <3>1 DEF Holds
  <2>2. CASE ~(free[i].offset <= x /\ x < End(free[i + 1]))
    <3>1. ~(lo <= x /\ x < hi) BY <1>1, <2>0, <2>2
    <3>2. PICK k \in DOMAIN free : Within(free[k], x) BY <1>7, <3>1 DEF Holds
    <3>3. k # i /\ k # i + 1
      BY <1>1, <2>0, <2>2, <3>2 DEF Within
    <3>4. CASE k < i
      <4>1. k \in 1 .. Len(free) - 1 BY <1>1, <3>4
      <4>. QED BY <1>5, <3>2, <3>4, <4>1 DEF Holds
    <3>5. CASE k > i + 1
      <4>0. k \in Nat /\ i \in Nat /\ i >= 1 /\ Len(free) \in Nat /\ k <= Len(free) BY <1>1
      <4>1. k - 1 \in 1 .. Len(free) - 1 /\ i < k - 1 /\ (k - 1) + 1 = k BY <3>5, <4>0
      <4>2. left[k - 1] = free[k] BY <1>5, <4>1
      <4>. QED BY <1>5, <3>2, <4>1, <4>2 DEF Holds
    <3>. QED BY <1>1, <3>3, <3>4, <3>5
  <2>. QED BY <2>1, <2>2
<1>8. ASSUME NEW cap \in Nat, Below(free, cap), hi <= cap
      PROVE  Below(left, cap)
  <2>1. ASSUME NEW k \in 1 .. Len(free) - 1 PROVE End(left[k]) <= cap
    <3>1. k \in DOMAIN free /\ k + 1 \in DOMAIN free BY <1>1
    <3>2. k < i \/ k = i \/ i < k BY <1>1
    <3>. QED BY <1>5, <1>8, <3>1, <3>2 DEF Below
  <2>. QED BY <1>5, <2>1 DEF Below
<1>. QED BY <1>6, <1>7, <1>8 DEF Grows

\* A new block takes its place between two others.
LEMMA InsertedGrows ==
    ASSUME NEW free, Sound(free), Sorted(free), NEW i \in 1 .. Len(free) + 1, NEW b \in Block,
           NEW left, left = InsertAt(free, i, b),
           \A k \in DOMAIN free : k < i => End(free[k]) < b.offset,
           \A k \in DOMAIN free : k >= i => End(b) < free[k].offset
    PROVE  Grows(free, left, b.offset, End(b))
<1>1. /\ free \in Seq(Block) /\ DOMAIN free = 1 .. Len(free) /\ Len(free) \in Nat
      /\ \A k \in DOMAIN free : free[k].offset \in Nat /\ End(free[k]) \in Nat
  <2>1. free \in Seq(Block) BY DEF Sound
  <2>. QED BY <2>1, BlockFacts
<1>2. /\ DOMAIN left = 1 .. Len(free) + 1 /\ left[i] = b
      /\ \A k \in 1 .. Len(free) + 1 : k < i => left[k] = free[k]
      /\ \A k \in 1 .. Len(free) + 1 : i < k => left[k] = free[k - 1]
  <2>1. left \in Seq(Block) /\ IsInserted(left, free, i, b)
    BY <1>1, InsertAtFacts, Zenon
  <2>2. DOMAIN left = 1 .. Len(free) + 1 BY <2>1, LenProperties DEF IsInserted
  <2>3. \A k \in 1 .. Len(free) + 1 : i < k => ~(k < i) /\ k # i BY <1>1
  <2>. QED BY <1>1, <2>1, <2>2, <2>3 DEF IsInserted
<1>3. \A k \in 1 .. Len(free) + 1 : /\ k < i => k \in DOMAIN free
                                    /\ i < k => k - 1 \in DOMAIN free /\ k - 1 >= i
  BY <1>1
<1>4. Sorted(left)
  <2>. SUFFICES ASSUME NEW k \in 1 .. Len(free) + 1, NEW l \in 1 .. Len(free) + 1, k < l
                PROVE  End(left[k]) < left[l].offset
    BY <1>2 DEF Sorted
  <2>1. CASE l < i
    <3>1. k < i BY <1>1, <2>1
    <3>. QED BY <1>2, <1>3, <2>1, <3>1 DEF Sorted
  <2>2. CASE l = i BY <1>2, <1>3, <2>2
  <2>3. CASE k = i
    <3>1. i < l BY <2>3
    <3>. QED BY <1>2, <1>3, <2>3, <3>1
  <2>4. CASE k < i /\ i < l
    <3>1. k < l - 1 BY <1>1, <1>3, <2>4
    <3>. QED BY <1>2, <1>3, <2>4, <3>1 DEF Sorted
  <2>5. CASE i < k
    <3>1. i < l /\ k - 1 < l - 1 BY <1>1, <2>5
    <3>. QED BY <1>2, <1>3, <2>5, <3>1 DEF Sorted
  <2>. QED BY <1>1, <2>1, <2>2, <2>3, <2>4, <2>5
<1>5. ASSUME NEW x \in Nat, Holds(free, x) \/ (b.offset <= x /\ x < End(b))
      PROVE  Holds(left, x)
  <2>1. CASE b.offset <= x /\ x < End(b)
    <3>1. Within(b, x) BY <2>1 DEF Within
    <3>. QED BY <1>2, <3>1 DEF Holds
  <2>2. CASE Holds(free, x)
    <3>1. PICK k \in DOMAIN free : Within(free[k], x) BY <2>2 DEF Holds
    <3>2. CASE k < i
      <4>1. k \in 1 .. Len(free) + 1 BY <1>1
      <4>. QED BY <1>2, <3>1, <3>2, <4>1 DEF Holds
    <3>3. CASE k >= i
      <4>1. k + 1 \in 1 .. Len(free) + 1 /\ i < k + 1 /\ (k + 1) - 1 = k BY <1>1, <3>3
      <4>2. left[k + 1] = free[k] BY <1>2, <4>1
      <4>. QED BY <1>2, <3>1, <4>1, <4>2 DEF Holds
    <3>. QED BY <1>1, <3>2, <3>3
  <2>. QED BY <1>5, <2>1, <2>2
<1>6. ASSUME NEW cap \in Nat, Below(free, cap), End(b) <= cap
      PROVE  Below(left, cap)
  <2>1. ASSUME NEW k \in 1 .. Len(free) + 1 PROVE End(left[k]) <= cap
    <3>1. k < i \/ k = i \/ i < k BY <1>1
    <3>. QED BY <1>2, <1>3, <1>6, <3>1 DEF Below
  <2>. QED BY <1>2, <2>1 DEF Below
<1>. QED BY <1>4, <1>5, <1>6 DEF Grows

\* A freed region that touches a block, and none before it, is joined to what it
\* touches.
LEMMA MergedGrows ==
    ASSUME NEW free, Sound(free), Sorted(free), NEW offset \in Nat, NEW size \in Nat \ {0},
           Clear(free, [offset |-> offset, size |-> size]),
           NEW i \in DOMAIN free, Touches(free[i], offset, size),
           \A k \in DOMAIN free : Touches(free[k], offset, size) => i <= k
    PROVE  Grows(free, MergedAt(free, i, offset, size), offset, offset + size)
<1>. DEFINE left == MergedAt(free, i, offset, size)
            freed == [offset |-> offset, size |-> size]
<1>1. free \in Seq(Block) BY DEF Sound
<1>2. /\ DOMAIN free = 1 .. Len(free) /\ Len(free) \in Nat
      /\ \A k \in DOMAIN free :
            /\ free[k] \in Block /\ free[k].offset \in Nat /\ free[k].size \in Nat
            /\ End(free[k]) = free[k].offset + free[k].size
            /\ free[k].offset <= End(free[k])
  BY <1>1, BlockFacts DEF End
<1>3. \A k \in DOMAIN free : End(free[k]) <= offset \/ offset + size <= free[k].offset
  BY DEF Clear, Apart, End
<1>4. \A k, l \in DOMAIN free : k < l => End(free[k]) < free[l].offset BY DEF Sorted
<1>5. CASE End(free[i]) = offset
  <2>1. CASE i < Len(free) /\ offset + size = free[i + 1].offset
    <3>. DEFINE b == [offset |-> free[i].offset,
                      size |-> free[i].size + size + free[i + 1].size]
    <3>1. i + 1 \in DOMAIN free BY <1>2, <2>1
    <3>2. left = [RemoveAt(free, i + 1) EXCEPT ![i] = b] BY <1>5, <2>1 DEF MergedAt
    <3>3. b \in Block /\ b.offset = free[i].offset /\ End(b) = End(free[i + 1])
      <4>1. /\ free[i].offset \in Nat /\ free[i].size \in Nat /\ free[i + 1].size \in Nat
            /\ free[i].offset + free[i].size = offset
            /\ End(free[i + 1]) = offset + size + free[i + 1].size
        BY <1>2, <1>5, <2>1, <3>1
      <4>2. b.offset = free[i].offset /\ b.size = free[i].size + size + free[i + 1].size
        OBVIOUS
      <4>3. b \in Block BY <4>1 DEF Block
      <4>. HIDE DEF b
      <4>. QED BY <4>1, <4>2, <4>3 DEF End
    <3>4. offset + size \in Nat OBVIOUS
    <3>. HIDE DEF b, left
    <3>5. Grows(free, left, offset, offset + size)
      BY <1>5, <2>1, <3>1, <3>2, <3>3, <3>4, JoinedGrows
    <3>. QED BY <3>5 DEF left
  <2>2. CASE ~(i < Len(free) /\ offset + size = free[i + 1].offset)
    <3>. DEFINE b == [offset |-> free[i].offset, size |-> free[i].size + size]
    <3>1. left = [free EXCEPT ![i] = b] BY <1>5, <2>2 DEF MergedAt
    <3>2. b \in Block /\ b.offset = free[i].offset /\ End(b) = offset + size
      BY <1>2, <1>5 DEF Block, End
    <3>3. ASSUME NEW k \in DOMAIN free, i < k PROVE offset + size < free[k].offset
      <4>1. \A l \in DOMAIN free : i < l => offset + size <= free[l].offset
        BY <1>2, <1>3, <1>4, <1>5
      <4>2. i + 1 \in DOMAIN free /\ i < i + 1 BY <1>2, <3>3
      <4>3. offset + size < free[i + 1].offset
        <5>1. i < Len(free) /\ free[i + 1].offset \in Nat BY <1>2, <4>2
        <5>2. offset + size <= free[i + 1].offset BY <4>1, <4>2
        <5>3. offset + size # free[i + 1].offset BY <2>2, <5>1
        <5>4. offset + size \in Nat OBVIOUS
        <5>. HIDE DEF b
        <5>. QED BY <5>1, <5>2, <5>3, <5>4
      <4>4. CASE k = i + 1 BY <4>3, <4>4
      <4>5. CASE k > i + 1
        <5>1. End(free[i + 1]) < free[k].offset BY <1>4, <4>2, <4>5
        <5>2. free[i + 1].offset \in Nat /\ free[k].offset \in Nat
              /\ free[i + 1].offset <= End(free[i + 1]) /\ End(free[i + 1]) \in Nat
          BY <1>2, <4>2
        <5>. QED BY <4>3, <5>1, <5>2
      <4>. QED BY <1>2, <3>3, <4>4, <4>5
    <3>4. offset + size \in Nat /\ End(free[i]) <= offset + size /\ free[i].offset <= offset
      BY <1>2, <1>5
    <3>5. \A k \in DOMAIN free : k < i => End(free[k]) < b.offset BY <1>4, <3>2
    <3>6. \A k \in DOMAIN free : i < k => End(b) < free[k].offset BY <3>2, <3>3
    <3>7. /\ b.offset <= free[i].offset /\ End(free[i]) <= End(b)
          /\ b.offset <= offset /\ offset + size <= End(b)
          /\ End(b) \in {offset + size, End(free[i])}
      BY <1>2, <3>2, <3>4
    <3>. HIDE DEF b, left
    <3>8. Grows(free, left, offset, offset + size)
      BY <1>1, <3>1, <3>2, <3>4, <3>5, <3>6, <3>7, ChangedGrows
    <3>. QED BY <3>8 DEF left
  <2>. QED BY <2>1, <2>2
<1>6. CASE End(free[i]) # offset
  <2>1. offset + size = free[i].offset BY <1>6 DEF Touches
  <2>2. ~(i > 1 /\ End(free[i - 1]) = offset)
    <3>. SUFFICES ASSUME i > 1, End(free[i - 1]) = offset PROVE FALSE OBVIOUS
    <3>1. i - 1 \in DOMAIN free /\ ~(i <= i - 1) BY <1>2
    <3>. QED BY <3>1 DEF Touches
  <2>. DEFINE b == [offset |-> offset, size |-> free[i].size + size]
  <2>3. left = [free EXCEPT ![i] = b] BY <1>6, <2>2 DEF MergedAt
  <2>4. b \in Block /\ b.offset = offset /\ End(b) = End(free[i])
    BY <1>2, <2>1 DEF Block, End
  <2>5. ASSUME NEW k \in DOMAIN free, k < i PROVE End(free[k]) < offset
    <3>1. End(free[k]) # offset
      <4>1. ~(i <= k) BY <1>2, <2>5
      <4>. QED BY <4>1 DEF Touches
    <3>2. End(free[k]) < free[i].offset BY <1>4, <2>5
    <3>3. End(free[k]) <= offset BY <1>2, <1>3, <2>1, <3>2
    <3>. QED BY <1>2, <3>1, <3>3
  <2>6. /\ b.offset <= free[i].offset /\ End(free[i]) <= End(b)
        /\ b.offset <= offset /\ offset + size <= End(b)
        /\ End(b) \in {offset + size, End(free[i])} /\ offset + size \in Nat
    BY <1>2, <2>1, <2>4
  <2>7. \A k \in DOMAIN free : k < i => End(free[k]) < b.offset BY <2>4, <2>5
  <2>8. \A k \in DOMAIN free : i < k => End(b) < free[k].offset BY <1>4, <2>4
  <2>. HIDE DEF b, left
  <2>9. Grows(free, left, offset, offset + size)
    BY <1>1, <2>3, <2>4, <2>6, <2>7, <2>8, ChangedGrows
  <2>. QED BY <2>9 DEF left
<1>. QED BY <1>5, <1>6

\* ggml_dyn_tallocr_free_bytes.
LEMMA FreedGrows ==
    ASSUME DynTypeOK, FreeInv, NEW c \in DOMAIN chunks, Sorted(Free(c)),
           NEW offset \in Nat, NEW size \in Nat \ {0},
           Clear(Free(c), [offset |-> offset, size |-> size]),
           FreeBytes(c, offset, size)
    PROVE  \E left :
              /\ chunks' = [chunks EXCEPT ![c].free = left]
              /\ left \in Seq(Block)
              /\ Grows(Free(c), left, offset, offset + size)
<1>. DEFINE free == Free(c)
            b == [offset |-> offset, size |-> size]
            touching == {i \in DOMAIN free : Touches(free[i], offset, size)}
<1>1. Sound(free) /\ free \in Seq(Block) BY DEF FreeInv, Sound
<1>2. b \in Block /\ b.offset = offset /\ End(b) = offset + size /\ b.size > 0
  BY DEF Block, End
<1>3. ASSUME NEW i \in touching, \A k \in touching : i <= k,
             chunks' = [chunks EXCEPT ![c].free = MergedAt(free, i, offset, size)]
      PROVE  \E left : /\ chunks' = [chunks EXCEPT ![c].free = left]
                       /\ left \in Seq(Block)
                       /\ Grows(free, left, offset, offset + size)
  <2>. DEFINE left == MergedAt(free, i, offset, size)
  <2>1. Grows(free, left, offset, offset + size) BY <1>1, <1>3, MergedGrows
  <2>2. left \in Seq(Block) BY <1>1, <1>3, MergedBlock DEF Sound
  <2>. QED BY <1>3, <2>1, <2>2
<1>4. ASSUME touching = {}, NEW i \in 1 .. Len(free) + 1, InsertPosition(free, i, offset),
             chunks' = [chunks EXCEPT ![c].free = InsertAt(free, i, b)]
      PROVE  \E left : /\ chunks' = [chunks EXCEPT ![c].free = left]
                       /\ left \in Seq(Block)
                       /\ Grows(free, left, offset, offset + size)
  <2>1. /\ DOMAIN free = 1 .. Len(free) /\ Len(free) \in Nat
        /\ \A k \in DOMAIN free :
              /\ free[k].offset \in Nat /\ free[k].size \in Nat /\ free[k].size > 0
              /\ End(free[k]) = free[k].offset + free[k].size
              /\ free[k].offset <= End(free[k])
    BY <1>1, BlockFacts DEF End, Sound, Solid
  <2>2. \A k \in DOMAIN free : /\ End(free[k]) # offset /\ offset + size # free[k].offset
                               /\ \/ End(free[k]) <= offset
                                  \/ offset + size <= free[k].offset
    BY <1>4 DEF Touches, Clear, Apart, End
  <2>3. ASSUME NEW k \in DOMAIN free, k < i PROVE End(free[k]) < b.offset
    <3>1. free[k].offset < offset /\ free[k].offset \in Nat
      BY <1>4, <2>1, <2>3 DEF InsertPosition
    <3>2. End(free[k]) <= offset /\ End(free[k]) # offset /\ End(free[k]) \in Nat
      BY <2>1, <2>2, <3>1
    <3>. QED BY <1>2, <3>2
  <2>4. ASSUME NEW k \in DOMAIN free, k >= i PROVE End(b) < free[k].offset
    <3>1. i \in DOMAIN free /\ i <= Len(free) BY <2>1, <2>4
    <3>2. free[i].offset >= offset BY <1>4, <3>1 DEF InsertPosition
    <3>3. free[k].offset >= offset
      <4>1. CASE k = i BY <3>2, <4>1
      <4>2. CASE k > i
        <5>1. End(free[i]) < free[k].offset BY <3>1, <4>2 DEF Sorted
        <5>. QED BY <2>1, <3>1, <3>2, <5>1
      <4>. QED BY <2>1, <2>4, <4>1, <4>2
    <3>4. free[k].offset \in Nat /\ End(free[k]) \in Nat /\ free[k].offset < End(free[k])
      BY <2>1
    <3>5. offset + size <= free[k].offset /\ offset + size # free[k].offset BY <2>2, <3>3, <3>4
    <3>6. offset + size < free[k].offset BY <3>4, <3>5
    <3>. QED BY <1>2, <3>6
  <2>. DEFINE left == InsertAt(free, i, b)
  <2>5. left \in Seq(Block) BY <1>1, <1>2, InsertAtFacts
  <2>6. Grows(free, left, b.offset, End(b))
    <3>. HIDE DEF b, free
    <3>. QED BY <1>1, <1>2, <2>3, <2>4, InsertedGrows DEF free
  <2>. QED BY <1>2, <1>4, <2>5, <2>6
<1>5. CASE \E i \in touching : /\ \A k \in touching : i <= k
              /\ chunks' = [chunks EXCEPT ![c].free = MergedAt(free, i, offset, size)]
  BY <1>3, <1>5
<1>6. CASE /\ touching = {}
           /\ \E i \in 1 .. Len(free) + 1 : /\ InsertPosition(free, i, offset)
              /\ chunks' = [chunks EXCEPT ![c].free = InsertAt(free, i, b)]
  BY <1>4, <1>6
<1>. QED BY <1>5, <1>6 DEF FreeBytes

\* Taking the start of a block loses no byte but those taken.
LEMMA TakenLeaves ==
    ASSUME NEW free, Sound(free), Sorted(free), NEW i \in DOMAIN free,
           NEW size \in Nat \ {0}, size <= free[i].size,
           NEW left, left = Remaining(free, i, size)
    PROVE  /\ Sorted(left)
           /\ \A x \in Nat : Holds(free, x) =>
                 Holds(left, x) \/ (free[i].offset <= x /\ x < free[i].offset + size)
           /\ \A cap \in Nat : Below(free, cap) => Below(left, cap)
<1>1. /\ free \in Seq(Block) /\ DOMAIN free = 1 .. Len(free) /\ Len(free) \in Nat
      /\ \A k \in DOMAIN free :
            /\ free[k] \in Block /\ free[k].offset \in Nat /\ free[k].size \in Nat
            /\ End(free[k]) = free[k].offset + free[k].size
            /\ free[k].offset <= End(free[k])
  BY BlockFacts DEF End, Sound
<1>2. CASE free[i].size = size
  <2>1. /\ DOMAIN left = 1 .. Len(free) - 1
        /\ \A k \in DOMAIN left : left[k] = IF k < i THEN free[k] ELSE free[k + 1]
    BY <1>2, DropBlock DEF Remaining
  <2>. DEFINE From(n) == IF n < i THEN n ELSE n + 1
  <2>2. \A k \in DOMAIN left : From(k) \in DOMAIN free /\ left[k] = free[From(k)]
    BY <1>1, <2>1
  <2>3. \A k, l \in DOMAIN left : k < l => From(k) < From(l) BY <1>1, <2>1
  <2>4. \A k \in DOMAIN free : k # i => \E n \in DOMAIN left : From(n) = k
    <3>. SUFFICES ASSUME NEW k \in DOMAIN free, k # i
                  PROVE  \E n \in DOMAIN left : From(n) = k
      OBVIOUS
    <3>1. CASE k < i
      <4>1. k \in DOMAIN left BY <1>1, <2>1, <3>1
      <4>. QED BY <3>1, <4>1
    <3>2. CASE k > i
      <4>1. k - 1 \in DOMAIN left /\ ~(k - 1 < i) /\ (k - 1) + 1 = k BY <1>1, <2>1, <3>2
      <4>. QED BY <4>1
    <3>. QED BY <1>1, <3>1, <3>2
  <2>. HIDE DEF From
  <2>5. Sorted(left) BY <2>2, <2>3 DEF Sorted
  <2>6. ASSUME NEW x \in Nat, Holds(free, x),
               ~(free[i].offset <= x /\ x < free[i].offset + size)
        PROVE  Holds(left, x)
    <3>1. PICK k \in DOMAIN free : Within(free[k], x) BY <2>6 DEF Holds
    <3>2. k # i BY <1>1, <1>2, <2>6, <3>1 DEF Within
    <3>3. PICK n \in DOMAIN left : From(n) = k BY <2>4, <3>2
    <3>4. left[n] = free[k] BY <2>2, <3>3
    <3>. QED BY <3>1, <3>4 DEF Holds
  <2>7. \A cap \in Nat : Below(free, cap) => Below(left, cap) BY <2>2 DEF Below
  <2>. QED BY <2>5, <2>6, <2>7
<1>3. CASE free[i].size # size
  <2>. DEFINE b == [offset |-> free[i].offset + size, size |-> free[i].size - size]
  <2>1. b \in Block /\ b.offset = free[i].offset + size /\ End(b) = End(free[i])
    BY <1>1, <1>3 DEF Block, End
  <2>2. left = [free EXCEPT ![i] = b] BY <1>3 DEF Remaining
  <2>. HIDE DEF b
  <2>3. DOMAIN left = DOMAIN free /\ left[i] = b
        /\ \A k \in DOMAIN free : k # i => left[k] = free[k]
    BY <1>1, <2>1, <2>2, ExceptSeq
  <2>4. \A k \in DOMAIN free : free[k].offset <= left[k].offset /\ End(left[k]) = End(free[k])
                               /\ left[k].offset \in Nat
    BY <1>1, <2>1, <2>3
  <2>5. Sorted(left)
    <3>. SUFFICES ASSUME NEW k \in DOMAIN free, NEW l \in DOMAIN free, k < l
                  PROVE  End(left[k]) < left[l].offset
      BY <2>3 DEF Sorted
    <3>1. End(free[k]) < free[l].offset BY DEF Sorted
    <3>2. /\ End(left[k]) = End(free[k]) /\ free[l].offset <= left[l].offset
          /\ End(free[k]) \in Nat /\ free[l].offset \in Nat /\ left[l].offset \in Nat
      BY <1>1, <2>4
    <3>. QED BY <3>1, <3>2
  <2>6. ASSUME NEW x \in Nat, Holds(free, x),
               ~(free[i].offset <= x /\ x < free[i].offset + size)
        PROVE  Holds(left, x)
    <3>1. PICK k \in DOMAIN free : Within(free[k], x) BY <2>6 DEF Holds
    <3>2. Within(left[k], x)
      <4>1. CASE k = i BY <1>1, <2>1, <2>3, <2>6, <3>1, <4>1 DEF Within
      <4>2. CASE k # i BY <2>3, <3>1, <4>2
      <4>. QED BY <4>1, <4>2
    <3>. QED BY <2>3, <3>2 DEF Holds
  <2>7. \A cap \in Nat : Below(free, cap) => Below(left, cap) BY <2>3, <2>4 DEF Below
  <2>. QED BY <2>5, <2>6, <2>7
<1>. QED BY <1>2, <1>3
-----------------------------------------------------------------------------
\* Handing out the start of a block of chunks that are tiled.
LEMMA TakenTiles ==
    ASSUME DynInv, NEW cs \in Seq(Chunk), \A d \in DOMAIN cs : Sound(cs[d].free),
           \A d \in DOMAIN cs : Sorted(cs[d].free) /\ \E cap \in Nat : Tiled(cs[d], d, cap),
           NEW t \in Tensors, owned[t] = Nowhere,
           NEW c \in DOMAIN cs, NEW i \in DOMAIN cs[c].free,
           NEW size \in Nat \ {0}, size <= cs[c].free[i].size,
           Take(t, cs, c, i, size)
    PROVE  TileInv'
<1>. DEFINE free == cs[c].free
            b == free[i]
            left == Remaining(free, i, size)
            top == Larger(cs[c].max_size, b.offset + size)
            r == [chunk |-> c, offset |-> b.offset, size |-> size]
<1>1. chunks' = [cs EXCEPT ![c] = [free |-> left, max_size |-> top]]
      /\ owned' = [owned EXCEPT ![t] = r]
  BY DEF Take, Remaining
<1>2. /\ DOMAIN cs = 1 .. Len(cs) /\ Len(cs) \in Nat /\ cs[c].max_size \in Nat
  <2>1. cs[c] \in Chunk BY LenProperties, ElementOfSeq
  <2>. QED BY <2>1, LenProperties DEF Chunk
<1>3. /\ b.offset \in Nat /\ b.size \in Nat /\ End(b) = b.offset + b.size /\ size <= b.size
      /\ Sound(free) /\ Sorted(free) /\ i \in DOMAIN free
  <2>1. free \in Seq(Block) BY DEF Sound
  <2>. QED BY <2>1, BlockFacts DEF End
<1>4. /\ r.chunk = c /\ r.offset = b.offset /\ r.size = size
      /\ r.offset + r.size = End(r) /\ End(r) <= End(b) /\ End(r) \in Nat
  <2>1. r.chunk = c /\ r.offset = b.offset /\ r.size = size OBVIOUS
  <2>. HIDE DEF r
  <2>. QED BY <1>3, <2>1 DEF End
<1>5. /\ Sound(left) /\ Sorted(left)
      /\ \A x \in Nat : Holds(free, x) => Holds(left, x) \/ Within(r, x)
      /\ \A cap \in Nat : Below(free, cap) => Below(left, cap)
  <2>1. size <= free[i].size /\ left = Remaining(free, i, size) OBVIOUS
  <2>. HIDE DEF left, free, r
  <2>2. Sound(left) BY <1>3, <2>1, TakeFromBlock
  <2>3. /\ Sorted(left)
        /\ \A x \in Nat : Holds(free, x) =>
              Holds(left, x) \/ (free[i].offset <= x /\ x < free[i].offset + size)
        /\ \A cap \in Nat : Below(free, cap) => Below(left, cap)
    BY <1>3, <2>1, TakenLeaves
  <2>. QED BY <1>4, <2>2, <2>3 DEF Within, b
<1>6. top \in Nat /\ (top = cs[c].max_size \/ top = End(r))
  BY <1>2, <1>3, <1>4 DEF Larger
<1>. HIDE DEF left, top, r, b
<1>7. [free |-> left, max_size |-> top] \in Chunk BY <1>5, <1>6 DEF Sound, Chunk
<1>8. /\ DOMAIN chunks' = DOMAIN cs
      /\ \A d \in DOMAIN cs : d # c => chunks'[d] = cs[d]
      /\ chunks'[c] = [free |-> left, max_size |-> top]
  BY <1>1, <1>2, <1>7, ExceptSeq
<1>9. \A u \in Tensors : owned'[u] = IF u = t THEN r ELSE owned[u]
  BY <1>1 DEF DynInv, DynTypeOK
<1>10. \A d \in DOMAIN cs : owned[t].chunk # d
  BY <1>2 DEF Nowhere
<1>11. ASSUME NEW d \in DOMAIN cs, d # c, NEW cap \in Nat, Tiled(cs[d], d, cap)
       PROVE  Tiled(chunks[d], d, cap)'
  <2>1. \A u \in Tensors : owned'[u].chunk = d => owned'[u] = owned[u]
    BY <1>4, <1>9, <1>11
  <2>2. \A u \in Tensors : owned[u].chunk = d => owned'[u] = owned[u]
    BY <1>9, <1>10
  <2>3. chunks'[d] = cs[d] BY <1>8, <1>11
  <2>4. \A u \in Tensors : owned'[u].chunk = d => End(owned'[u]) <= cap
    BY <1>11, <2>1 DEF Tiled
  <2>5. \A x \in 0 .. cap - 1 :
           \/ Holds(cs[d].free, x)
           \/ \E u \in Tensors : owned'[u].chunk = d /\ Within(owned'[u], x)
    BY <1>11, <2>2 DEF Tiled
  <2>. QED BY <1>11, <2>3, <2>4, <2>5 DEF Tiled, Holds, Below, End, Within
<1>12. ASSUME NEW cap \in Nat, Tiled(cs[c], c, cap)
       PROVE  Tiled(chunks[c], c, cap)'
  <2>1. End(b) <= cap BY <1>3, <1>12 DEF Tiled, Below, b
  <2>2. End(r) <= cap /\ top <= cap BY <1>3, <1>4, <1>6, <1>12, <2>1 DEF Tiled
  <2>3. \A u \in Tensors : owned'[u].chunk = c => End(owned'[u]) <= cap
    BY <1>9, <1>12, <2>2 DEF Tiled
  <2>4. ASSUME NEW x \in 0 .. cap - 1
        PROVE  \/ Holds(left, x)
               \/ \E u \in Tensors : owned'[u].chunk = c /\ Within(owned'[u], x)
    <3>1. CASE Holds(free, x)
      <4>1. Holds(left, x) \/ Within(r, x) BY <1>5, <3>1
      <4>. QED BY <1>4, <1>9, <4>1
    <3>2. CASE \E u \in Tensors : owned[u].chunk = c /\ Within(owned[u], x)
      BY <1>9, <1>10, <3>2
    <3>. QED BY <1>12, <3>1, <3>2 DEF Tiled
  <2>5. Below(left, cap) BY <1>5, <1>12 DEF Tiled
  <2>6. chunks'[c].free = left /\ chunks'[c].max_size = top BY <1>8
  <2>. QED BY <2>2, <2>3, <2>4, <2>5, <2>6 DEF Tiled, Holds, Below, End, Within
<1>13. ASSUME NEW d \in DOMAIN cs
       PROVE  Sorted(chunks'[d].free) /\ \E cap \in Nat : Tiled(chunks[d], d, cap)'
  <2>1. PICK cap \in Nat : Tiled(cs[d], d, cap) OBVIOUS
  <2>2. CASE d = c BY <1>5, <1>8, <1>12, <2>1, <2>2
  <2>3. CASE d # c BY <1>8, <1>11, <2>1, <2>3
  <2>. QED BY <2>2, <2>3
<1>. QED BY <1>8, <1>13 DEF TileInv, Free, Sorted, End

\* ggml_dyn_tallocr_alloc.
LEMMA AllocTiles ==
    ASSUME DynInv, TileInv, NEW t \in Tensors, NEW size \in Sizes, Alloc(t, size)
    PROVE  TileInv'
<1>. DEFINE n == Aligned(size)
<1>1. n \in Nat \ {0} BY AlignedSize, DynAllocatorAssumption
<1>2. /\ chunks \in Seq(Chunk) /\ DOMAIN chunks = 1 .. Len(chunks) /\ Len(chunks) \in Nat
      /\ \A d \in DOMAIN chunks :
            /\ Sound(chunks[d].free) /\ Sorted(chunks[d].free)
            /\ \E cap \in Nat : Tiled(chunks[d], d, cap)
      /\ owned[t] = Nowhere
  BY LenProperties DEF DynInv, DynTypeOK, FreeInv, TileInv, Free, Alloc
<1>3. \A d \in DOMAIN chunks :
         /\ Free(d) \in Seq(Block) /\ Len(Free(d)) \in Nat /\ DOMAIN Free(d) = 1 .. Len(Free(d))
         /\ \A i \in DOMAIN Free(d) : Free(d)[i].size \in Nat
  BY <1>2, BlockFacts DEF Free, Sound
<1>. HIDE DEF n
<1>4. ASSUME NEW c \in DOMAIN chunks, NEW i \in DOMAIN Free(c),
             BestFit(c, i, n), Take(t, chunks, c, i, n)
      PROVE  TileInv'
  <2>1. i \in DOMAIN chunks[c].free /\ n <= chunks[c].free[i].size
    BY <1>1, <1>3, <1>4 DEF BestFit, Fits, Free
  <2>. QED BY <1>1, <1>2, <1>4, <2>1, TakenTiles
<1>5. ASSUME NEW c \in DOMAIN chunks,
             BestReuse(c, n), Take(t, chunks, c, Len(Free(c)), n)
      PROVE  TileInv'
  <2>1. Free(c) # <<>> /\ LastBlock(c).size >= n BY <1>5 DEF BestReuse, LastFits
  <2>2. Len(Free(c)) \in DOMAIN Free(c)
    <3>1. Len(Free(c)) # 0 BY <1>3, <2>1, EmptySeq
    <3>. QED BY <1>3, <3>1
  <2>3. /\ Len(Free(c)) \in DOMAIN chunks[c].free
        /\ n <= chunks[c].free[Len(Free(c))].size
    BY <1>1, <1>3, <2>1, <2>2 DEF LastBlock, Free
  <2>. QED BY <1>1, <1>2, <1>5, <2>3, TakenTiles
<1>6. ASSUME Take(t, Append(chunks, NewChunk(n)), Len(chunks) + 1, 1, n)
      PROVE  TileInv'
  <2>. DEFINE fresh == NewChunk(n)
              cs == Append(chunks, fresh)
              e == Len(chunks) + 1
  <2>1. /\ fresh \in Chunk /\ Sound(fresh.free) /\ DOMAIN fresh.free = {1}
        /\ n <= fresh.free[1].size
        /\ fresh.free[1].offset = 0 /\ fresh.max_size = 0 /\ fresh.free[1].size \in Nat
    <3>1. /\ fresh \in Chunk /\ Sound(fresh.free) /\ DOMAIN fresh.free = {1}
          /\ n <= fresh.free[1].size
      BY NewChunkFits DEF DynInv, n
    <3>2. fresh.free[1].offset = 0 /\ fresh.max_size = 0 BY DEF NewChunk
    <3>. HIDE DEF fresh
    <3>3. fresh.free \in Seq(Block) BY <3>1 DEF Sound
    <3>. QED BY <3>1, <3>2, <3>3, BlockFacts
  <2>. HIDE DEF fresh
  <2>2. /\ cs \in Seq(Chunk) /\ DOMAIN cs = 1 .. Len(chunks) + 1
        /\ cs[e] = fresh /\ e \in DOMAIN cs
        /\ \A d \in DOMAIN cs : d # e => d \in DOMAIN chunks /\ cs[d] = chunks[d]
    <3>1. /\ cs \in Seq(Chunk) /\ Len(cs) = Len(chunks) + 1 /\ cs[Len(chunks) + 1] = fresh
          /\ \A d \in 1 .. Len(chunks) : cs[d] = chunks[d]
      BY <1>2, <2>1, AppendProperties
    <3>2. DOMAIN cs = 1 .. Len(chunks) + 1 BY <3>1, LenProperties
    <3>. HIDE DEF cs
    <3>. QED BY <1>2, <3>1, <3>2
  <2>3. \A u \in Tensors : owned[u].chunk # e
    <3>. TAKE u \in Tensors
    <3>1. CASE owned[u] = Nowhere BY <1>2, <3>1 DEF Nowhere
    <3>2. CASE owned[u] # Nowhere BY <1>2, <3>2 DEF DynInv, OwnedInv
    <3>. QED BY <3>1, <3>2
  <2>. HIDE DEF cs, e
  <2>4. Sorted(fresh.free) /\ Tiled(fresh, e, fresh.free[1].size)
    <3>1. End(fresh.free[1]) = fresh.free[1].size /\ \A x \in 0 .. fresh.free[1].size - 1 :
             Within(fresh.free[1], x)
      BY <2>1 DEF End, Within
    <3>. QED BY <2>1, <2>3, <3>1 DEF Tiled, Sorted, Below, Holds
  <2>5. \A d \in DOMAIN cs : /\ Sound(cs[d].free) /\ Sorted(cs[d].free)
                             /\ \E cap \in Nat : Tiled(cs[d], d, cap)
    <3>. TAKE d \in DOMAIN cs
    <3>1. CASE d = e BY <2>1, <2>2, <2>4, <3>1
    <3>2. CASE d # e BY <1>2, <2>2, <3>2
    <3>. QED BY <3>1, <3>2
  <2>6. Take(t, cs, e, 1, n) BY <1>6 DEF cs, fresh, e
  <2>7. 1 \in DOMAIN cs[e].free /\ n <= cs[e].free[1].size BY <2>1, <2>2
  <2>. QED BY <1>1, <1>2, <2>2, <2>5, <2>6, <2>7, TakenTiles
<1>. QED BY <1>4, <1>5, <1>6 DEF Alloc, AllocAligned, n

\* A region, or the end of it, goes back to its chunk, and tensor t, which had
\* none of its own, keeps the start of it.
LEMMA GivenBackTiles ==
    ASSUME DynInv, TileInv,
           NEW p \in Tensors, owned[p] # Nowhere,
           NEW t \in Tensors, t = p \/ owned[t] = Nowhere,
           NEW offset \in Nat, NEW size \in Nat \ {0},
           offset >= owned[p].offset, offset + size = End(owned[p]),
           FreeBytes(owned[p].chunk, offset, size),
           \A u \in Tensors : u # t /\ u # p => owned'[u] = owned[u],
           t # p => owned'[p] = Nowhere,
           IF offset = owned[p].offset THEN owned'[t] = Nowhere
           ELSE /\ owned'[t].chunk = owned[p].chunk
                /\ owned'[t].offset = owned[p].offset
                /\ End(owned'[t]) = offset
    PROVE  TileInv'
<1>. SUFFICES ASSUME NEW c, c = owned[p].chunk PROVE TileInv' OBVIOUS
<1>. DEFINE free == Free(c)
<1>1. /\ chunks \in Seq(Chunk) /\ DOMAIN chunks = 1 .. Len(chunks) /\ Len(chunks) \in Nat
      /\ c \in DOMAIN chunks /\ chunks[c] \in Chunk
      /\ \A d \in DOMAIN chunks : Nowhere.chunk # d
  <2>1. chunks \in Seq(Chunk) /\ c \in DOMAIN chunks BY DEF DynInv, DynTypeOK, OwnedInv
  <2>2. DOMAIN chunks = 1 .. Len(chunks) /\ Len(chunks) \in Nat BY <2>1, LenProperties
  <2>3. chunks[c] \in Chunk BY <2>1, <2>2, ElementOfSeq
  <2>. QED BY <2>1, <2>2, <2>3 DEF Nowhere
<1>2. owned[p].offset \in Nat /\ owned[p].size \in Nat
      /\ End(owned[p]) = owned[p].offset + owned[p].size
  BY DEF DynInv, DynTypeOK, Region, End
<1>3. Clear(free, [offset |-> offset, size |-> size])
  <2>1. \A i \in DOMAIN free : Apart(free[i], owned[p])
    BY <1>1 DEF DynInv, ClearInv, Clear
  <2>2. free \in Seq(Block) BY <1>1 DEF DynInv, FreeInv, Sound
  <2>3. \A i \in DOMAIN free : End(free[i]) \in Nat /\ free[i].offset \in Nat
    BY <2>2, BlockFacts
  <2>. QED BY <1>2, <2>1, <2>3 DEF Clear, Apart, End
<1>4. PICK left :
         /\ chunks' = [chunks EXCEPT ![c].free = left]
         /\ left \in Seq(Block)
         /\ Grows(free, left, offset, offset + size)
  <2>1. Sorted(Free(c)) BY <1>1 DEF TileInv
  <2>. QED BY <1>1, <1>3, <2>1, FreedGrows DEF DynInv
<1>5. /\ DOMAIN chunks' = DOMAIN chunks
      /\ \A d \in DOMAIN chunks : d # c => chunks'[d] = chunks[d]
      /\ chunks'[c].free = left /\ chunks'[c].max_size = chunks[c].max_size
  <2>. DEFINE new == [chunks[c] EXCEPT !.free = left]
  <2>1. new \in Chunk /\ new.free = left /\ new.max_size = chunks[c].max_size
    BY <1>1, <1>4 DEF Chunk
  <2>2. chunks' = [chunks EXCEPT ![c] = new] BY <1>4
  <2>. HIDE DEF new
  <2>. QED BY <1>1, <2>1, <2>2, ExceptSeq
<1>6. ASSUME NEW d \in DOMAIN chunks, NEW u \in Tensors, u # t, u # p
      PROVE  owned'[u] = owned[u]
  BY <1>6
<1>7. ASSUME NEW d \in DOMAIN chunks, d # c, NEW cap \in Nat, Tiled(chunks[d], d, cap)
      PROVE  Tiled(chunks[d], d, cap)'
  <2>1. \A u \in Tensors : owned'[u].chunk = d => owned'[u] = owned[u]
    BY <1>1, <1>7
  <2>2. \A u \in Tensors : owned[u].chunk = d => owned'[u] = owned[u]
    BY <1>1, <1>7
  <2>3. chunks'[d] = chunks[d] BY <1>5, <1>7
  <2>4. \A u \in Tensors : owned'[u].chunk = d => End(owned'[u]) <= cap
    BY <1>7, <2>1 DEF Tiled
  <2>5. \A x \in 0 .. cap - 1 :
           \/ Holds(chunks[d].free, x)
           \/ \E u \in Tensors : owned'[u].chunk = d /\ Within(owned'[u], x)
    BY <1>7, <2>2 DEF Tiled
  <2>. QED BY <1>7, <2>3, <2>4, <2>5 DEF Tiled, Holds, Below, End, Within
<1>8. ASSUME NEW cap \in Nat, Tiled(chunks[c], c, cap)
      PROVE  Tiled(chunks[c], c, cap)'
  <2>1. End(owned[p]) <= cap BY <1>8 DEF Tiled
  <2>2. Below(left, cap) BY <1>4, <1>8, <2>1 DEF Tiled, Grows, Free
  <2>3. ASSUME NEW u \in Tensors, owned'[u].chunk = c PROVE End(owned'[u]) <= cap
    <3>1. CASE u # t /\ u # p BY <1>8, <2>3, <3>1 DEF Tiled
    <3>2. CASE u = p /\ u # t BY <1>1, <2>3, <3>2
    <3>3. CASE u = t
      <4>1. End(owned'[t]) = offset BY <1>1, <2>3, <3>3
      <4>. QED BY <1>2, <2>1, <3>3, <4>1
    <3>. QED BY <3>1, <3>2, <3>3
  <2>4. ASSUME NEW x \in 0 .. cap - 1
        PROVE  \/ Holds(left, x)
               \/ \E u \in Tensors : owned'[u].chunk = c /\ Within(owned'[u], x)
    <3>1. CASE Holds(free, x) \/ (offset <= x /\ x < offset + size)
      BY <1>4, <3>1 DEF Grows
    <3>2. CASE Within(owned[p], x) /\ ~(offset <= x /\ x < offset + size)
      <4>1. owned[p].offset <= x /\ x < offset /\ offset # owned[p].offset
        BY <1>2, <3>2 DEF Within
      <4>. QED BY <4>1 DEF Within
    <3>3. CASE \E u \in Tensors : u # p /\ owned[u].chunk = c /\ Within(owned[u], x)
      <4>1. PICK u \in Tensors : u # p /\ owned[u].chunk = c /\ Within(owned[u], x)
        BY <3>3
      <4>2. u # t BY <1>1, <4>1
      <4>. QED BY <4>1, <4>2
    <3>4. \/ Holds(free, x)
          \/ \E u \in Tensors : owned[u].chunk = c /\ Within(owned[u], x)
      BY <1>8 DEF Tiled, Free
    <3>. QED BY <3>1, <3>2, <3>3, <3>4
  <2>. QED BY <1>5, <1>8, <2>2, <2>3, <2>4 DEF Tiled, Holds, Below, End, Within
<1>9. ASSUME NEW d \in DOMAIN chunks
      PROVE  Sorted(chunks'[d].free) /\ \E cap \in Nat : Tiled(chunks[d], d, cap)'
  <2>1. Sorted(chunks[d].free) /\ \E cap \in Nat : Tiled(chunks[d], d, cap)
    BY DEF TileInv, Free
  <2>2. PICK cap \in Nat : Tiled(chunks[d], d, cap) BY <2>1
  <2>3. CASE d = c BY <1>4, <1>5, <1>8, <2>2, <2>3 DEF Grows
  <2>4. CASE d # c BY <1>5, <1>7, <2>1, <2>2, <2>4
  <2>. QED BY <2>3, <2>4
<1>. QED BY <1>5, <1>9 DEF TileInv, Free, Sorted, End

LEMMA FreeTiles ==
    ASSUME DynInv, TileInv, NEW t \in Tensors, FreeTensor(t)
    PROVE  TileInv'
<1>1. /\ owned[t] # Nowhere /\ owned[t] \in Region /\ owned[t].size > 0
      /\ FreeBytes(owned[t].chunk, owned[t].offset, owned[t].size)
      /\ owned' = [owned EXCEPT ![t] = Nowhere]
  BY DEF FreeTensor, DynInv, DynTypeOK, OwnedInv
<1>2. /\ owned[t].offset \in Nat /\ owned[t].size \in Nat \ {0}
      /\ owned[t].offset + owned[t].size = End(owned[t])
      /\ owned[t].offset >= owned[t].offset
  BY <1>1 DEF Region, End
<1>3. /\ owned'[t] = Nowhere
      /\ \A u \in Tensors : u # t => owned'[u] = owned[u]
  BY <1>1 DEF DynInv, DynTypeOK
<1>. QED BY <1>1, <1>2, <1>3, GivenBackTiles

LEMMA HandOverTiles ==
    ASSUME DynInv, TileInv, NEW p \in Tensors, NEW t \in Tensors, NEW size \in Sizes,
           HandOver(p, t, size)
    PROVE  TileInv'
<1>. DEFINE n == Aligned(size)
            r == owned[p]
            s == [r EXCEPT !.size = n]
<1>1. n \in Nat \ {0} BY AlignedSize, DynAllocatorAssumption
<1>. HIDE DEF n
<1>2. /\ r # Nowhere /\ owned[t] = Nowhere /\ n <= r.size /\ p # t
      /\ owned' = [owned EXCEPT ![p] = Nowhere, ![t] = s]
  BY DEF HandOver, n
<1>3. r \in Region /\ r.offset \in Nat /\ r.size \in Nat /\ End(r) = r.offset + r.size
  BY DEF DynInv, DynTypeOK, Region, End
<1>4. s.chunk = r.chunk /\ s.offset = r.offset /\ End(s) = r.offset + n
  BY <1>1, <1>3 DEF Region, End
<1>5. owned'[t] = s /\ owned'[p] = Nowhere
      /\ \A u \in Tensors : u # p /\ u # t => owned'[u] = owned[u]
  BY <1>2 DEF DynInv, DynTypeOK
<1>6. CASE n < r.size
  <2>. HIDE DEF s
  <2>1. FreeBytes(r.chunk, r.offset + n, r.size - n) BY <1>6 DEF HandOver, n
  <2>2. /\ r.offset + n \in Nat /\ r.size - n \in Nat \ {0} /\ r.offset + n >= r.offset
        /\ (r.offset + n) + (r.size - n) = End(r) /\ r.offset + n # r.offset
    BY <1>1, <1>3, <1>6
  <2>3. /\ owned'[t].chunk = r.chunk /\ owned'[t].offset = r.offset
        /\ End(owned'[t]) = r.offset + n
    BY <1>4, <1>5
  <2>4. \A u \in Tensors : u # t /\ u # p => owned'[u] = owned[u] BY <1>5
  <2>. QED BY <1>2, <1>5, <2>1, <2>2, <2>3, <2>4, GivenBackTiles
<1>7. CASE n = r.size
  <2>1. chunks' = chunks BY <1>3, <1>7 DEF HandOver, n
  <2>2. s = r BY <1>3, <1>7 DEF Region
  <2>3. \A c \in DOMAIN chunks : Nowhere.chunk # c
    BY LenProperties DEF DynInv, DynTypeOK, Nowhere
  <2>. HIDE DEF s
  <2>4. ASSUME NEW c \in DOMAIN chunks, NEW cap \in Nat, Tiled(chunks[c], c, cap)
        PROVE  Tiled(chunks[c], c, cap)'
    <3>1. \A u \in Tensors : owned'[u].chunk = c => End(owned'[u]) <= cap
      BY <1>5, <2>2, <2>3, <2>4 DEF Tiled
    <3>2. ASSUME NEW u \in Tensors, owned[u].chunk = c
          PROVE  \E v \in Tensors : owned'[v] = owned[u]
      BY <1>2, <1>5, <2>2, <2>3, <3>2
    <3>3. \A x \in 0 .. cap - 1 :
             \/ Holds(chunks[c].free, x)
             \/ \E u \in Tensors : owned'[u].chunk = c /\ Within(owned'[u], x)
      BY <2>4, <3>2 DEF Tiled
    <3>. QED BY <2>1, <2>4, <3>1, <3>3 DEF Tiled, Holds, Below, End, Within
  <2>5. ASSUME NEW c \in DOMAIN chunks
        PROVE  Sorted(chunks'[c].free) /\ \E cap \in Nat : Tiled(chunks[c], c, cap)'
    <3>1. Sorted(chunks[c].free) /\ \E cap \in Nat : Tiled(chunks[c], c, cap)
      BY DEF TileInv, Free
    <3>. QED BY <2>1, <2>4, <3>1
  <2>. QED BY <2>1, <2>5 DEF TileInv, Free, Sorted, End
<1>. QED BY <1>1, <1>2, <1>3, <1>6, <1>7

LEMMA TilesInductive == DynInv /\ TileInv /\ [DynNext]_dynVars => TileInv'
<1>. SUFFICES ASSUME DynInv, TileInv, [DynNext]_dynVars PROVE TileInv' OBVIOUS
<1>1. CASE \E t \in Tensors, size \in Sizes : Alloc(t, size) BY <1>1, AllocTiles
<1>2. CASE \E t \in Tensors : FreeTensor(t) BY <1>2, FreeTiles
<1>3. CASE \E p, t \in Tensors, size \in Sizes : HandOver(p, t, size)
  BY <1>3, HandOverTiles
<1>4. CASE Reset
  <2>1. DOMAIN chunks' = {} BY <1>4 DEF Reset
  <2>. QED BY <2>1 DEF TileInv
<1>5. CASE UNCHANGED dynVars
  BY <1>5 DEF dynVars, TileInv, Free, Tiled, Sorted, Below, Holds, Within, End
<1>. QED BY <1>1, <1>2, <1>3, <1>4, <1>5 DEF DynNext

\* Of a tiled chunk, the bytes of two blocks or regions are never the same.
LEMMA OnePlace ==
    ASSUME NEW a, NEW b, a.offset \in Nat, a.size \in Nat, b.offset \in Nat, b.size \in Nat,
           Apart(a, b), NEW x \in Nat, Within(a, x), Within(b, x)
    PROVE  FALSE
BY DEF Apart, Within, End

LEMMA TilesAccounted == DynInv /\ TileInv => Accounted
<1>. SUFFICES ASSUME DynInv, TileInv, NEW c \in DOMAIN chunks,
                     NEW x \in 0 .. chunks[c].max_size - 1
              PROVE  Cardinality({t \in Tensors : owned[t].chunk = c
                                    /\ owned[t].offset <= x /\ x < End(owned[t])})
                     + Cardinality({i \in DOMAIN Free(c) :
                                    Free(c)[i].offset <= x /\ x < End(Free(c)[i])}) = 1
  BY DEF Accounted
<1>. DEFINE O == {t \in Tensors : owned[t].chunk = c
                                  /\ owned[t].offset <= x /\ x < End(owned[t])}
            F == {i \in DOMAIN Free(c) : Free(c)[i].offset <= x /\ x < End(Free(c)[i])}
<1>1. x \in Nat /\ \E cap \in Nat : Tiled(chunks[c], c, cap)
  BY DEF TileInv
<1>2. F # {} \/ O # {}
  <2>1. PICK cap \in Nat : Tiled(chunks[c], c, cap) BY <1>1
  <2>2. chunks[c].max_size \in Nat
    <3>1. chunks[c] \in Chunk BY LenProperties, ElementOfSeq DEF DynInv, DynTypeOK
    <3>. QED BY <3>1 DEF Chunk
  <2>3. x \in 0 .. cap - 1 BY <2>1, <2>2 DEF Tiled
  <2>4. \/ Holds(chunks[c].free, x)
        \/ \E t \in Tensors : owned[t].chunk = c /\ Within(owned[t], x)
    BY <2>1, <2>3 DEF Tiled
  <2>. QED BY <2>4 DEF Holds, Within, Free
<1>3. \A t \in Tensors : owned[t].chunk = c => owned[t] # Nowhere
  BY LenProperties DEF DynInv, DynTypeOK, Nowhere
<1>4. \A t \in Tensors : owned[t].offset \in Nat /\ owned[t].size \in Nat
  BY DEF DynInv, DynTypeOK, Region
<1>5. /\ Sound(Free(c))
      /\ \A i \in DOMAIN Free(c) : Free(c)[i].offset \in Nat /\ Free(c)[i].size \in Nat
  <2>1. Sound(Free(c)) BY DEF DynInv, FreeInv
  <2>2. Free(c) \in Seq(Block) BY <2>1 DEF Sound
  <2>. QED BY <2>1, <2>2, BlockFacts
<1>6. ASSUME NEW t \in O, NEW u \in O PROVE t = u
  <2>. SUFFICES ASSUME t # u PROVE FALSE OBVIOUS
  <2>1. Apart(owned[t], owned[u]) BY <1>3 DEF DynInv, NoOverlap
  <2>. QED BY <1>1, <1>4, <2>1, OnePlace DEF Within
<1>7. ASSUME NEW i \in F, NEW k \in F PROVE i = k
  <2>. SUFFICES ASSUME i # k PROVE FALSE OBVIOUS
  <2>1. Apart(Free(c)[i], Free(c)[k]) BY <1>5 DEF Sound, Disjoint
  <2>. QED BY <1>1, <1>5, <2>1, OnePlace DEF Within
<1>8. ASSUME NEW t \in O, NEW i \in F PROVE FALSE
  <2>1. Apart(Free(c)[i], owned[t]) BY DEF DynInv, ClearInv, Clear
  <2>. QED BY <1>1, <1>4, <1>5, <2>1, OnePlace DEF Within
<1>. HIDE DEF O, F
<1>9. CASE O # {}
  <2>1. PICK t \in O : O = {t} BY <1>6, <1>9
  <2>2. F = {} BY <1>8, <2>1
  <2>3. Cardinality(O) = 1 BY <2>1, FS_Singleton
  <2>4. Cardinality(F) = 0 BY <2>2, FS_EmptySet
  <2>. QED BY <2>3, <2>4 DEF O, F
<1>10. CASE O = {}
  <2>1. PICK i \in F : F = {i} BY <1>2, <1>7, <1>10
  <2>2. Cardinality(F) = 1 BY <2>1, FS_Singleton
  <2>3. Cardinality(O) = 0 BY <1>10, FS_EmptySet
  <2>. QED BY <2>2, <2>3 DEF O, F
<1>. QED BY <1>9, <1>10

LEMMA TilesCoalesced == DynInv /\ TileInv => Coalesced
<1>. SUFFICES ASSUME DynInv, TileInv, NEW c \in DOMAIN chunks, NEW i \in 1 .. Len(Free(c)) - 1
              PROVE  End(Free(c)[i]) < Free(c)[i + 1].offset
  BY DEF Coalesced
<1>1. Free(c) \in Seq(Block) /\ Sorted(Free(c)) BY DEF DynInv, FreeInv, Sound, TileInv
<1>2. DOMAIN Free(c) = 1 .. Len(Free(c)) /\ Len(Free(c)) \in Nat BY <1>1, LenProperties
<1>3. i \in DOMAIN Free(c) /\ i + 1 \in DOMAIN Free(c) /\ i < i + 1 BY <1>2
<1>. QED BY <1>1, <1>3 DEF Sorted

LEMMA TileStart == DynInit => TileInv
<1>1. DynInit => DOMAIN chunks = {} BY DEF DynInit
<1>. QED BY <1>1 DEF TileInv

\* Accounted, for every set of tensors, sizes, alignment and chunks: merging,
\* splitting and handing over lose no byte and count none twice.
THEOREM NothingIsLost == DynSpec => []Accounted
BY DynStart, DynInductive, TileStart, TilesInductive, TilesAccounted, PTL DEF DynSpec

\* Coalesced, likewise: the free blocks of a chunk never touch each other, in
\* whatever order the regions between them came back.
THEOREM NeighboursAreJoined == DynSpec => []Coalesced
BY DynStart, DynInductive, TileStart, TilesInductive, TilesCoalesced, PTL DEF DynSpec
-----------------------------------------------------------------------------
(* A chunk only grows, and remembers the end of all that was ever in it.     *)

\* Region a lies below the high-water mark of its chunk.
Room(a, cs) == a.chunk \in DOMAIN cs /\ End(a) <= cs[a.chunk].max_size

RoomInv == \A t \in Tensors : owned[t] # Nowhere => Room(owned[t], chunks)

\* What was below the mark stays below it.
KeepsRoom(cs, ds) == \A a \in Region : Room(a, cs) => Room(a, ds)

LEMMA TakeRoom ==
    ASSUME DynTypeOK, RoomInv, NEW cs \in Seq(Chunk),
           DOMAIN chunks \subseteq DOMAIN cs, \A d \in DOMAIN chunks : cs[d] = chunks[d],
           NEW t \in Tensors, NEW c \in DOMAIN cs, NEW i \in DOMAIN cs[c].free,
           NEW size \in Nat \ {0}, Take(t, cs, c, i, size)
    PROVE  /\ RoomInv' /\ KeepsRoom(chunks, chunks')
           /\ owned'[t] # Nowhere /\ owned'[t].size = size
           /\ \A u \in Tensors : u # t => owned'[u] = owned[u]
<1>. DEFINE b == cs[c].free[i]
            top == Larger(cs[c].max_size, b.offset + size)
            r == [chunk |-> c, offset |-> b.offset, size |-> size]
<1>1. /\ chunks' = [cs EXCEPT ![c] = [free |-> Remaining(cs[c].free, i, size), max_size |-> top]]
      /\ owned' = [owned EXCEPT ![t] = r]
  BY DEF Take, Remaining
<1>2. \A d \in DOMAIN cs : cs[d] \in Chunk /\ cs[d].max_size \in Nat
  <2>1. \A d \in DOMAIN cs : cs[d] \in Chunk BY LenProperties, ElementOfSeq
  <2>. QED BY <2>1 DEF Chunk
<1>3. b.offset \in Nat
  <2>1. cs[c].free \in Seq(Block) BY <1>2 DEF Chunk
  <2>2. b \in Block BY <2>1, LenProperties, ElementOfSeq
  <2>. QED BY <2>2 DEF Block
<1>4. top \in Nat /\ cs[c].max_size <= top /\ b.offset + size <= top
  BY <1>2, <1>3 DEF Larger
<1>5. /\ r # Nowhere /\ r.chunk = c /\ r.size = size /\ End(r) = b.offset + size
  BY DEF Nowhere, End
<1>. HIDE DEF b, top, r
<1>6. /\ DOMAIN chunks' = DOMAIN cs /\ chunks'[c].max_size = top
      /\ \A d \in DOMAIN cs : d # c => chunks'[d] = cs[d]
  BY <1>1
<1>7. \A d \in DOMAIN chunks : chunks[d].max_size <= chunks'[d].max_size
                               /\ chunks[d].max_size \in Nat /\ chunks'[d].max_size \in Nat
  <2>. SUFFICES ASSUME NEW d \in DOMAIN chunks
                PROVE  /\ chunks[d].max_size <= chunks'[d].max_size
                       /\ chunks[d].max_size \in Nat /\ chunks'[d].max_size \in Nat
    OBVIOUS
  <2>1. d \in DOMAIN cs /\ chunks[d].max_size = cs[d].max_size OBVIOUS
  <2>2. cs[d].max_size \in Nat BY <1>2, <2>1
  <2>3. CASE d = c BY <1>4, <1>6, <2>1, <2>2, <2>3
  <2>4. CASE d # c
    <3>1. chunks'[d].max_size = cs[d].max_size BY <1>6, <2>1, <2>4
    <3>. QED BY <2>1, <2>2, <3>1
  <2>. QED BY <2>3, <2>4
<1>8. KeepsRoom(chunks, chunks')
  <2>. SUFFICES ASSUME NEW a \in Region, Room(a, chunks) PROVE Room(a, chunks')
    BY DEF KeepsRoom
  <2>1. End(a) \in Nat BY DEF Region, End
  <2>. QED BY <1>6, <1>7, <2>1 DEF Room
<1>9. owned'[t] = r /\ \A u \in Tensors : u # t => owned'[u] = owned[u]
  BY <1>1 DEF DynTypeOK
<1>10. RoomInv'
  <2>. SUFFICES ASSUME NEW u \in Tensors, owned'[u] # Nowhere
                PROVE  Room(owned'[u], chunks')
    BY DEF RoomInv, Room, End
  <2>1. CASE u = t BY <1>4, <1>5, <1>6, <1>9, <2>1 DEF Room
  <2>2. CASE u # t BY <1>8, <1>9, <2>2 DEF RoomInv, KeepsRoom, DynTypeOK
  <2>. QED BY <2>1, <2>2
<1>. QED BY <1>5, <1>8, <1>9, <1>10

LEMMA AllocRoom ==
    ASSUME DynInv, RoomInv, NEW t \in Tensors, NEW size \in Sizes, Alloc(t, size)
    PROVE  /\ RoomInv' /\ KeepsRoom(chunks, chunks')
           /\ owned'[t] # Nowhere /\ owned'[t].size = Aligned(size)
           /\ \A u \in Tensors : u # t => owned'[u] = owned[u]
<1>. DEFINE n == Aligned(size)
<1>1. n \in Nat \ {0} BY AlignedSize, DynAllocatorAssumption
<1>. HIDE DEF n
<1>2. DynTypeOK /\ chunks \in Seq(Chunk) /\ DOMAIN chunks = 1 .. Len(chunks)
      /\ Len(chunks) \in Nat
  BY LenProperties DEF DynInv, DynTypeOK
<1>3. ASSUME NEW c \in DOMAIN chunks, NEW i \in DOMAIN Free(c), Take(t, chunks, c, i, n)
      PROVE  /\ RoomInv' /\ KeepsRoom(chunks, chunks')
             /\ owned'[t] # Nowhere /\ owned'[t].size = n
             /\ \A u \in Tensors : u # t => owned'[u] = owned[u]
  BY <1>1, <1>2, <1>3, TakeRoom DEF Free
<1>4. ASSUME NEW c \in DOMAIN chunks, BestReuse(c, n), Take(t, chunks, c, Len(Free(c)), n)
      PROVE  /\ RoomInv' /\ KeepsRoom(chunks, chunks')
             /\ owned'[t] # Nowhere /\ owned'[t].size = n
             /\ \A u \in Tensors : u # t => owned'[u] = owned[u]
  <2>1. Free(c) # <<>> BY <1>4 DEF BestReuse, LastFits
  <2>2. Free(c) \in Seq(Block) BY DEF DynInv, FreeInv, Sound
  <2>3. Len(Free(c)) \in DOMAIN Free(c) BY <2>1, <2>2, LenProperties, EmptySeq
  <2>. QED BY <1>3, <1>4, <2>3
<1>5. ASSUME Take(t, Append(chunks, NewChunk(n)), Len(chunks) + 1, 1, n)
      PROVE  /\ RoomInv' /\ KeepsRoom(chunks, chunks')
             /\ owned'[t] # Nowhere /\ owned'[t].size = n
             /\ \A u \in Tensors : u # t => owned'[u] = owned[u]
  <2>. DEFINE fresh == NewChunk(n)
              cs == Append(chunks, fresh)
  <2>1. fresh \in Chunk /\ 1 \in DOMAIN fresh.free
    <3>. DEFINE room == IF Len(chunks) = MaxChunks - 1 THEN Endless ELSE Larger(n, MaxChunkSize)
                whole == [offset |-> 0, size |-> room]
    <3>1. room \in Nat BY <1>1, DynAllocatorAssumption DEF Larger
    <3>. HIDE DEF room
    <3>2. whole \in Block BY <3>1 DEF Block
    <3>3. fresh = [free |-> <<whole>>, max_size |-> 0] BY DEF NewChunk, room
    <3>. HIDE DEF whole, fresh
    <3>. QED BY <3>2, <3>3 DEF Chunk
  <2>. HIDE DEF fresh
  <2>2. /\ cs \in Seq(Chunk) /\ DOMAIN cs = 1 .. Len(chunks) + 1
        /\ cs[Len(chunks) + 1] = fresh
        /\ \A d \in DOMAIN chunks : cs[d] = chunks[d]
    BY <1>2, <2>1, AppendProperties, LenProperties
  <2>3. Take(t, cs, Len(chunks) + 1, 1, n) BY <1>5 DEF fresh
  <2>. HIDE DEF cs
  <2>4. DOMAIN chunks \subseteq DOMAIN cs /\ Len(chunks) + 1 \in DOMAIN cs
        /\ 1 \in DOMAIN cs[Len(chunks) + 1].free
    BY <1>2, <2>1, <2>2
  <2>. QED BY <1>1, <1>2, <2>2, <2>3, <2>4, TakeRoom
<1>. QED BY <1>3, <1>4, <1>5 DEF Alloc, AllocAligned, n

\* Freeing changes blocks only.
LEMMA FreedRoom ==
    ASSUME DynTypeOK, NEW c \in DOMAIN chunks, NEW offset, NEW size,
           FreeBytes(c, offset, size)
    PROVE  /\ DOMAIN chunks' = DOMAIN chunks
           /\ \A d \in DOMAIN chunks : chunks'[d].max_size = chunks[d].max_size
           /\ KeepsRoom(chunks, chunks')
<1>1. PICK left : chunks' = [chunks EXCEPT ![c].free = left] BY DEF FreeBytes
<1>2. chunks[c] \in Chunk /\ DOMAIN chunks' = DOMAIN chunks
  BY <1>1, LenProperties, ElementOfSeq DEF DynTypeOK
<1>3. \A d \in DOMAIN chunks : chunks'[d].max_size = chunks[d].max_size
  BY <1>1, <1>2 DEF Chunk
<1>. QED BY <1>2, <1>3 DEF KeepsRoom, Room

LEMMA FreeRoom ==
    ASSUME DynInv, RoomInv, NEW t \in Tensors, FreeTensor(t)
    PROVE  /\ RoomInv' /\ KeepsRoom(chunks, chunks')
           /\ owned'[t] = Nowhere
           /\ \A u \in Tensors : u # t => owned'[u] = owned[u]
<1>1. /\ owned[t] # Nowhere /\ owned[t].chunk \in DOMAIN chunks /\ DynTypeOK
      /\ FreeBytes(owned[t].chunk, owned[t].offset, owned[t].size)
      /\ owned' = [owned EXCEPT ![t] = Nowhere]
  BY DEF FreeTensor, DynInv, OwnedInv
<1>2. KeepsRoom(chunks, chunks') BY <1>1, FreedRoom
<1>3. owned'[t] = Nowhere /\ \A u \in Tensors : u # t => owned'[u] = owned[u]
  BY <1>1 DEF DynTypeOK
<1>4. RoomInv'
  <2>. SUFFICES ASSUME NEW u \in Tensors, owned'[u] # Nowhere
                PROVE  Room(owned'[u], chunks')
    BY DEF RoomInv, Room, End
  <2>1. owned'[u] = owned[u] /\ owned[u] \in Region BY <1>1, <1>3 DEF DynTypeOK
  <2>. QED BY <1>2, <2>1 DEF RoomInv, KeepsRoom
<1>. QED BY <1>2, <1>3, <1>4

LEMMA HandOverRoom ==
    ASSUME DynInv, RoomInv, NEW p \in Tensors, NEW t \in Tensors, NEW size \in Sizes,
           HandOver(p, t, size)
    PROVE  /\ RoomInv' /\ KeepsRoom(chunks, chunks')
           /\ owned[p] # Nowhere /\ owned'[p] = Nowhere /\ p # t
           /\ owned'[t] # Nowhere /\ owned'[t].size = Aligned(size)
           /\ owned'[t].chunk = owned[p].chunk /\ owned'[t].offset = owned[p].offset
           /\ \A u \in Tensors : u # t /\ u # p => owned'[u] = owned[u]
<1>. DEFINE n == Aligned(size)
            r == owned[p]
            s == [r EXCEPT !.size = n]
<1>1. n \in Nat \ {0} BY AlignedSize, DynAllocatorAssumption
<1>. HIDE DEF n
<1>2. /\ r # Nowhere /\ owned[t] = Nowhere /\ n <= r.size /\ p # t
      /\ owned' = [owned EXCEPT ![p] = Nowhere, ![t] = s]
      /\ DynTypeOK /\ r.chunk \in DOMAIN chunks /\ r \in Region
  BY DEF HandOver, n, DynInv, OwnedInv, DynTypeOK
<1>3. /\ s \in Region /\ s.chunk = r.chunk /\ s.offset = r.offset /\ s.size = n
      /\ End(s) <= End(r) /\ End(s) \in Nat /\ End(r) \in Nat
  BY <1>1, <1>2 DEF Region, End
<1>4. s # Nowhere BY <1>1, <1>3 DEF Nowhere
<1>. HIDE DEF s
<1>5. owned'[t] = s /\ owned'[p] = Nowhere
      /\ \A u \in Tensors : u # p /\ u # t => owned'[u] = owned[u]
  BY <1>2 DEF DynTypeOK
<1>6. KeepsRoom(chunks, chunks')
  <2>1. CASE n < r.size BY <1>2, <2>1, FreedRoom DEF HandOver, n
  <2>2. CASE ~(n < r.size) BY <2>2 DEF HandOver, n, KeepsRoom
  <2>. QED BY <2>1, <2>2
<1>7. Room(s, chunks)
  <2>1. Room(r, chunks) BY <1>2 DEF RoomInv
  <2>2. chunks[r.chunk].max_size \in Nat
    <3>1. chunks[r.chunk] \in Chunk BY <1>2, LenProperties, ElementOfSeq DEF DynTypeOK
    <3>. QED BY <3>1 DEF Chunk
  <2>. QED BY <1>3, <2>1, <2>2 DEF Room
<1>8. RoomInv'
  <2>. SUFFICES ASSUME NEW u \in Tensors, owned'[u] # Nowhere
                PROVE  Room(owned'[u], chunks')
    BY DEF RoomInv, Room, End
  <2>1. CASE u = t BY <1>3, <1>5, <1>6, <1>7, <2>1 DEF KeepsRoom
  <2>2. CASE u # t
    <3>1. owned'[u] = owned[u] /\ owned[u] \in Region BY <1>2, <1>5, <2>2 DEF DynTypeOK
    <3>. QED BY <1>6, <3>1 DEF RoomInv, KeepsRoom
  <2>. QED BY <2>1, <2>2
<1>. QED BY <1>2, <1>3, <1>4, <1>5, <1>6, <1>8 DEF n

LEMMA RoomInductive == DynInv /\ RoomInv /\ [DynNext]_dynVars => RoomInv'
<1>. SUFFICES ASSUME DynInv, RoomInv, [DynNext]_dynVars PROVE RoomInv' OBVIOUS
<1>1. ASSUME NEW t \in Tensors, NEW size \in Sizes, Alloc(t, size) PROVE RoomInv'
  BY <1>1, AllocRoom
<1>2. ASSUME NEW t \in Tensors, FreeTensor(t) PROVE RoomInv' BY <1>2, FreeRoom
<1>3. ASSUME NEW p \in Tensors, NEW t \in Tensors, NEW size \in Sizes, HandOver(p, t, size)
      PROVE  RoomInv'
  BY <1>3, HandOverRoom
<1>4. CASE Reset BY <1>4 DEF Reset, RoomInv
<1>5. CASE UNCHANGED dynVars BY <1>5 DEF dynVars, RoomInv, Room, End
<1>. QED BY <1>1, <1>2, <1>3, <1>4, <1>5 DEF DynNext

LEMMA RoomStart == DynInit => RoomInv
BY DEF DynInit, RoomInv
=============================================================================
