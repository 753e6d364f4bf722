---------------------------- MODULE DynAllocator ----------------------------
(***************************************************************************)
(* ggml_dyn_tallocr, which lays tensors out in chunks of memory before     *)
(* there is any: each chunk keeps its free blocks sorted by offset and     *)
(* remembers how much of it was ever used.  Its callers hand every region  *)
(* back once, or pass it on to another tensor and free what is left over.  *)
(***************************************************************************)
EXTENDS Integers, Sequences, SequencesExt

CONSTANTS
    Tensors,
    Sizes,              \* sizes that are asked for
    Alignment,
    MaxChunkSize,       \* a chunk is larger only for a tensor that is
    MaxChunks,
    MaxFreeBlocks,      \* of a chunk; the program is aborted for one more
    Endless             \* free space of the last chunk, SIZE_MAX / 2 in the code

ASSUME DynAllocatorAssumption ==
    /\ Sizes \subseteq Nat \ {0}
    /\ Alignment \in Nat \ {0}
    /\ MaxChunkSize \in Nat \ {0} /\ MaxChunks \in Nat \ {0} /\ Endless \in Nat \ {0}
    /\ MaxFreeBlocks \in Nat \ {0}
    /\ \A s \in Sizes : s + Alignment <= Endless

VARIABLES
    chunks,             \* sequence of [free, max_size]
    owned               \* owned[t]: the region tensor t has now

dynVars == <<chunks, owned>>

Block == [offset : Nat, size : Nat]
Chunk == [free : Seq(Block), max_size : Nat]
Region == [chunk : Nat, offset : Nat, size : Nat]
Nowhere == [chunk |-> 0, offset |-> 0, size |-> 0]

\* aligned_offset(NULL, size, alignment).
Aligned(size) == ((size + Alignment - 1) \div Alignment) * Alignment

End(b) == b.offset + b.size
Larger(a, b) == IF a >= b THEN a ELSE b
Free(c) == chunks[c].free
LastBlock(c) == Free(c)[Len(Free(c))]

DynInit ==
    /\ chunks = <<>>
    /\ owned = [t \in Tensors |-> Nowhere]
-----------------------------------------------------------------------------
(* ggml_dyn_tallocr_alloc.                                                 *)

\* The blocks of chunk c that would do, the last one left aside.
Fits(c, size) == {i \in 1 .. Len(Free(c)) - 1 : Free(c)[i].size >= size}

\* Each chunk starts its own search: the last one with a fit is taken, and in it
\* the last of the smallest blocks.
BestFit(c, i, size) ==
    /\ i \in Fits(c, size)
    /\ \A d \in c + 1 .. Len(chunks) : Fits(d, size) = {}
    /\ \A k \in Fits(c, size) :
          \/ Free(c)[i].size < Free(c)[k].size
          \/ Free(c)[i].size = Free(c)[k].size /\ k <= i

NoFit(size) == \A c \in DOMAIN chunks : Fits(c, size) = {}

LastFits(size) == {c \in DOMAIN chunks : Free(c) # <<>> /\ LastBlock(c).size >= size}

\* Used space that stays empty, or, when negative, what the chunk must grow.
ReuseFactor(c, size) == chunks[c].max_size - LastBlock(c).offset - size

Better(x, y) == IF y < 0 THEN x > y ELSE x >= 0 /\ x < y

BestReuse(c, size) ==
    /\ c \in LastFits(size)
    /\ \A d \in LastFits(size) :
          /\ d < c => Better(ReuseFactor(c, size), ReuseFactor(d, size))
          /\ d > c => ~Better(ReuseFactor(d, size), ReuseFactor(c, size))

NewChunk(size) ==
    [free |-> <<[offset |-> 0,
                 size |-> IF Len(chunks) = MaxChunks - 1 THEN Endless
                          ELSE Larger(size, MaxChunkSize)]>>,
     max_size |-> 0]

\* Tensor t gets the start of block i of chunk c.
Take(t, cs, c, i, size) ==
    LET b == cs[c].free[i] IN
    /\ chunks' = [cs EXCEPT ![c] =
          [free |-> IF b.size = size
                    THEN RemoveAt(cs[c].free, i)
                    ELSE [cs[c].free EXCEPT ![i] =
                             [offset |-> b.offset + size, size |-> b.size - size]],
           max_size |-> Larger(cs[c].max_size, b.offset + size)]]
    /\ owned' = [owned EXCEPT ![t] = [chunk |-> c, offset |-> b.offset, size |-> size]]

AllocAligned(t, size) ==
    \/ \E c \in DOMAIN chunks : \E i \in DOMAIN Free(c) :
          BestFit(c, i, size) /\ Take(t, chunks, c, i, size)
    \/ /\ NoFit(size)
       /\ \E c \in DOMAIN chunks :
             BestReuse(c, size) /\ Take(t, chunks, c, Len(Free(c)), size)
    \/ /\ NoFit(size) /\ LastFits(size) = {}
       /\ Len(chunks) < MaxChunks
       /\ Take(t, Append(chunks, NewChunk(size)), Len(chunks) + 1, 1, size)

Alloc(t, size) == owned[t] = Nowhere /\ AllocAligned(t, Aligned(size))
-----------------------------------------------------------------------------
(* ggml_dyn_tallocr_free_bytes.                                            *)

Touches(b, offset, size) == End(b) = offset \/ offset + size = b.offset

\* Mutant: a block grown at its end is not joined with the next one.
MergedAt_NextKept(free, i, offset, size) ==
    IF End(free[i]) = offset
    THEN [free EXCEPT ![i] = [offset |-> free[i].offset, size |-> free[i].size + size]]
    ELSE IF i > 1 /\ End(free[i - 1]) = offset
         THEN [RemoveAt(free, i) EXCEPT ![i - 1] =
                  [offset |-> free[i - 1].offset,
                   size |-> free[i - 1].size + free[i].size + size]]
         ELSE [free EXCEPT ![i] = [offset |-> offset, size |-> free[i].size + size]]

\* Mutant: the next block is dropped, its bytes are lost.
MergedAt_NextLost(free, i, offset, size) ==
    IF End(free[i]) = offset
    THEN IF i < Len(free) /\ offset + size = free[i + 1].offset
         THEN [RemoveAt(free, i + 1) EXCEPT ![i] =
                  [offset |-> free[i].offset, size |-> free[i].size + size]]
         ELSE [free EXCEPT ![i] =
                  [offset |-> free[i].offset, size |-> free[i].size + size]]
    ELSE IF i > 1 /\ End(free[i - 1]) = offset
         THEN [RemoveAt(free, i) EXCEPT ![i - 1] =
                  [offset |-> free[i - 1].offset,
                   size |-> free[i - 1].size + free[i].size + size]]
         ELSE [free EXCEPT ![i] = [offset |-> offset, size |-> free[i].size + size]]

\* The first block that touches the freed bytes swallows them, and a neighbour
\* it meets then.
MergedAt(free, i, offset, size) ==
    IF End(free[i]) = offset
    THEN IF i < Len(free) /\ offset + size = free[i + 1].offset
         THEN [RemoveAt(free, i + 1) EXCEPT ![i] =
                  [offset |-> free[i].offset,
                   size |-> free[i].size + size + free[i + 1].size]]
         ELSE [free EXCEPT ![i] =
                  [offset |-> free[i].offset, size |-> free[i].size + size]]
    ELSE IF i > 1 /\ End(free[i - 1]) = offset
         THEN [RemoveAt(free, i) EXCEPT ![i - 1] =
                  [offset |-> free[i - 1].offset,
                   size |-> free[i - 1].size + free[i].size + size]]
         ELSE [free EXCEPT ![i] = [offset |-> offset, size |-> free[i].size + size]]

\* insert_block keeps the blocks sorted.
InsertPosition(free, i, offset) ==
    /\ \A k \in 1 .. i - 1 : free[k].offset < offset
    /\ i <= Len(free) => free[i].offset >= offset

FreeBytes(c, offset, size) ==
    LET free == Free(c)
        touching == {i \in DOMAIN free : Touches(free[i], offset, size)} IN
    \/ \E i \in touching :
          /\ \A k \in touching : i <= k
          /\ chunks' = [chunks EXCEPT ![c].free = MergedAt(free, i, offset, size)]
    \/ /\ touching = {} /\ Len(free) < MaxFreeBlocks
       /\ \E i \in 1 .. Len(free) + 1 :
             /\ InsertPosition(free, i, offset)
             /\ chunks' = [chunks EXCEPT ![c].free =
                              InsertAt(free, i, [offset |-> offset, size |-> size])]

FreeTensor(t) ==
    /\ owned[t] # Nowhere
    /\ FreeBytes(owned[t].chunk, owned[t].offset, owned[t].size)
    /\ owned' = [owned EXCEPT ![t] = Nowhere]

\* Mutant: what is left over starts where the region does.
HandOver_LeftoverAtStart(p, t, size) ==
    LET r == owned[p] IN
    /\ r # Nowhere /\ owned[t] = Nowhere
    /\ Aligned(size) <= r.size
    /\ IF Aligned(size) < r.size
       THEN FreeBytes(r.chunk, r.offset, r.size - Aligned(size))
       ELSE UNCHANGED chunks
    /\ owned' = [owned EXCEPT ![p] = Nowhere, ![t] = [r EXCEPT !.size = Aligned(size)]]

\* The region of parent p goes to tensor t, and what t does not need is freed.
HandOver(p, t, size) ==
    LET r == owned[p] IN
    /\ r # Nowhere /\ owned[t] = Nowhere
    /\ Aligned(size) <= r.size
    /\ IF Aligned(size) < r.size
       THEN FreeBytes(r.chunk, r.offset + Aligned(size), r.size - Aligned(size))
       ELSE UNCHANGED chunks
    /\ owned' = [owned EXCEPT ![p] = Nowhere, ![t] = [r EXCEPT !.size = Aligned(size)]]

Reset ==
    /\ chunks' = <<>>
    /\ owned' = [t \in Tensors |-> Nowhere]

DynNext ==
    \/ \E t \in Tensors, size \in Sizes : Alloc(t, size)
    \/ \E t \in Tensors : FreeTensor(t)
    \/ \E p, t \in Tensors, size \in Sizes : HandOver(p, t, size)
    \/ Reset

DynSpec == DynInit /\ [][DynNext]_dynVars
-----------------------------------------------------------------------------
Apart(a, b) == End(a) <= b.offset \/ End(b) <= a.offset

\* No two tensors share memory: whatever was merged, split, passed on or freed
\* in part, a region is handed out to one tensor at a time.
NoOverlap ==
    \A t, u \in Tensors :
        t # u /\ owned[t] # Nowhere /\ owned[t].chunk = owned[u].chunk =>
            Apart(owned[t], owned[u])

\* Nothing is lost: each byte a chunk ever used is in one region or in one free
\* block, and never in two.
Accounted ==
    \A c \in DOMAIN chunks : \A x \in 0 .. chunks[c].max_size - 1 :
        Cardinality({t \in Tensors : owned[t].chunk = c
                                     /\ owned[t].offset <= x /\ x < End(owned[t])})
        + Cardinality({i \in DOMAIN Free(c) : Free(c)[i].offset <= x /\ x < End(Free(c)[i])})
        = 1

\* Freed neighbours are always joined, whatever the order they are freed in:
\* a large tensor fits wherever the bytes for it lie side by side.
Coalesced ==
    \A c \in DOMAIN chunks : \A i \in 1 .. Len(Free(c)) - 1 :
        End(Free(c)[i]) < Free(c)[i + 1].offset
=============================================================================
