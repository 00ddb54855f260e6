----------------------------- MODULE ScratchRing -----------------------------
(***************************************************************************)
(* ScratchAllocator (Base/Memory/ScratchAllocator.cpp): a ring buffer of   *)
(* variable blocks that may be freed in any order.  New blocks are taken   *)
(* at _alloc_head; a freed block is only marked, and _free_tail moves past *)
(* the marked blocks that have become the oldest.  A block never straddles *)
(* the end of the buffer: a filler block takes what is left there and the  *)
(* new block starts at offset 0.                                           *)
(*                                                                         *)
(* The temporary heap of the engine is one of these behind a               *)
(* ThreadSafeProxyHeap, and every worker of the job system owns another    *)
(* one; in both uses a call is one atomic step of the heap.                *)
(*                                                                         *)
(* Pointers are byte offsets from _buffer_start.                           *)
(***************************************************************************)
EXTENDS Integers, FiniteSets

CONSTANTS N,           \* bytes of the buffer (_buffer_end)
          Base,        \* address of the buffer, which alignment looks at
          Sizes,       \* bytes requested
          Aligns,      \* alignments requested, multiples of 4
          MaxBacking   \* bound on blocks held from the backing allocator;
                       \* 0 stands for no backing allocator

ASSUME BufferAssumption ==
  /\ N \in Nat /\ N > 0
  /\ Base \in Nat
  /\ MaxBacking \in Nat
ASSUME RequestAssumption ==
  /\ Sizes \subseteq Nat
  /\ Aligns \subseteq Nat \ {0}

VARIABLES head,      \* _alloc_head
          tail,      \* _free_tail
          used,      \* m_used
          hdr,       \* the headers between tail and head, by their offset
          blocks,    \* history: bytes asked for, by the pointer returned
          aligns,    \* history: alignment asked for, by the pointer returned
          nBacking   \* history: blocks held from the backing allocator

vars == <<head, tail, used, hdr, blocks, aligns, nBacking>>

HEADER == 4             \* sizeof(MemBlockHeader)
MINIMUM_ALIGNMENT == 4

\* TAlignUp and memory::align_forward.
AlignUp(x, a) == x + (IF x % a = 0 THEN 0 ELSE a - (x % a))

UnalignedDataPtr(h, align) == h + HEADER  \* mutant: the padding is forgotten

\* GetDataPtrAfterHeader: the padding goes between header and data.
GetDataPtrAfterHeader(h, align) == AlignUp(Base + h + HEADER, align) - Base

\* The end `p' of a block whose header is at h.
EndOf(h, size, align) ==
  GetDataPtrAfterHeader(h, align) + AlignUp(size, MINIMUM_ALIGNMENT)

EmptyOrFull(p) ==  \* mutant: the tail itself counts as free
  /\ tail # head
  /\ IF head > tail THEN p > tail /\ p < head ELSE p > tail \/ p < head

\* IsAddressInUse
IsAddressInUse(p) ==
  /\ tail # head
  /\ IF head > tail THEN p >= tail /\ p < head ELSE p >= tail \/ p < head

-----------------------------------------------------------------------------
Init ==
  /\ head = 0
  /\ tail = 0
  /\ used = 0
  /\ hdr = [x \in {} |-> 0]
  /\ blocks = [x \in {} |-> 0]
  /\ aligns = [x \in {} |-> 0]
  /\ nBacking = 0

Header(size, free, data) == [size |-> size, free |-> free, data |-> data]

UnmarkedFiller == Header(N - head, FALSE, 0)  \* mutant: is_free is not set

\* The filler that a wrapping request leaves at the end of the buffer; no
\* pointer leads to it.
Filler == Header(N - head, TRUE, 0)

\* AllocateSpaceInRingBuffer: the request is laid out at the head, or behind
\* a filler at the start of the buffer if it reaches the end.
WrapsLate(size, align) == EndOf(head, size, align) > N  \* mutant: >= is >
Wraps(size, align) == EndOf(head, size, align) >= N
StartOf(size, align) == IF Wraps(size, align) THEN 0 ELSE head
FitsInRing(size, align) ==
  size < N /\ ~IsAddressInUse(EndOf(StartOf(size, align), size, align))

AllocateFromRing(size, align) ==
  LET h == StartOf(size, align)
      data == GetDataPtrAfterHeader(h, align)
      p == EndOf(h, size, align)
      fillers == IF Wraps(size, align) THEN {head} ELSE {}
  IN  /\ FitsInRing(size, align)
      /\ hdr' = [x \in DOMAIN hdr \cup fillers \cup {h} |->
                   IF x = h THEN Header(p - h, FALSE, data)
                   ELSE IF x \in fillers THEN Filler
                   ELSE hdr[x]]
      /\ head' = p
      /\ used' = used + (p - h)
      /\ blocks' = [d \in DOMAIN blocks \cup {data} |->
                      IF d = data THEN size ELSE blocks[d]]
      /\ aligns' = [d \in DOMAIN blocks \cup {data} |->
                      IF d = data THEN align ELSE aligns[d]]
      /\ UNCHANGED <<tail, nBacking>>

\* Allocate, when the ring cannot take the request.  A filler header that a
\* failed attempt wrote lies at the head, outside the blocks in use, and the
\* next request overwrites it; it is left out here.
AllocateFromBacking(size, align) ==
  /\ ~FitsInRing(size, align)
  /\ nBacking < MaxBacking
  /\ nBacking' = nBacking + 1
  /\ UNCHANGED <<head, tail, used, hdr, blocks, aligns>>

Allocate(size, align) ==
  AllocateFromRing(size, align) \/ AllocateFromBacking(size, align)

\* GetHeader: the header whose data the pointer is; the client holds it, so
\* the block is busy.
GetHeader(p) == CHOOSE x \in DOMAIN hdr : ~hdr[x].free /\ hdr[x].data = p

\* How far x lies behind the tail.
Dist(x) == IF x >= tail THEN x - tail ELSE x - tail + N

\* Blocks still busy once the one at h is marked free.
BusyBut(h) == {x \in DOMAIN hdr : /\ ~hdr[x].free /\ x # h
                                  /\ IsAddressInUse(x)}

\* mutant: the tail moves past the freed block, whoever is in front of it
TailToFreed(h) == IF h + hdr[h].size = N THEN 0 ELSE h + hdr[h].size

\* _MoveFreePointerPastFreeBlocks: on to the oldest busy block, or to the
\* head if there is none.
NewTail(h) ==
  IF BusyBut(h) = {} THEN head
  ELSE CHOOSE x \in BusyBut(h) : \A y \in BusyBut(h) : Dist(x) <= Dist(y)

\* Deallocate: the block is marked and the tail moves on.
Deallocate(p) ==
  LET h == GetHeader(p)
      t == NewTail(h)
      kept == IF t = head THEN {}
              ELSE {x \in DOMAIN hdr : Dist(x) >= Dist(t)}
  IN  /\ hdr' = [x \in kept |-> IF x = h THEN [hdr[x] EXCEPT !.free = TRUE]
                                ELSE hdr[x]]
      /\ used' = used - hdr[h].size
      /\ tail' = t
      /\ blocks' = [d \in DOMAIN blocks \ {p} |-> blocks[d]]
      /\ aligns' = [d \in DOMAIN blocks \ {p} |-> aligns[d]]
      /\ UNCHANGED <<head, nBacking>>

\* Deallocate of a pointer outside the buffer.
DeallocateFromBacking ==
  /\ nBacking > 0
  /\ nBacking' = nBacking - 1
  /\ UNCHANGED <<head, tail, used, hdr, blocks, aligns>>

Next ==
  \/ \E size \in Sizes, align \in Aligns : Allocate(size, align)
  \/ \E p \in DOMAIN blocks : Deallocate(p)
  \/ DeallocateFromBacking

Spec == Init /\ [][Next]_vars

-----------------------------------------------------------------------------
(* Properties *)

\* The requests the ring is safe for: what is lost at the end of the buffer
\* and what is then needed at its start leave a byte between them, wherever
\* the head stands.  Requests of less than half the buffer, header and
\* padding included, are such.
ShortRequests ==
  \A s, t \in Sizes, a, b \in Aligns, h \in 0 .. N - 1 :
    s < N => (EndOf(h, s, a) - h) + EndOf(0, s, a) < N

TypeOK ==
  /\ head \in 0 .. N - 1
  /\ tail \in 0 .. N - 1
  /\ used \in Int
  /\ DOMAIN hdr \subseteq 0 .. N - 1
  /\ \A x \in DOMAIN hdr : hdr[x] \in [size : 1 .. N, free : BOOLEAN, data : 0 .. N]
  /\ DOMAIN blocks \subseteq 1 .. N
  /\ \A d \in DOMAIN blocks : blocks[d] \in Sizes
  /\ nBacking \in Nat

After(x) == IF x + hdr[x].size = N THEN 0 ELSE x + hdr[x].size

\* The headers tile the used part of the ring: no two blocks overlap, the
\* walk of _MoveFreePointerPastFreeBlocks from tail to head meets headers
\* only and never runs over the end, and each busy header is the one that
\* GetHeader finds for exactly one pointer in the client's hands, whose bytes
\* it covers.
RingTiled ==
  /\ tail # head => tail \in DOMAIN hdr
  /\ \A x \in DOMAIN hdr :
       /\ IsAddressInUse(x)
       /\ x + hdr[x].size <= IF x < head THEN head ELSE N
       /\ After(x) = head \/ After(x) \in DOMAIN hdr
       /\ \A y \in DOMAIN hdr : x < y => x + hdr[x].size <= y
       /\ ~hdr[x].free => /\ hdr[x].data \in DOMAIN blocks
                          /\ x + HEADER <= hdr[x].data
                          /\ hdr[x].data + blocks[hdr[x].data] <= x + hdr[x].size
  /\ \A d \in DOMAIN blocks :
       \E x \in DOMAIN hdr : ~hdr[x].free /\ hdr[x].data = d

\* The ring is empty for the allocator (tail = head, which a full ring must
\* never look like) exactly when no client holds a block of it: what the
\* assertions of shutdown and the destructor rely on.
EmptyExact == tail = head <=> DOMAIN blocks = {}

\* m_used counts the bytes of the blocks clients hold, headers and padding
\* included, and never those of the fillers, which are released without
\* Deallocate.
BytesOf(x) == x .. x + hdr[x].size - 1
BytesHeld == UNION {BytesOf(x) : x \in {y \in DOMAIN hdr : ~hdr[y].free}}
UsedExact == used = Cardinality(BytesHeld)

HeldRange(d) == [lo |-> d, hi |-> d + blocks[d], align |-> aligns[d]]

\* No two blocks in clients' hands share a byte.
BlocksApart ==
  \A d, e \in DOMAIN blocks :
    d < e => d + blocks[d] <= e

\* The ring keeps the promise of an allocator.
Promise == INSTANCE Heap WITH Size <- N,
                              held <- {HeldRange(d) : d \in DOMAIN blocks},
                              outside <- nBacking
HeapSpec == Promise!HeapSpec
=============================================================================
