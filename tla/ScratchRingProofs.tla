-------------------------- MODULE ScratchRingProofs --------------------------
(***************************************************************************)
(* Proofs about ScratchRing for every buffer, base address, size and       *)
(* alignment, under ShortRequests: without it the code gives out blocks    *)
(* that overlap (run `overlap').                                           *)
(*                                                                         *)
(* TypeOK, RingTiled and EmptyExact are inductive together.  The proof of  *)
(* a step first settles where the new head or the new tail lies, which is  *)
(* arithmetic on a few offsets, and then checks the tiling block by block. *)
(***************************************************************************)
EXTENDS ScratchRing, FiniteSetTheorems, TLAPS

IInv == TypeOK /\ RingTiled /\ EmptyExact

-----------------------------------------------------------------------------
(* Arithmetic of one block *)

\* Aligning goes up by less than the alignment.
LEMMA AlignUpFacts ==
  ASSUME NEW x \in Nat, NEW a \in Nat, a > 0
  PROVE  /\ AlignUp(x, a) \in Nat
         /\ AlignUp(x, a) >= x
         /\ AlignUp(x, a) % a = 0
<1>1. x % a \in 0 .. a - 1
  OBVIOUS
<1>2. CASE x % a = 0
  BY <1>2 DEF AlignUp
<1>3. CASE x % a # 0
  <2>1. AlignUp(x, a) = x + (a - (x % a))
    BY <1>3 DEF AlignUp
  <2>2. PICK q \in Int : x = q * a + (x % a)
    OBVIOUS
  <2>3. x + (a - (x % a)) = (q + 1) * a
    BY <1>1, <2>2
  <2>4. ((q + 1) * a) % a = 0
    BY <2>2
  <2> QED
    BY <1>1, <2>1, <2>3, <2>4
<1> QED
  BY <1>2, <1>3

\* A block has room for its header and for the bytes asked for.
LEMMA BlockFacts ==
  ASSUME NEW h \in Nat, NEW s \in Sizes, NEW a \in Aligns
  PROVE  /\ GetDataPtrAfterHeader(h, a) \in Nat
         /\ GetDataPtrAfterHeader(h, a) >= h + HEADER
         /\ (Base + GetDataPtrAfterHeader(h, a)) % a = 0
         /\ EndOf(h, s, a) \in Nat
         /\ EndOf(h, s, a) >= GetDataPtrAfterHeader(h, a) + s
<1>1. /\ Base + h + HEADER \in Nat /\ a \in Nat /\ a > 0 /\ s \in Nat
      /\ Base \in Nat
  BY BufferAssumption, RequestAssumption DEF HEADER
<1> DEFINE u == AlignUp(Base + h + HEADER, a)
<1>2. u \in Nat /\ u >= Base + h + HEADER /\ u % a = 0
  BY <1>1, AlignUpFacts
<1>3. AlignUp(s, MINIMUM_ALIGNMENT) \in Nat /\ AlignUp(s, MINIMUM_ALIGNMENT) >= s
  BY <1>1, AlignUpFacts DEF MINIMUM_ALIGNMENT
<1>4. GetDataPtrAfterHeader(h, a) = u - Base
  BY DEF GetDataPtrAfterHeader
<1>5. EndOf(h, s, a) = (u - Base) + AlignUp(s, MINIMUM_ALIGNMENT)
  BY <1>4 DEF EndOf
<1>6. Base + (u - Base) = u
  BY <1>1, <1>2
<1> HIDE DEF u
<1> QED
  BY <1>1, <1>2, <1>3, <1>4, <1>5, <1>6 DEF HEADER

\* A set of natural numbers has a least element.
LEMMA LeastNatural ==
  ASSUME NEW D \in SUBSET Nat, D # {}
  PROVE  \E m \in D : \A k \in D : m <= k
<1> DEFINE R == OpToRel(<, Nat)
<1>1. \E m \in D : \A k \in D : ~(<<k, m>> \in R)
  <2> HIDE DEF R
  <2>1. IsWellFoundedOn(R, Nat)
    BY NatLessThanWellFounded DEF R
  <2> QED
    BY <2>1, WFMin
<1>2. ASSUME NEW m \in D, NEW k \in D, ~(<<k, m>> \in R)
      PROVE  m <= k
  BY <1>2 DEF OpToRel
<1> QED
  BY <1>1, <1>2

-----------------------------------------------------------------------------
(* What the invariant says of one header *)

\* A header in use ends in front of the next one, the head or the end.
LEMMA HeaderFacts ==
  ASSUME IInv, NEW x \in DOMAIN hdr
  PROVE  /\ x \in 0 .. N - 1
         /\ hdr[x].size \in 1 .. N
         /\ hdr[x].data \in Int
         /\ IsAddressInUse(x)
         /\ x + hdr[x].size <= IF x < head THEN head ELSE N
         /\ After(x) = head \/ After(x) \in DOMAIN hdr
         /\ \A y \in DOMAIN hdr : x < y => x + hdr[x].size <= y
<1>1. x \in 0 .. N - 1 /\ hdr[x] \in [size : 1 .. N, free : BOOLEAN, data : 0 .. N]
  BY DEF IInv, TypeOK
<1>2. N \in Nat
  BY BufferAssumption
<1>3. /\ IsAddressInUse(x)
      /\ x + hdr[x].size <= IF x < head THEN head ELSE N
      /\ After(x) = head \/ After(x) \in DOMAIN hdr
      /\ \A y \in DOMAIN hdr : x < y => x + hdr[x].size <= y
  BY Zenon DEF IInv, RingTiled
<1> QED
  BY <1>1, <1>2, <1>3

\* A busy header covers the bytes of a pointer that a client holds.
LEMMA BusyFacts ==
  ASSUME IInv, NEW x \in DOMAIN hdr, ~hdr[x].free
  PROVE  /\ hdr[x].data \in DOMAIN blocks
         /\ blocks[hdr[x].data] \in Nat
         /\ x + HEADER <= hdr[x].data
         /\ hdr[x].data + blocks[hdr[x].data] <= x + hdr[x].size
BY RequestAssumption DEF IInv, TypeOK, RingTiled

\* Every pointer in the client's hands has a busy header.
LEMMA PointerFacts ==
  ASSUME IInv, NEW d \in DOMAIN blocks
  PROVE  \E x \in DOMAIN hdr : ~hdr[x].free /\ hdr[x].data = d
BY Zenon DEF IInv, RingTiled

\* Two busy headers lead to different pointers.
LEMMA DataInjective ==
  ASSUME IInv, NEW x \in DOMAIN hdr, NEW y \in DOMAIN hdr,
         ~hdr[x].free, ~hdr[y].free, hdr[x].data = hdr[y].data
  PROVE  x = y
<1>1. /\ x \in Nat /\ y \in Nat /\ hdr[x].data \in Int
      /\ hdr[x].size \in Nat /\ hdr[y].size \in Nat
      /\ x < y => x + hdr[x].size <= y
      /\ y < x => y + hdr[y].size <= x
  BY HeaderFacts
<1>2. /\ x + HEADER <= hdr[x].data /\ hdr[x].data <= x + hdr[x].size
      /\ y + HEADER <= hdr[y].data /\ hdr[y].data <= y + hdr[y].size
  BY <1>1, BusyFacts
<1> QED
  BY <1>1, <1>2 DEF HEADER

-----------------------------------------------------------------------------
(* Where the head goes *)

\* A request that fits at the head ends behind it and before the tail.
LEMMA HeadAdvances ==
  ASSUME TypeOK, NEW s \in Sizes, NEW a \in Aligns,
         FitsInRing(s, a), ~Wraps(s, a)
  PROVE  LET p == EndOf(head, s, a)
         IN  /\ p \in head + 1 .. N - 1
             /\ head >= tail \/ p < tail
<1>1. head \in Nat /\ tail \in Nat /\ N \in Nat
  BY BufferAssumption DEF TypeOK
<1>2. EndOf(head, s, a) \in Nat /\ EndOf(head, s, a) > head
  BY <1>1, BlockFacts, RequestAssumption DEF HEADER
<1>3. EndOf(head, s, a) < N
  BY <1>1, <1>2 DEF Wraps
<1>4. ~IsAddressInUse(EndOf(head, s, a))
  BY DEF FitsInRing, StartOf
<1> QED
  BY <1>1, <1>2, <1>3, <1>4 DEF IsAddressInUse

\* A short request that wraps ends before the head it started from, and the
\* tail lies between the two: this is where ShortRequests is needed.
LEMMA HeadWraps ==
  ASSUME TypeOK, ShortRequests, NEW s \in Sizes, NEW a \in Aligns,
         FitsInRing(s, a), Wraps(s, a)
  PROVE  LET p == EndOf(0, s, a)
         IN  /\ p \in 1 .. head - 1
             /\ p < tail /\ tail <= head
<1>1. head \in 0 .. N - 1 /\ tail \in Nat /\ N \in Nat
  BY BufferAssumption DEF TypeOK
<1>2. EndOf(0, s, a) \in Nat /\ EndOf(0, s, a) > 0
  BY BlockFacts, RequestAssumption DEF HEADER
<1>3. EndOf(head, s, a) \in Nat /\ EndOf(head, s, a) >= N
  BY <1>1, BlockFacts DEF Wraps
<1>4. (EndOf(head, s, a) - head) + EndOf(0, s, a) < N
  BY <1>1, Zenon DEF ShortRequests, FitsInRing
<1>5. ~IsAddressInUse(EndOf(0, s, a))
  BY DEF FitsInRing, StartOf
<1> QED
  BY <1>1, <1>2, <1>3, <1>4, <1>5 DEF IsAddressInUse

\* The pointer of a new block is not in anybody's hands.
LEMMA DataFresh ==
  ASSUME IInv, ShortRequests, NEW s \in Sizes, NEW a \in Aligns,
         FitsInRing(s, a)
  PROVE  GetDataPtrAfterHeader(StartOf(s, a), a) \notin DOMAIN blocks
<1> DEFINE h == StartOf(s, a)
           data == GetDataPtrAfterHeader(h, a)
           p == EndOf(h, s, a)
<1>1. /\ head \in 0 .. N - 1 /\ tail \in 0 .. N - 1 /\ N \in Nat /\ s \in Nat
      /\ TypeOK
  BY BufferAssumption, RequestAssumption DEF IInv, TypeOK
<1>2. h \in Nat
  BY <1>1 DEF StartOf
<1>3. data \in Nat /\ data >= h + HEADER /\ p \in Nat /\ p >= data
  BY <1>1, <1>2, BlockFacts
<1> SUFFICES ASSUME data \in DOMAIN blocks PROVE FALSE
  OBVIOUS
<1>4. PICK x \in DOMAIN hdr : ~hdr[x].free /\ hdr[x].data = data
  BY PointerFacts
<1>5. /\ x \in 0 .. N - 1 /\ hdr[x].size \in Nat /\ IsAddressInUse(x)
      /\ x + HEADER <= data /\ data <= x + hdr[x].size
      /\ x + hdr[x].size <= IF x < head THEN head ELSE N
  BY <1>1, <1>3, <1>4, HeaderFacts, BusyFacts
<1>6. CASE Wraps(s, a)
  <2>1. p < tail /\ tail <= head
    BY <1>1, <1>6, HeadWraps DEF StartOf
  <2> HIDE DEF h, data, p
  <2> QED
    BY <1>1, <1>3, <1>5, <2>1 DEF IsAddressInUse, HEADER
<1>7. CASE ~Wraps(s, a)
  <2>1. h = head /\ (head >= tail \/ p < tail)
    BY <1>1, <1>7, HeadAdvances DEF StartOf
  <2> HIDE DEF h, data, p
  <2> QED
    BY <1>1, <1>3, <1>5, <2>1 DEF IsAddressInUse, HEADER
<1> QED
  BY <1>6, <1>7

-----------------------------------------------------------------------------
(* The steps *)

\* The empty ring satisfies the inductive invariant.
LEMMA InitIInv == Init => IInv
BY BufferAssumption DEF Init, IInv, TypeOK, RingTiled, EmptyExact

\* A request taken from the ring preserves it.
LEMMA AllocateFromRingIInv ==
  ASSUME IInv, ShortRequests, NEW s \in Sizes, NEW a \in Aligns,
         AllocateFromRing(s, a)
  PROVE  IInv'
<1> DEFINE h == StartOf(s, a)
           data == GetDataPtrAfterHeader(h, a)
           p == EndOf(h, s, a)
           fillers == IF Wraps(s, a) THEN {head} ELSE {}
<1>1. TypeOK /\ N \in Nat /\ N > 0 /\ s \in Nat
  BY BufferAssumption, RequestAssumption DEF IInv
<1>2. /\ FitsInRing(s, a)
      /\ hdr' = [x \in DOMAIN hdr \cup fillers \cup {h} |->
                   IF x = h THEN Header(p - h, FALSE, data)
                   ELSE IF x \in fillers THEN Filler
                   ELSE hdr[x]]
      /\ head' = p
      /\ used' = used + (p - h)
      /\ blocks' = [d \in DOMAIN blocks \cup {data} |->
                      IF d = data THEN s ELSE blocks[d]]
      /\ tail' = tail /\ nBacking' = nBacking
  BY Zenon DEF AllocateFromRing
<1>3. h \in Nat
  BY <1>1 DEF StartOf, TypeOK
<1>4. /\ data \in Nat /\ data >= h + 4 /\ p \in Nat /\ p >= data + s
  BY <1>3, BlockFacts DEF HEADER
<1>5. CASE ~Wraps(s, a)
  <2>1. h = head /\ fillers = {}
    BY <1>5 DEF StartOf
  <2>2. p \in head + 1 .. N - 1 /\ (head >= tail \/ p < tail)
    BY <1>1, <1>2, <1>5, <2>1, HeadAdvances
  <2> HIDE DEF h, data, p, fillers
  <2>3. head \in 0 .. N - 1 /\ tail \in 0 .. N - 1 /\ p \in Int /\ data \in Int
    BY <1>1, <1>4 DEF TypeOK
  <2>4. head \notin DOMAIN hdr /\ data \notin DOMAIN blocks
    <3>1. head \notin DOMAIN hdr
      <4>1. ~IsAddressInUse(head)
        BY <2>3 DEF IsAddressInUse
      <4> QED
        BY <4>1, HeaderFacts
    <3>2. data \notin DOMAIN blocks
      BY <1>2, DataFresh DEF data, h
    <3> QED
      BY <3>1, <3>2
  <2>5. /\ DOMAIN hdr' = DOMAIN hdr \cup {head}
        /\ hdr'[head] = Header(p - head, FALSE, data)
        /\ \A x \in DOMAIN hdr : hdr'[x] = hdr[x]
        /\ DOMAIN blocks' = DOMAIN blocks \cup {data}
        /\ blocks'[data] = s
        /\ \A d \in DOMAIN blocks : blocks'[d] = blocks[d]
    BY <1>2, <2>1, <2>4
  <2>6. TypeOK'
    BY <1>1, <1>2, <1>4, <2>1, <2>2, <2>3, <2>5 DEF TypeOK, Header
  <2>7. RingTiled'
    <3>1. (tail # head => tail \in DOMAIN hdr)'
      BY <1>2, <2>3, <2>5 DEF IInv, RingTiled
    <3>2. ASSUME NEW x \in DOMAIN hdr'
          PROVE  /\ IsAddressInUse(x)'
                 /\ x + hdr'[x].size <= IF x < p THEN p ELSE N
                 /\ After(x)' = p \/ After(x)' \in DOMAIN hdr'
                 /\ \A y \in DOMAIN hdr' : x < y => x + hdr'[x].size <= y
      <4>1. CASE x = head
        BY <4>1, <1>1, <1>2, <2>2, <2>3, <2>5
        DEF IInv, RingTiled, IsAddressInUse, TypeOK, Header, After
      <4>2. CASE x \in DOMAIN hdr
        <5>1. /\ IsAddressInUse(x)
              /\ x + hdr[x].size <= IF x < head THEN head ELSE N
              /\ After(x) = head \/ After(x) \in DOMAIN hdr
              /\ \A y \in DOMAIN hdr : x < y => x + hdr[x].size <= y
              /\ x \in 0 .. N - 1 /\ hdr[x].size \in 1 .. N
          BY <4>2, HeaderFacts
        <5>2. hdr'[x] = hdr[x]
          BY <4>2, <2>5
        <5>3. IsAddressInUse(x)'
          BY <5>1, <1>1, <1>2, <2>2, <2>3 DEF IsAddressInUse
        <5>4. x + hdr[x].size <= IF x < p THEN p ELSE N
          BY <5>1, <1>1, <2>2, <2>3 DEF IsAddressInUse
        <5>5. After(x)' = p \/ After(x)' \in DOMAIN hdr'
          BY <5>1, <5>2, <2>5 DEF After
        <5>6. x < head => x + hdr[x].size <= head
          BY <5>1, <2>3
        <5> QED
          BY <5>1, <5>2, <5>3, <5>4, <5>5, <5>6, <2>5
      <4> QED
        BY <4>1, <4>2, <2>5
    <3>3. ASSUME NEW x \in DOMAIN hdr', ~hdr'[x].free
          PROVE  /\ hdr'[x].data \in DOMAIN blocks'
                 /\ x + HEADER <= hdr'[x].data
                 /\ hdr'[x].data + blocks'[hdr'[x].data] <= x + hdr'[x].size
      <4>1. CASE x = head
        BY <4>1, <1>1, <1>4, <2>1, <2>3, <2>5 DEF Header, HEADER
      <4>2. CASE x \in DOMAIN hdr
        BY <3>3, <4>2, <2>4, <2>5 DEF IInv, RingTiled
      <4> QED
        BY <4>1, <4>2, <2>5
    <3>4. ASSUME NEW d \in DOMAIN blocks'
          PROVE  \E x \in DOMAIN hdr' : ~hdr'[x].free /\ hdr'[x].data = d
      BY <2>5 DEF IInv, RingTiled, Header
    <3> QED
      BY <1>2, <3>1, <3>2, <3>3, <3>4, Zenon DEF RingTiled
  <2>8. EmptyExact'
    BY <1>2, <2>2, <2>3, <2>5 DEF EmptyExact
  <2> QED
    BY <2>6, <2>7, <2>8 DEF IInv
<1>6. CASE Wraps(s, a)
  <2>1. h = 0 /\ fillers = {head}
    BY <1>6 DEF StartOf
  <2>2. p \in 1 .. head - 1 /\ p < tail /\ tail <= head
    BY <1>1, <1>2, <1>6, <2>1, HeadWraps
  <2> HIDE DEF h, data, p, fillers
  <2>3. head \in 0 .. N - 1 /\ tail \in 0 .. N - 1 /\ p \in Int /\ data \in Int
    BY <1>1, <1>4 DEF TypeOK
  \* The blocks in use lie between the tail and the head, beyond the new one.
  <2>4. ASSUME NEW x \in DOMAIN hdr
        PROVE  /\ x \in tail .. head - 1 /\ x > p
               /\ hdr[x].size \in 1 .. N /\ x + hdr[x].size <= head
               /\ After(x) = head \/ After(x) \in DOMAIN hdr
               /\ \A y \in DOMAIN hdr : x < y => x + hdr[x].size <= y
    BY <1>1, <2>2, <2>3, HeaderFacts DEF IsAddressInUse
  <2>5. h \notin DOMAIN hdr /\ head \notin DOMAIN hdr /\ data \notin DOMAIN blocks
    <3>1. ASSUME NEW x \in DOMAIN hdr PROVE x # h /\ x # head
      BY <2>1, <2>2, <2>3, <2>4
    <3>2. data \notin DOMAIN blocks
      BY <1>2, DataFresh DEF data, h
    <3> QED
      BY <3>1, <3>2
  <2>6. /\ DOMAIN hdr' = DOMAIN hdr \cup {h, head}
        /\ hdr'[h] = Header(p, FALSE, data)
        /\ hdr'[head] = Header(N - head, TRUE, 0)
        /\ \A x \in DOMAIN hdr : hdr'[x] = hdr[x]
        /\ DOMAIN blocks' = DOMAIN blocks \cup {data}
        /\ blocks'[data] = s
        /\ \A d \in DOMAIN blocks : blocks'[d] = blocks[d]
    <3>1. h # head
      BY <2>1, <2>2, <2>3
    <3>2. p - h = p
      BY <2>1, <2>3
    <3>3. DOMAIN hdr' = DOMAIN hdr \cup {h, head}
      BY <1>2, <2>1, Zenon
    <3>4. /\ hdr'[h] = Header(p - h, FALSE, data)
          /\ hdr'[head] = Filler
          /\ \A x \in DOMAIN hdr : hdr'[x] = hdr[x]
      BY <1>2, <2>1, <2>5, <3>1
    <3>5. /\ DOMAIN blocks' = DOMAIN blocks \cup {data}
          /\ blocks'[data] = s
          /\ \A d \in DOMAIN blocks : blocks'[d] = blocks[d]
      BY <1>2, <2>5
    <3> QED
      BY <3>2, <3>3, <3>4, <3>5 DEF Filler
  <2>7. TypeOK'
    <3>1. head' \in 0 .. N - 1 /\ tail' \in 0 .. N - 1 /\ used' \in Int
      BY <1>1, <1>2, <2>1, <2>2, <2>3 DEF TypeOK
    <3>2. DOMAIN hdr' \subseteq 0 .. N - 1
      BY <1>1, <2>1, <2>3, <2>6 DEF TypeOK
    <3>3. ASSUME NEW x \in DOMAIN hdr'
          PROVE  hdr'[x] \in [size : 1 .. N, free : BOOLEAN, data : 0 .. N]
      <4>1. p \in 1 .. N /\ data \in 0 .. N /\ N - head \in 1 .. N
        BY <1>1, <1>4, <2>2, <2>3
      <4>2. /\ Header(p, FALSE, data) \in [size : 1 .. N, free : BOOLEAN, data : 0 .. N]
            /\ Header(N - head, TRUE, 0) \in [size : 1 .. N, free : BOOLEAN, data : 0 .. N]
        BY <1>1, <4>1 DEF Header
      <4>3. CASE x \in DOMAIN hdr
        BY <1>1, <4>3, <2>6, Zenon DEF TypeOK
      <4> QED
        BY <2>6, <4>2, <4>3, Zenon
    <3>4. DOMAIN blocks' \subseteq 1 .. N /\ \A d \in DOMAIN blocks' : blocks'[d] \in Sizes
      BY <1>1, <1>4, <2>1, <2>2, <2>3, <2>6 DEF TypeOK
    <3>5. nBacking' \in Nat
      BY <1>1, <1>2 DEF TypeOK
    <3> QED
      BY <3>1, <3>2, <3>3, <3>4, <3>5, Zenon DEF TypeOK
  <2>8. RingTiled'
    <3>1. (tail # head => tail \in DOMAIN hdr)'
      BY <1>2, <2>3, <2>6 DEF IInv, RingTiled
    <3>2. ASSUME NEW x \in DOMAIN hdr'
          PROVE  /\ IsAddressInUse(x)'
                 /\ x + hdr'[x].size <= IF x < p THEN p ELSE N
                 /\ After(x)' = p \/ After(x)' \in DOMAIN hdr'
                 /\ \A y \in DOMAIN hdr' : x < y => x + hdr'[x].size <= y
      <4>1. CASE x = head
        BY <4>1, <1>1, <1>2, <2>1, <2>2, <2>3, <2>4, <2>6
        DEF IsAddressInUse, Header, After
      <4>2. CASE x = h
        BY <4>2, <1>1, <1>2, <2>1, <2>2, <2>3, <2>4, <2>6
        DEF IsAddressInUse, Header, After
      <4>3. CASE x \in DOMAIN hdr
        <5>1. hdr'[x] = hdr[x]
          BY <4>3, <2>6
        <5>2. IsAddressInUse(x)'
          BY <4>3, <1>1, <1>2, <2>2, <2>3, <2>4 DEF IsAddressInUse
        <5>3. After(x)' = After(x)
          BY <5>1 DEF After
        <5>4. After(x)' \in DOMAIN hdr'
          BY <4>3, <5>3, <2>4, <2>6
        <5>5. x + hdr[x].size <= IF x < p THEN p ELSE N
          BY <4>3, <1>1, <2>2, <2>3, <2>4
        <5> QED
          BY <4>3, <5>1, <5>2, <5>4, <5>5, <2>1, <2>2, <2>3, <2>4, <2>6
      <4> QED
        BY <4>1, <4>2, <4>3, <2>6
    <3>3. ASSUME NEW x \in DOMAIN hdr', ~hdr'[x].free
          PROVE  /\ hdr'[x].data \in DOMAIN blocks'
                 /\ x + HEADER <= hdr'[x].data
                 /\ hdr'[x].data + blocks'[hdr'[x].data] <= x + hdr'[x].size
      <4>1. CASE x = h
        BY <4>1, <1>1, <1>4, <2>1, <2>3, <2>6 DEF Header, HEADER
      <4>2. CASE x \in DOMAIN hdr
        BY <3>3, <4>2, <2>5, <2>6, BusyFacts
      <4>3. CASE x = head
        BY <3>3, <4>3, <2>6 DEF Header
      <4> QED
        BY <4>1, <4>2, <4>3, <2>6
    <3>4. ASSUME NEW d \in DOMAIN blocks'
          PROVE  \E x \in DOMAIN hdr' : ~hdr'[x].free /\ hdr'[x].data = d
      BY <2>6, PointerFacts DEF Header
    <3> QED
      BY <1>2, <3>1, <3>2, <3>3, <3>4, Zenon DEF RingTiled
  <2>9. EmptyExact'
    BY <1>2, <2>2, <2>3, <2>6 DEF EmptyExact
  <2> QED
    BY <2>7, <2>8, <2>9 DEF IInv
<1> QED
  BY <1>5, <1>6

\* A request passed on to the backing allocator changes no block.
LEMMA OutsideIInv ==
  ASSUME IInv, UNCHANGED <<head, tail, used, hdr, blocks>>, nBacking' \in Nat
  PROVE  IInv'
BY DEF IInv, TypeOK, RingTiled, EmptyExact, IsAddressInUse, After

-----------------------------------------------------------------------------
(* Where the tail goes *)

\* GetHeader finds the one busy header of a pointer.
LEMMA GetHeaderFacts ==
  ASSUME IInv, NEW d \in DOMAIN blocks
  PROVE  /\ GetHeader(d) \in DOMAIN hdr
         /\ ~hdr[GetHeader(d)].free
         /\ hdr[GetHeader(d)].data = d
BY PointerFacts DEF GetHeader

\* Among busy blocks there is one nearest to the tail.
LEMMA NearestExists ==
  ASSUME IInv, NEW h, BusyBut(h) # {}
  PROVE  /\ NewTail(h) \in BusyBut(h)
         /\ \A y \in BusyBut(h) : Dist(NewTail(h)) <= Dist(y)
<1> DEFINE B == BusyBut(h)
           D == {Dist(x) : x \in B}
<1>1. \A x \in B : Dist(x) \in Nat
  <2> SUFFICES ASSUME NEW x \in B PROVE Dist(x) \in Nat
    OBVIOUS
  <2>1. x \in 0 .. N - 1 /\ tail \in 0 .. N - 1 /\ N \in Nat
    BY BufferAssumption, HeaderFacts DEF BusyBut, IInv, TypeOK
  <2> QED
    BY <2>1 DEF Dist
<1>2. D \in SUBSET Nat /\ D # {}
  BY <1>1
<1>3. PICK m \in D : \A k \in D : m <= k
  BY <1>2, LeastNatural
<1>4. \E x \in B : \A y \in B : Dist(x) <= Dist(y)
  BY <1>3
<1> HIDE DEF B
<1>5. NewTail(h) = CHOOSE x \in B : \A y \in B : Dist(x) <= Dist(y)
  BY Zenon DEF NewTail, B
<1> QED
  BY <1>4, <1>5, Zenon DEF B

\* Freeing a block preserves the invariant: every block the tail passes is
\* free, and what remains is still tiled.
LEMMA DeallocateIInv ==
  ASSUME IInv, NEW d \in DOMAIN blocks, Deallocate(d)
  PROVE  IInv'
<1> DEFINE h == GetHeader(d)
           t == NewTail(h)
           kept == IF t = head THEN {}
                   ELSE {x \in DOMAIN hdr : Dist(x) >= Dist(t)}
<1>1. /\ hdr' = [x \in kept |-> IF x = h THEN [hdr[x] EXCEPT !.free = TRUE]
                                ELSE hdr[x]]
      /\ used' = used - hdr[h].size
      /\ tail' = t
      /\ blocks' = [e \in DOMAIN blocks \ {d} |-> blocks[e]]
      /\ head' = head /\ nBacking' = nBacking
  BY Zenon DEF Deallocate
<1>2. h \in DOMAIN hdr /\ ~hdr[h].free /\ hdr[h].data = d
  BY GetHeaderFacts
<1>3. /\ head \in 0 .. N - 1 /\ tail \in 0 .. N - 1 /\ used \in Int
      /\ hdr[h].size \in Int /\ nBacking \in Nat /\ N \in Nat /\ N > 0
  BY <1>2, HeaderFacts, BufferAssumption DEF IInv, TypeOK
<1> HIDE DEF h, t, kept
\* A pointer that is still held has its header among the busy blocks.
<1>4. ASSUME NEW e \in DOMAIN blocks'
      PROVE  \E x \in BusyBut(h) : hdr[x].data = e
  <2>1. e \in DOMAIN blocks /\ e # d
    BY <1>1
  <2>2. PICK x \in DOMAIN hdr : ~hdr[x].free /\ hdr[x].data = e
    BY <2>1, PointerFacts
  <2> QED
    BY <2>1, <2>2, <1>2, HeaderFacts DEF BusyBut
<1>5. CASE BusyBut(h) = {}
  <2>1. t = head /\ kept = {}
    BY <1>5 DEF t, kept, NewTail
  <2>2. DOMAIN hdr' = {} /\ DOMAIN blocks' = {} /\ tail' = head'
    BY <1>1, <1>4, <1>5, <2>1
  <2>3. TypeOK'
    BY <1>1, <1>3, <2>2 DEF TypeOK
  <2>4. RingTiled'
    BY <2>2, Zenon DEF RingTiled
  <2> QED
    BY <2>2, <2>3, <2>4 DEF IInv, EmptyExact
<1>6. CASE BusyBut(h) # {}
  <2>1. t \in BusyBut(h) /\ \A y \in BusyBut(h) : Dist(t) <= Dist(y)
    BY <1>6, NearestExists DEF t
  <2>2. t \in DOMAIN hdr /\ ~hdr[t].free /\ t # h /\ IsAddressInUse(t)
    BY <2>1 DEF BusyBut
  <2>3. t \in 0 .. N - 1 /\ t # head
    BY <1>3, <2>2, HeaderFacts DEF IsAddressInUse
  <2>4. kept = {x \in DOMAIN hdr : Dist(x) >= Dist(t)}
    BY <2>3 DEF kept
  <2>5. t \in kept
    BY <1>3, <2>2, <2>3, <2>4 DEF Dist
  <2>6. /\ DOMAIN hdr' = kept
        /\ \A x \in kept : /\ hdr'[x].size = hdr[x].size
                           /\ hdr'[x].data = hdr[x].data
                           /\ hdr'[x].free = (x = h \/ hdr[x].free)
    <3>1. DOMAIN hdr' = kept
      BY <1>1
    <3>2. ASSUME NEW x \in kept
          PROVE  /\ hdr'[x].size = hdr[x].size
                 /\ hdr'[x].data = hdr[x].data
                 /\ hdr'[x].free = (x = h \/ hdr[x].free)
      <4>1. hdr[x] \in [size : 1 .. N, free : BOOLEAN, data : 0 .. N]
        BY <2>4 DEF IInv, TypeOK
      <4>2. CASE x = h
        <5>1. hdr'[x] = [hdr[x] EXCEPT !.free = TRUE]
          BY <1>1, <4>2
        <5>2. /\ hdr'[x].free = TRUE
              /\ hdr'[x].size = hdr[x].size /\ hdr'[x].data = hdr[x].data
          BY <4>1, <5>1
        <5> QED
          BY <4>2, <5>2
      <4>3. CASE x # h
        <5>1. hdr'[x] = hdr[x]
          BY <1>1, <4>3
        <5> QED
          BY <4>1, <4>3, <5>1
      <4> QED
        BY <4>2, <4>3
    <3> QED
      BY <3>1, <3>2
  <2>7. TypeOK'
    <3>1. ASSUME NEW x \in DOMAIN hdr'
          PROVE  hdr'[x] \in [size : 1 .. N, free : BOOLEAN, data : 0 .. N]
      BY <1>1, <2>4, <2>6 DEF IInv, TypeOK
    <3>2. DOMAIN hdr' \subseteq 0 .. N - 1
      BY <2>4, <2>6 DEF IInv, TypeOK
    <3>3. /\ DOMAIN blocks' \subseteq 1 .. N
          /\ \A e \in DOMAIN blocks' : blocks'[e] \in Sizes
      BY <1>1 DEF IInv, TypeOK
    <3>4. head' \in 0 .. N - 1 /\ tail' \in 0 .. N - 1 /\ used' \in Int
      BY <1>1, <1>3, <2>3
    <3> QED
      BY <1>1, <1>3, <3>1, <3>2, <3>3, <3>4, Zenon DEF TypeOK
  <2>8. RingTiled'
    <3>1. (tail # head => tail \in DOMAIN hdr)'
      BY <1>1, <2>5, <2>6
    <3>2. ASSUME NEW x \in DOMAIN hdr'
          PROVE  /\ IsAddressInUse(x)'
                 /\ x + hdr'[x].size <= IF x < head' THEN head' ELSE N
                 /\ After(x)' = head' \/ After(x)' \in DOMAIN hdr'
                 /\ \A y \in DOMAIN hdr' : x < y => x + hdr'[x].size <= y
      <4>1. x \in DOMAIN hdr /\ Dist(x) >= Dist(t)
        BY <2>4, <2>6
      <4>2. /\ x \in 0 .. N - 1 /\ hdr[x].size \in 1 .. N
            /\ IsAddressInUse(x)
            /\ x + hdr[x].size <= IF x < head THEN head ELSE N
            /\ After(x) = head \/ After(x) \in DOMAIN hdr
            /\ \A y \in DOMAIN hdr : x < y => x + hdr[x].size <= y
        BY <4>1, HeaderFacts
      <4>3. IsAddressInUse(x)'
        BY <1>1, <1>3, <2>2, <2>3, <4>1, <4>2 DEF IsAddressInUse, Dist
      <4>4. After(x)' = After(x)
        BY <2>6 DEF After
      <4>5. ASSUME After(x) # head PROVE After(x) \in kept
        <5>1. After(x) \in DOMAIN hdr
          BY <4>2, <4>5
        <5>2. After(x) \in 0 .. N - 1 /\ IsAddressInUse(After(x))
          BY <5>1, HeaderFacts
        <5>3. Dist(After(x)) > Dist(x)
          BY <1>3, <4>2, <5>2 DEF IsAddressInUse, Dist, After
        <5>4. Dist(After(x)) \in Int /\ Dist(x) \in Int /\ Dist(t) \in Int
          BY <1>3, <2>3, <4>2, <5>2 DEF Dist
        <5>5. Dist(After(x)) >= Dist(t)
          BY <4>1, <5>3, <5>4
        <5> QED
          BY <2>4, <5>1, <5>5
      <4>6. \A y \in DOMAIN hdr' : x < y => x + hdr'[x].size <= y
        BY <2>4, <2>6, <4>2
      <4> QED
        BY <1>1, <2>6, <4>2, <4>3, <4>4, <4>5, <4>6
    <3>3. ASSUME NEW x \in DOMAIN hdr', ~hdr'[x].free
          PROVE  /\ hdr'[x].data \in DOMAIN blocks'
                 /\ x + HEADER <= hdr'[x].data
                 /\ hdr'[x].data + blocks'[hdr'[x].data] <= x + hdr'[x].size
      <4>1. x \in DOMAIN hdr /\ x # h /\ ~hdr[x].free
        BY <2>4, <2>6, <3>3
      <4>2. hdr[x].data # d
        BY <1>2, <4>1, DataInjective
      <4>3. hdr'[x].data = hdr[x].data /\ hdr'[x].size = hdr[x].size
        BY <2>6
      <4> QED
        BY <1>1, <4>1, <4>2, <4>3, BusyFacts
    <3>4. ASSUME NEW e \in DOMAIN blocks'
          PROVE  \E x \in DOMAIN hdr' : ~hdr'[x].free /\ hdr'[x].data = e
      <4>1. PICK x \in BusyBut(h) : hdr[x].data = e
        BY <1>4
      <4>2. x \in kept /\ ~hdr[x].free /\ x # h
        <5>1. Dist(t) <= Dist(x) /\ x \in DOMAIN hdr /\ x \in 0 .. N - 1
          BY <2>1, HeaderFacts DEF BusyBut
        <5>2. Dist(x) >= Dist(t)
          BY <5>1, <1>3, <2>3 DEF Dist
        <5> QED
          BY <2>4, <5>1, <5>2 DEF BusyBut
      <4> QED
        BY <2>6, <4>1, <4>2
    <3> QED
      BY <3>1, <3>2, <3>3, <3>4, Zenon DEF RingTiled
  <2>9. EmptyExact'
    <3>1. hdr[t].data \in DOMAIN blocks /\ hdr[t].data # d
      BY <1>2, <2>2, BusyFacts, DataInjective
    <3> QED
      BY <1>1, <2>3, <3>1 DEF EmptyExact
  <2> QED
    BY <2>7, <2>8, <2>9 DEF IInv
<1> QED
  BY <1>5, <1>6

\* Every step preserves the inductive invariant.
LEMMA NextIInv == ASSUME ShortRequests, IInv, [Next]_vars PROVE IInv'
<1>1. CASE \E s \in Sizes, a \in Aligns : Allocate(s, a)
  <2>1. PICK s \in Sizes, a \in Aligns : Allocate(s, a)
    BY <1>1
  <2>2. CASE AllocateFromRing(s, a)
    BY <2>2, AllocateFromRingIInv
  <2>3. CASE AllocateFromBacking(s, a)
    BY <2>3, OutsideIInv DEF AllocateFromBacking, IInv, TypeOK
  <2> QED
    BY <2>1, <2>2, <2>3 DEF Allocate
<1>2. CASE \E d \in DOMAIN blocks : Deallocate(d)
  BY <1>2, DeallocateIInv
<1>3. CASE DeallocateFromBacking
  BY <1>3, OutsideIInv DEF DeallocateFromBacking, IInv, TypeOK
<1>4. CASE UNCHANGED vars
  BY <1>4, OutsideIInv DEF vars, IInv, TypeOK
<1> QED
  BY <1>1, <1>2, <1>3, <1>4 DEF Next

-----------------------------------------------------------------------------
(* The bytes in use *)

\* A byte is held if it is in a busy block.
LEMMA HeldByte ==
  ASSUME NEW b
  PROVE  b \in BytesHeld <=> \E x \in DOMAIN hdr : ~hdr[x].free /\ b \in BytesOf(x)
BY Zenon DEF BytesHeld

\* The bytes held are bytes of the buffer.
LEMMA BytesFinite ==
  ASSUME IInv
  PROVE  BytesHeld \subseteq 0 .. N /\ IsFiniteSet(BytesHeld)
<1>1. ASSUME NEW x \in DOMAIN hdr PROVE BytesOf(x) \subseteq 0 .. N
  <2>1. /\ x \in 0 .. N - 1 /\ head \in 0 .. N - 1 /\ N \in Nat
        /\ hdr[x].size \in 1 .. N
        /\ x + hdr[x].size <= IF x < head THEN head ELSE N
    BY HeaderFacts, BufferAssumption DEF IInv, TypeOK
  <2> QED
    BY <2>1 DEF BytesOf
<1>2. BytesHeld \subseteq 0 .. N
  BY <1>1, HeldByte
<1>3. IsFiniteSet(0 .. N)
  BY FS_Interval, BufferAssumption
<1> QED
  BY <1>2, <1>3, FS_Subset

\* Two blocks share no byte.
LEMMA BytesApart ==
  ASSUME IInv, NEW x \in DOMAIN hdr, NEW y \in DOMAIN hdr, x # y
  PROVE  BytesOf(x) \cap BytesOf(y) = {}
<1>1. /\ x \in Nat /\ y \in Nat /\ hdr[x].size \in Nat /\ hdr[y].size \in Nat
      /\ x < y => x + hdr[x].size <= y
      /\ y < x => y + hdr[y].size <= x
  BY HeaderFacts
<1> QED
  BY <1>1 DEF BytesOf

\* The three facts together, as a state predicate.
BytesOK ==
  /\ \A b : b \in BytesHeld <=> \E x \in DOMAIN hdr : ~hdr[x].free /\ b \in BytesOf(x)
  /\ IsFiniteSet(BytesHeld)
  /\ \A x, y \in DOMAIN hdr : x # y => BytesOf(x) \cap BytesOf(y) = {}

\* The same facts after a step.
LEMMA BytesAfter == IInv' => BytesOK'
<1>1. IInv => BytesOK
  BY HeldByte, BytesFinite, BytesApart DEF BytesOK
<1> QED
  BY <1>1, PTL

\* A new block adds its own bytes to those held, and a filler none.
LEMMA AllocateUsed ==
  ASSUME IInv, IInv', UsedExact, ShortRequests, NEW s \in Sizes, NEW a \in Aligns,
         AllocateFromRing(s, a)
  PROVE  UsedExact'
<1> DEFINE h == StartOf(s, a)
           data == GetDataPtrAfterHeader(h, a)
           p == EndOf(h, s, a)
           fillers == IF Wraps(s, a) THEN {head} ELSE {}
           new == h .. p - 1
<1>1. /\ hdr' = [x \in DOMAIN hdr \cup fillers \cup {h} |->
                   IF x = h THEN Header(p - h, FALSE, data)
                   ELSE IF x \in fillers THEN Filler
                   ELSE hdr[x]]
      /\ used' = used + (p - h)
  BY Zenon DEF AllocateFromRing
<1>2. h \in Nat /\ s \in Nat
  BY RequestAssumption DEF StartOf, IInv, TypeOK
<1>3. p \in Nat /\ p >= h
  BY <1>2, BlockFacts DEF HEADER
<1> HIDE DEF h, data, p
\* No old block starts where the new one does, or at the filler.
<1>4. ASSUME NEW x \in DOMAIN hdr, ~hdr[x].free
      PROVE  x # h /\ x \notin fillers
  <2>1. hdr[x].data \in DOMAIN blocks /\ DOMAIN blocks \subseteq DOMAIN blocks'
    BY <1>4, BusyFacts DEF AllocateFromRing
  <2>2. x # head
    <3>1. IsAddressInUse(x) /\ head \in 0 .. N - 1 /\ tail \in 0 .. N - 1
      BY HeaderFacts DEF IInv, TypeOK
    <3> QED
      BY <3>1 DEF IsAddressInUse
  <2>3. ASSUME x = h PROVE FALSE
    <3>1. data \notin DOMAIN blocks /\ hdr'[h].data = data
      BY <1>1, DataFresh DEF data, h, AllocateFromRing, Header
    <3>2. \E y \in DOMAIN hdr' : ~hdr'[y].free /\ hdr'[y].data = hdr[x].data
      BY <2>1 DEF IInv, RingTiled
    <3>3. PICK y \in DOMAIN hdr' : ~hdr'[y].free /\ hdr'[y].data = hdr[x].data
      BY <3>2
    <3>4. y # h
      BY <2>1, <3>1, <3>3
    <3>5. y \in DOMAIN hdr /\ ~hdr[y].free /\ hdr[y].data = hdr[x].data
      BY <1>1, <3>3, <3>4 DEF Filler, Header
    <3> QED
      BY <1>4, <2>3, <3>4, <3>5, DataInjective
  <2> QED
    BY <2>2, <2>3
<1>5. /\ h \in DOMAIN hdr' /\ ~hdr'[h].free /\ hdr'[h].size = p - h
      /\ \A x : x = h => BytesOf(x)' = new
  <2>1. h \in DOMAIN hdr' /\ hdr'[h] = Header(p - h, FALSE, data)
    BY <1>1
  <2>2. ~hdr'[h].free /\ hdr'[h].size = p - h
    BY <2>1 DEF Header
  <2>3. h + (p - h) - 1 = p - 1
    BY <1>2, <1>3
  <2> QED
    BY <2>1, <2>2, <2>3 DEF BytesOf
<1>6. \A x \in DOMAIN hdr' : ~hdr'[x].free /\ x # h =>
        x \in DOMAIN hdr /\ ~hdr[x].free /\ BytesOf(x)' = BytesOf(x)
  BY <1>1 DEF Filler, Header, BytesOf
<1>7. \A x \in DOMAIN hdr : ~hdr[x].free =>
        x \in DOMAIN hdr' /\ ~hdr'[x].free /\ x # h /\ BytesOf(x)' = BytesOf(x)
  BY <1>1, <1>4 DEF BytesOf
<1>8. BytesHeld' = BytesHeld \cup new
  <2>1. ASSUME NEW b \in BytesHeld' PROVE b \in BytesHeld \cup new
    <3>1. PICK x \in DOMAIN hdr' : ~hdr'[x].free /\ b \in BytesOf(x)'
      BY BytesAfter DEF BytesOK
    <3>2. CASE x = h
      BY <1>5, <3>1, <3>2
    <3>3. CASE x # h
      BY <1>6, <3>1, <3>3, HeldByte
    <3> QED
      BY <3>2, <3>3
  <2>2. ASSUME NEW b \in BytesHeld PROVE b \in BytesHeld'
    BY <1>7, BytesAfter, HeldByte DEF BytesOK
  <2>3. ASSUME NEW b \in new PROVE b \in BytesHeld'
    BY <1>5, BytesAfter DEF BytesOK
  <2> QED
    BY <2>1, <2>2, <2>3
<1>9. BytesHeld \cap new = {}
  <2> SUFFICES ASSUME NEW b \in BytesHeld, b \in new PROVE FALSE
    OBVIOUS
  <2>1. PICK x \in DOMAIN hdr : ~hdr[x].free /\ b \in BytesOf(x)
    BY HeldByte
  <2>2. x \in DOMAIN hdr' /\ x # h /\ b \in BytesOf(x)'
    BY <1>7, <2>1
  <2>3. PICK y : y = h
    OBVIOUS
  <2>4. y \in DOMAIN hdr' /\ x # y /\ b \in BytesOf(y)'
    BY <1>5, <2>2, <2>3
  <2> QED
    BY <2>2, <2>4, BytesAfter DEF BytesOK
<1>10. IsFiniteSet(new) /\ Cardinality(new) = p - h
  <2>1. h \in Int /\ p - 1 \in Int
    BY <1>2, <1>3
  <2>2. /\ IsFiniteSet(h .. p - 1)
        /\ Cardinality(h .. p - 1) = IF h > p - 1 THEN 0 ELSE (p - 1) - h + 1
    BY <2>1, FS_Interval
  <2> QED
    BY <1>2, <1>3, <2>2
<1> HIDE DEF new
<1>11. Cardinality(BytesHeld \cup new) = Cardinality(BytesHeld) + Cardinality(new)
  <2>1. IsFiniteSet(BytesHeld) /\ Cardinality(BytesHeld) \in Nat
    BY BytesFinite, FS_CardinalityType
  <2>2. Cardinality(BytesHeld \cap new) = 0
    BY <1>9, FS_EmptySet
  <2>3. /\ Cardinality(BytesHeld \cup new)
             = Cardinality(BytesHeld) + Cardinality(new) - Cardinality(BytesHeld \cap new)
    BY <1>10, <2>1, FS_Union
  <2> QED
    BY <1>2, <1>3, <1>10, <2>1, <2>2, <2>3
<1> QED
  BY <1>1, <1>8, <1>10, <1>11 DEF UsedExact

\* Deallocate takes the bytes of its own block from those held; the blocks the
\* tail passes held none.
LEMMA DeallocateUsed ==
  ASSUME IInv, IInv', UsedExact, NEW d \in DOMAIN blocks, Deallocate(d)
  PROVE  UsedExact'
<1> DEFINE h == GetHeader(d)
           t == NewTail(h)
           kept == IF t = head THEN {}
                   ELSE {x \in DOMAIN hdr : Dist(x) >= Dist(t)}
<1>1. /\ hdr' = [x \in kept |-> IF x = h THEN [hdr[x] EXCEPT !.free = TRUE]
                                ELSE hdr[x]]
      /\ used' = used - hdr[h].size
      /\ DOMAIN blocks' = DOMAIN blocks \ {d}
  BY DEF Deallocate
<1>2. h \in DOMAIN hdr /\ ~hdr[h].free /\ hdr[h].data = d
  BY GetHeaderFacts
<1>3. kept \subseteq DOMAIN hdr
  OBVIOUS
<1> HIDE DEF h, t, kept
<1>4. ASSUME NEW x \in DOMAIN hdr', ~hdr'[x].free
      PROVE  x \in DOMAIN hdr /\ ~hdr[x].free /\ x # h /\ hdr'[x] = hdr[x]
  <2>1. x \in kept /\ x \in DOMAIN hdr
    BY <1>1, <1>3
  <2>2. hdr[x] \in [size : 1 .. N, free : BOOLEAN, data : 0 .. N]
    BY <2>1 DEF IInv, TypeOK
  <2>3. x # h
    BY <1>1, <1>4, <2>1, <2>2
  <2> QED
    BY <1>1, <1>4, <2>1, <2>3
<1>5. ASSUME NEW x \in DOMAIN hdr, ~hdr[x].free, x # h
      PROVE  x \in DOMAIN hdr' /\ ~hdr'[x].free
  <2>1. hdr[x].data \in DOMAIN blocks /\ hdr[x].data # d
    BY <1>2, <1>5, BusyFacts, DataInjective
  <2>2. \E y \in DOMAIN hdr' : ~hdr'[y].free /\ hdr'[y].data = hdr[x].data
    BY <1>1, <2>1 DEF IInv, RingTiled
  <2>3. PICK y \in DOMAIN hdr' : ~hdr'[y].free /\ hdr'[y].data = hdr[x].data
    BY <2>2
  <2>4. y \in DOMAIN hdr /\ ~hdr[y].free /\ hdr[y].data = hdr[x].data
    BY <1>4, <2>3
  <2> QED
    BY <1>5, <2>3, <2>4, DataInjective
<1>6. BytesHeld' = BytesHeld \ BytesOf(h)
  <2>1. ASSUME NEW b \in BytesHeld' PROVE b \in BytesHeld /\ b \notin BytesOf(h)
    <3>1. PICK x \in DOMAIN hdr' : ~hdr'[x].free /\ b \in BytesOf(x)'
      BY BytesAfter DEF BytesOK
    <3>2. x \in DOMAIN hdr /\ ~hdr[x].free /\ x # h /\ BytesOf(x)' = BytesOf(x)
      BY <1>4, <3>1 DEF BytesOf
    <3> QED
      BY <1>2, <3>1, <3>2, HeldByte, BytesApart
  <2>2. ASSUME NEW b \in BytesHeld, b \notin BytesOf(h) PROVE b \in BytesHeld'
    <3>1. PICK x \in DOMAIN hdr : ~hdr[x].free /\ b \in BytesOf(x)
      BY HeldByte
    <3>2. x \in DOMAIN hdr' /\ ~hdr'[x].free
      BY <1>5, <2>2, <3>1
    <3>3. b \in BytesOf(x)'
      BY <1>4, <3>1, <3>2 DEF BytesOf
    <3> QED
      BY <3>2, <3>3, BytesAfter DEF BytesOK
  <2> QED
    BY <2>1, <2>2
<1>7. BytesHeld \cap BytesOf(h) = BytesOf(h)
  BY <1>2, HeldByte
<1>8. /\ hdr[h].size \in Nat
      /\ Cardinality(BytesOf(h)) = hdr[h].size
  <2>1. h \in Nat /\ hdr[h].size \in 1 .. N /\ N \in Nat
    BY <1>2, HeaderFacts, BufferAssumption
  <2> QED
    BY <2>1, FS_Interval DEF BytesOf
<1>9. Cardinality(BytesHeld \ BytesOf(h)) = Cardinality(BytesHeld) - Cardinality(BytesOf(h))
  BY <1>7, BytesFinite, FS_Difference
<1> QED
  BY <1>1, <1>6, <1>8, <1>9 DEF UsedExact

\* Every step keeps the count of the bytes held.
LEMMA NextUsed ==
  ASSUME ShortRequests, IInv, IInv', UsedExact, [Next]_vars
  PROVE  UsedExact'
<1>1. CASE \E s \in Sizes, a \in Aligns : AllocateFromRing(s, a)
  BY <1>1, AllocateUsed
<1>2. CASE \E d \in DOMAIN blocks : Deallocate(d)
  BY <1>2, DeallocateUsed
<1>3. CASE UNCHANGED <<used, hdr>>
  BY <1>3 DEF UsedExact, BytesHeld, BytesOf
<1> QED
  BY <1>1, <1>2, <1>3
  DEF Next, Allocate, AllocateFromBacking, DeallocateFromBacking, vars

-----------------------------------------------------------------------------
(* The ring implements Heap *)

\* The ranges in the clients' hands.
Held == {HeldRange(d) : d \in DOMAIN blocks}

\* Two pointers have ranges that share no byte.
LEMMA HeldApart ==
  ASSUME IInv, NEW d \in DOMAIN blocks, NEW e \in DOMAIN blocks, d < e
  PROVE  d + blocks[d] <= e
<1>1. PICK x \in DOMAIN hdr : ~hdr[x].free /\ hdr[x].data = d
  BY PointerFacts
<1>2. PICK y \in DOMAIN hdr : ~hdr[y].free /\ hdr[y].data = e
  BY PointerFacts
<1>3. /\ x \in Nat /\ y \in Nat /\ d \in Nat /\ e \in Nat
      /\ hdr[x].size \in Nat /\ hdr[y].size \in Nat /\ blocks[d] \in Nat
      /\ x < y => x + hdr[x].size <= y
      /\ y < x => y + hdr[y].size <= x
      /\ x + HEADER <= d /\ d + blocks[d] <= x + hdr[x].size
      /\ y + HEADER <= e /\ e + blocks[e] <= y + hdr[y].size
      /\ blocks[e] \in Nat
  <2>1. d \in Nat /\ e \in Nat
    BY DEF IInv, TypeOK
  <2> QED
    BY <1>1, <1>2, <2>1, HeaderFacts, BusyFacts
<1> QED
  BY <1>1, <1>2, <1>3 DEF HEADER

\* The ranges of a state are apart, and (below) in the buffer.
LEMMA NowApart == IInv => BlocksApart
BY HeldApart DEF BlocksApart

\* What is held lies in the buffer.
Inside == \A d \in DOMAIN blocks : d \in 1 .. N /\ d + blocks[d] <= N

\* The invariant keeps them there.
LEMMA NowInside == IInv => Inside
<1> SUFFICES ASSUME IInv, NEW d \in DOMAIN blocks
             PROVE  d \in 1 .. N /\ d + blocks[d] <= N
  BY DEF Inside
<1>1. d \in 1 .. N
  BY DEF IInv, TypeOK
<1>2. PICK x \in DOMAIN hdr : ~hdr[x].free /\ hdr[x].data = d
  BY PointerFacts
<1>3. /\ blocks[d] \in Nat /\ x \in Nat /\ hdr[x].size \in Nat
      /\ d + blocks[d] <= x + hdr[x].size
      /\ x + hdr[x].size <= IF x < head THEN head ELSE N
  BY <1>2, HeaderFacts, BusyFacts
<1> QED
  BY <1>1, <1>3, BufferAssumption DEF IInv, TypeOK

\* Both facts after a step.
LEMMA NextApart == IInv' => BlocksApart' /\ Inside'
BY NowApart, NowInside, PTL

\* A request taken from the ring is a grant of a range that shares no byte
\* with one that is held, at an address that is aligned.
LEMMA AllocateGrants ==
  ASSUME ShortRequests, IInv, IInv', NEW s \in Sizes, NEW a \in Aligns,
         AllocateFromRing(s, a)
  PROVE  Promise!Grant
<1> DEFINE h == StartOf(s, a)
           data == GetDataPtrAfterHeader(h, a)
           r == [lo |-> data, hi |-> data + s, align |-> a]
<1>1. /\ blocks' = [d \in DOMAIN blocks \cup {data} |->
                      IF d = data THEN s ELSE blocks[d]]
      /\ aligns' = [d \in DOMAIN blocks \cup {data} |->
                      IF d = data THEN a ELSE aligns[d]]
      /\ nBacking' = nBacking
  BY Zenon DEF AllocateFromRing
<1>2. data \in Nat /\ (Base + data) % a = 0 /\ s \in Nat
  <2>1. h \in Nat
    BY DEF StartOf, IInv, TypeOK
  <2> QED
    BY <2>1, BlockFacts, RequestAssumption
<1> HIDE DEF h, data
<1>3. /\ DOMAIN blocks' = DOMAIN blocks \cup {data} /\ blocks'[data] = s
      /\ data \notin DOMAIN blocks
      /\ aligns'[data] = a
      /\ \A d \in DOMAIN blocks : blocks'[d] = blocks[d] /\ aligns'[d] = aligns[d]
  BY <1>1, DataFresh DEF data, h, AllocateFromRing
<1>4. \A q \in Held : Promise!Apart(r, q) /\ r.lo # q.lo
  <2> SUFFICES ASSUME NEW d \in DOMAIN blocks
               PROVE  Promise!Apart(r, HeldRange(d)) /\ data # d
    BY DEF Held, HeldRange
  <2>1. /\ d < data => d + blocks[d] <= data
        /\ data < d => data + s <= d
    BY <1>3, NextApart DEF BlocksApart
  <2>2. d \in Nat /\ d # data
    BY <1>3 DEF IInv, TypeOK
  <2> QED
    BY <1>2, <2>1, <2>2 DEF Promise!Apart, HeldRange
<1>5. {HeldRange(d) : d \in DOMAIN blocks}' = Held \cup {r}
  BY <1>3 DEF Held, HeldRange
<1>6. data \in 0 .. N /\ data + s <= N
  BY <1>2, <1>3, NextApart, BufferAssumption DEF Inside
<1> QED
  BY <1>1, <1>2, <1>4, <1>5, <1>6 DEF Promise!Grant, Held

\* Deallocate gives back exactly the range of its pointer.
LEMMA DeallocateReleases ==
  ASSUME IInv, NEW d \in DOMAIN blocks, Deallocate(d)
  PROVE  Promise!Release
<1>1. /\ blocks' = [e \in DOMAIN blocks \ {d} |-> blocks[e]]
      /\ aligns' = [e \in DOMAIN blocks \ {d} |-> aligns[e]]
      /\ nBacking' = nBacking
  BY Zenon DEF Deallocate
<1>2. {HeldRange(e) : e \in DOMAIN blocks}' = Held \ {HeldRange(d)}
  BY <1>1 DEF Held, HeldRange
<1> QED
  BY <1>1, <1>2 DEF Promise!Release, Held

-----------------------------------------------------------------------------
(* Results *)

\* ShortRequests speaks of constants only: it holds for ever or never.
LEMMA ShortForEver == ShortRequests => ShortRequests'
BY DEF ShortRequests, EndOf, GetDataPtrAfterHeader

\* The inductive invariant holds in every state of an allocator that is asked
\* for short blocks only.
THEOREM InvariantHolds == Spec /\ ShortRequests => [](ShortRequests /\ IInv)
<1>1. Init /\ ShortRequests => ShortRequests /\ IInv
  BY InitIInv
<1>2. ShortRequests /\ IInv /\ [Next]_vars => (ShortRequests /\ IInv)'
  BY NextIInv, ShortForEver
<1> QED
  BY <1>1, <1>2, PTL DEF Spec

\* The types of the allocator's state.
THEOREM TypeCorrect == Spec /\ ShortRequests => []TypeOK
<1>1. IInv => TypeOK
  BY DEF IInv
<1> QED
  BY <1>1, InvariantHolds, PTL

\* The headers tile the used part of the ring, and each pointer a client holds
\* has the busy header that Deallocate will look for.
THEOREM Tiled == Spec /\ ShortRequests => []RingTiled
<1>1. IInv => RingTiled
  BY DEF IInv
<1> QED
  BY <1>1, InvariantHolds, PTL

\* The ring looks empty exactly when no client holds a block of it.
THEOREM Empty == Spec /\ ShortRequests => []EmptyExact
<1>1. IInv => EmptyExact
  BY DEF IInv
<1> QED
  BY <1>1, InvariantHolds, PTL

\* m_used is the number of bytes of the blocks that clients hold.
THEOREM Used == Spec /\ ShortRequests => []UsedExact
<1>1. Init => UsedExact
  BY FS_EmptySet DEF Init, UsedExact, BytesHeld
<1>2. ShortRequests /\ IInv /\ IInv' /\ UsedExact /\ [Next]_vars => UsedExact'
  BY NextUsed
<1> QED
  BY <1>1, <1>2, InvariantHolds, PTL DEF Spec

\* No two blocks in clients' hands share a byte.
THEOREM Apart == Spec /\ ShortRequests => []BlocksApart
BY NowApart, InvariantHolds, PTL

\* The ring implements Heap.
THEOREM Implements == Spec /\ ShortRequests => HeapSpec
<1>1. Init => Promise!Init
  BY DEF Init, Promise!Init
<1>2. /\ ShortRequests /\ IInv /\ [Next]_vars
      => [Promise!Next]_<<{HeldRange(d) : d \in DOMAIN blocks}, nBacking>>
  <2> SUFFICES ASSUME ShortRequests, IInv, [Next]_vars
               PROVE  [Promise!Next]_<<{HeldRange(d) : d \in DOMAIN blocks}, nBacking>>
    OBVIOUS
  <2>1. CASE \E s \in Sizes, a \in Aligns : AllocateFromRing(s, a)
    <3>1. Promise!Grant
      BY <2>1, AllocateFromRingIInv, AllocateGrants
    <3> QED
      BY <3>1 DEF Promise!Next
  <2>2. CASE \E s \in Sizes, a \in Aligns : AllocateFromBacking(s, a)
    BY <2>2 DEF AllocateFromBacking, Promise!Next, Promise!GrantOutside, HeldRange
  <2>3. CASE \E d \in DOMAIN blocks : Deallocate(d)
    <3>1. Promise!Release
      BY <2>3, DeallocateReleases
    <3> QED
      BY <3>1 DEF Promise!Next
  <2>4. CASE DeallocateFromBacking
    BY <2>4 DEF DeallocateFromBacking, Promise!Next, Promise!ReleaseOutside, HeldRange
  <2>5. CASE UNCHANGED vars
    BY <2>5 DEF vars, HeldRange
  <2> QED
    BY <2>1, <2>2, <2>3, <2>4, <2>5 DEF Next, Allocate
<1> QED
  BY <1>1, <1>2, InvariantHolds, PTL DEF Spec, HeapSpec, Promise!HeapSpec
=============================================================================
