--------------------------- MODULE JobSlotsProofs ---------------------------
(***************************************************************************)
(* Proofs about the operators of JobSlots for every number of slots and    *)
(* priorities: each critical section of Jq2State.Mutex, as a function from *)
(* pool to pool, keeps the pool consistent.                                *)
(***************************************************************************)
EXTENDS JobSlots, FiniteSetTheorems, SequenceTheorems, TLAPS

-----------------------------------------------------------------------------
(* Sequences without repetition *)

Has(sq, x) == \E i \in 1 .. Len(sq) : sq[i] = x
Distinct(sq) == \A i, j \in 1 .. Len(sq) : sq[i] = sq[j] => i = j

\* A node is taken out of a linked list; the others keep their order.
LEMMA UnlinkFacts ==
  ASSUME NEW S, NEW sq \in Seq(S), Distinct(sq), NEW k \in 1 .. Len(sq)
  PROVE  /\ Unlink(sq, sq[k]) \in Seq(S)
         /\ Len(Unlink(sq, sq[k])) = Len(sq) - 1
         /\ \A i \in 1 .. Len(sq) - 1 :
              Unlink(sq, sq[k])[i] = IF i < k THEN sq[i] ELSE sq[i + 1]
<1> DEFINE n == Len(sq)
           a == SubSeq(sq, 1, k - 1)
           b == SubSeq(sq, k + 1, n)
<1>1. n \in Nat /\ DOMAIN sq = 1 .. n /\ \A i \in 1 .. n : sq[i] \in S
  BY LenProperties, ElementOfSeq
<1>2. k = CHOOSE i \in DOMAIN sq : sq[i] = sq[k]
  BY <1>1 DEF Distinct
<1>3. Unlink(sq, sq[k]) = a \o b
  BY <1>2 DEF Unlink, RemoveAt
<1> HIDE DEF n
<1>4. a \in Seq(S) /\ Len(a) = k - 1 /\ \A i \in 1 .. k - 1 : a[i] = sq[i]
  <2>1. 1 \in Int /\ k - 1 \in Int /\ k \in 1 .. n
    BY <1>1 DEF n
  <2>2. \A i \in 1 .. k - 1 : sq[i] \in S
    BY <1>1, <2>1
  <2>3. /\ a \in Seq(S)
        /\ Len(a) = IF 1 <= k - 1 THEN (k - 1) - 1 + 1 ELSE 0
        /\ \A i \in 1 .. (k - 1) - 1 + 1 : a[i] = sq[1 + i - 1]
    BY <2>1, <2>2, SubSeqProperties
  <2> QED
    BY <2>1, <2>3
<1>5. b \in Seq(S) /\ Len(b) = n - k /\ \A i \in 1 .. n - k : b[i] = sq[k + i]
  <2>1. k + 1 \in Int /\ n \in Int /\ k \in 1 .. n
    BY <1>1 DEF n
  <2>2. \A i \in k + 1 .. n : sq[i] \in S
    BY <1>1, <2>1
  <2>3. /\ b \in Seq(S)
        /\ Len(b) = IF k + 1 <= n THEN n - (k + 1) + 1 ELSE 0
        /\ \A i \in 1 .. n - (k + 1) + 1 : b[i] = sq[(k + 1) + i - 1]
    BY <2>1, <2>2, SubSeqProperties
  <2> QED
    BY <2>1, <2>3
<1> HIDE DEF a, b
<1>6. /\ a \o b \in Seq(S) /\ Len(a \o b) = Len(a) + Len(b)
      /\ \A i \in 1 .. Len(a) + Len(b) :
           (a \o b)[i] = IF i <= Len(a) THEN a[i] ELSE b[i - Len(a)]
  BY <1>4, <1>5, ConcatProperties
<1>7. k \in 1 .. n /\ Len(a) + Len(b) = n - 1
  BY <1>1, <1>4, <1>5 DEF n
<1>8. ASSUME NEW i \in 1 .. n - 1
      PROVE  (a \o b)[i] = IF i < k THEN sq[i] ELSE sq[i + 1]
  <2>1. CASE i < k
    BY <1>1, <1>4, <1>6, <1>7, <2>1
  <2>2. CASE ~(i < k)
    <3>1. i - (k - 1) \in 1 .. n - k /\ k + (i - (k - 1)) = i + 1
      BY <1>1, <1>7, <2>2
    <3> QED
      BY <1>1, <1>4, <1>5, <1>6, <1>7, <2>2, <3>1
  <2> QED
    BY <2>1, <2>2
<1> QED
  BY <1>3, <1>6, <1>7, <1>8 DEF n

\* What is left in the list is everything but the node taken out.
LEMMA UnlinkHas ==
  ASSUME NEW S, NEW sq \in Seq(S), Distinct(sq), NEW c, Has(sq, c)
  PROVE  /\ Unlink(sq, c) \in Seq(S)
         /\ Len(Unlink(sq, c)) = Len(sq) - 1
         /\ Distinct(Unlink(sq, c))
         /\ \A x : Has(Unlink(sq, c), x) <=> Has(sq, x) /\ x # c
<1>1. PICK k \in 1 .. Len(sq) : sq[k] = c
  BY DEF Has
<1> DEFINE r == Unlink(sq, c)
           n == Len(sq)
<1>2. /\ r \in Seq(S) /\ Len(r) = n - 1 /\ n \in Nat /\ k \in 1 .. n
      /\ \A i \in 1 .. n - 1 : r[i] = IF i < k THEN sq[i] ELSE sq[i + 1]
  <2>1. r = Unlink(sq, sq[k])
    BY <1>1
  <2>2. n \in Nat
    BY LenProperties
  <2> HIDE DEF r
  <2> QED
    BY <2>1, <2>2, UnlinkFacts
<1>3. \A i, j \in 1 .. n : sq[i] = sq[j] => i = j
  BY DEF Distinct
<1> HIDE DEF r
<1>4. Distinct(r)
  BY <1>2, <1>3 DEF Distinct
<1>5. ASSUME NEW x, Has(r, x) PROVE Has(sq, x) /\ x # c
  BY <1>1, <1>2, <1>3, <1>5 DEF Has
<1>6. ASSUME NEW x, Has(sq, x), x # c PROVE Has(r, x)
  <2>1. PICK i \in 1 .. n : sq[i] = x
    BY <1>6 DEF Has
  <2>2. i # k
    BY <1>1, <1>6, <2>1
  <2>3. CASE i < k
    BY <1>2, <2>1, <2>3 DEF Has
  <2>4. CASE i > k
    <3>1. i - 1 \in 1 .. n - 1 /\ ~(i - 1 < k) /\ (i - 1) + 1 = i
      BY <1>2, <2>4
    <3>2. r[i - 1] = x
      BY <1>2, <2>1, <3>1
    <3> QED
      BY <1>2, <3>1, <3>2 DEF Has
  <2> QED
    BY <1>2, <2>2, <2>3, <2>4
<1> QED
  BY <1>2, <1>4, <1>5, <1>6 DEF r

\* A new first child.
LEMMA PrependHas ==
  ASSUME NEW S, NEW sq \in Seq(S), NEW c \in S
  PROVE  /\ <<c>> \o sq \in Seq(S)
         /\ Len(<<c>> \o sq) = Len(sq) + 1
         /\ \A x : Has(<<c>> \o sq, x) <=> Has(sq, x) \/ x = c
         /\ Distinct(sq) /\ ~Has(sq, c) => Distinct(<<c>> \o sq)
<1> DEFINE r == <<c>> \o sq
           n == Len(sq)
<1>1. n \in Nat /\ <<c>> \in Seq(S) /\ Len(<<c>>) = 1
  OBVIOUS
<1>2. /\ r \in Seq(S) /\ Len(r) = n + 1
      /\ \A i \in 1 .. n + 1 : r[i] = IF i = 1 THEN c ELSE sq[i - 1]
  <2>1. /\ r \in Seq(S) /\ Len(r) = 1 + n
        /\ \A i \in 1 .. 1 + n : r[i] = IF i <= 1 THEN <<c>>[i] ELSE sq[i - 1]
    BY <1>1, ConcatProperties
  <2> QED
    BY <1>1, <2>1
<1> HIDE DEF r
<1>3. ASSUME NEW x PROVE Has(r, x) <=> Has(sq, x) \/ x = c
  <2>1. ASSUME Has(r, x) PROVE Has(sq, x) \/ x = c
    <3>1. PICK i \in 1 .. n + 1 : r[i] = x
      BY <1>2, <2>1 DEF Has
    <3>2. CASE i = 1
      BY <1>2, <3>1, <3>2
    <3>3. CASE i # 1
      <4>1. i - 1 \in 1 .. n /\ sq[i - 1] = x
        BY <1>1, <1>2, <3>1, <3>3
      <4> QED
        BY <4>1 DEF Has
    <3> QED
      BY <3>2, <3>3
  <2>2. ASSUME x = c PROVE Has(r, x)
    BY <1>1, <1>2, <2>2 DEF Has
  <2>3. ASSUME Has(sq, x) PROVE Has(r, x)
    <3>1. PICK i \in 1 .. n : sq[i] = x
      BY <2>3 DEF Has
    <3>2. i + 1 \in 1 .. n + 1 /\ r[i + 1] = x
      BY <1>1, <1>2, <3>1
    <3> QED
      BY <1>2, <3>2 DEF Has
  <2> QED
    BY <2>1, <2>2, <2>3
<1>4. ASSUME Distinct(sq), ~Has(sq, c) PROVE Distinct(r)
  <2> SUFFICES ASSUME NEW i \in 1 .. n + 1, NEW j \in 1 .. n + 1, r[i] = r[j]
               PROVE  i = j
    BY <1>2 DEF Distinct
  <2>1. \A m \in 1 .. n : sq[m] # c
    BY <1>4 DEF Has
  <2>2. ASSUME NEW m \in 1 .. n + 1, m # 1 PROVE m - 1 \in 1 .. n /\ r[m] # c
    <3>1. m - 1 \in 1 .. n
      BY <1>1, <2>2
    <3> QED
      BY <1>2, <2>1, <2>2, <3>1
  <2>3. CASE i # 1 /\ j # 1
    <3>1. sq[i - 1] = sq[j - 1]
      BY <1>2, <2>3
    <3>2. i - 1 = j - 1
      BY <1>4, <2>2, <2>3, <3>1 DEF Distinct
    <3> QED
      BY <3>2
  <2>4. CASE i = 1 \/ j = 1
    <3>1. 1 \in 1 .. n + 1 /\ r[1] = c
      BY <1>1, <1>2
    <3> QED
      BY <2>2, <2>4, <3>1
  <2> QED
    BY <2>3, <2>4
<1> QED
  BY <1>2, <1>3, <1>4 DEF r

\* As many elements as places.
LEMMA DistinctCardinality ==
  ASSUME NEW S, NEW sq \in Seq(S), Distinct(sq)
  PROVE  Cardinality(ToSet(sq)) = Len(sq)
<1>1. Len(sq) \in Nat /\ DOMAIN sq = 1 .. Len(sq) /\ sq \in [1 .. Len(sq) -> S]
  BY LenProperties
<1>2. sq \in [1 .. Len(sq) -> ToSet(sq)]
  BY <1>1 DEF ToSet
<1>3. sq \in Bijection(1 .. Len(sq), ToSet(sq))
  BY <1>1, <1>2 DEF Bijection, Injection, IsInjective, Surjection, Distinct, ToSet
<1> QED
  BY <1>1, <1>3, FS_CountingElements DEF ExistsBijection

\* A new last node.
LEMMA AppendHas ==
  ASSUME NEW S, NEW sq \in Seq(S), NEW c \in S
  PROVE  /\ Append(sq, c) \in Seq(S)
         /\ Len(Append(sq, c)) = Len(sq) + 1
         /\ \A i \in 1 .. Len(sq) : Append(sq, c)[i] = sq[i]
         /\ Append(sq, c)[Len(sq) + 1] = c
         /\ \A x : Has(Append(sq, c), x) <=> Has(sq, x) \/ x = c
<1> DEFINE r == Append(sq, c)
           n == Len(sq)
<1>1. /\ r \in Seq(S) /\ Len(r) = n + 1 /\ n \in Nat
      /\ \A i \in 1 .. n : r[i] = sq[i]
      /\ r[n + 1] = c
  BY AppendProperties, LenProperties
<1> HIDE DEF r
<1>2. ASSUME NEW x PROVE Has(r, x) <=> Has(sq, x) \/ x = c
  <2>1. ASSUME Has(r, x), x # c PROVE Has(sq, x)
    <3>1. PICK i \in 1 .. n + 1 : r[i] = x
      BY <1>1, <2>1 DEF Has
    <3>2. i \in 1 .. n /\ sq[i] = x
      BY <1>1, <2>1, <3>1
    <3> QED
      BY <3>2 DEF Has
  <2>2. ASSUME x = c PROVE Has(r, x)
    <3>1. n + 1 \in 1 .. n + 1
      BY <1>1
    <3> QED
      BY <1>1, <2>2, <3>1 DEF Has
  <2>3. ASSUME Has(sq, x) PROVE Has(r, x)
    <3>1. PICK i \in 1 .. n : sq[i] = x
      BY <2>3 DEF Has
    <3>2. i \in 1 .. n + 1 /\ r[i] = x
      BY <1>1, <3>1
    <3> QED
      BY <1>1, <3>2 DEF Has
  <2> QED
    BY <2>1, <2>2, <2>3
<1> QED
  BY <1>1, <1>2 DEF r

-----------------------------------------------------------------------------
(* Numbers *)

\* A set of natural numbers has a least element.
LEMMA LeastNatural ==
  ASSUME NEW D \in SUBSET Nat, D # {}
  PROVE  Min(D) \in D /\ \A k \in D : Min(D) <= k
<1> DEFINE R == OpToRel(<, Nat)
<1>1. \E m \in D : \A k \in D : ~(<<k, m>> \in R)
  <2> HIDE DEF R
  <2>1. IsWellFoundedOn(R, Nat)
    BY NatLessThanWellFounded DEF R
  <2> QED
    BY <2>1, WFMin
<1>2. ASSUME NEW m \in D, NEW k \in D, ~(<<k, m>> \in R)
      PROVE  m <= k
  BY <1>2 DEF OpToRel
<1>3. \E m \in D : \A k \in D : m <= k
  BY <1>1, <1>2
<1> QED
  BY <1>3, Zenon DEF Min

\* Division with a remainder is unique.
LEMMA ModUnique ==
  ASSUME NEW k \in Nat, NEW s \in 0 .. MaxJobs - 1, NEW n \in Nat, n = MaxJobs * k + s
  PROVE  n % MaxJobs = s
<1> DEFINE a == n \div MaxJobs
           b == n % MaxJobs
<1>1. a \in Nat /\ b \in 0 .. MaxJobs - 1 /\ n = MaxJobs * a + b
  BY MaxJobsAssumption
<1> HIDE DEF a, b
<1>2. MaxJobs * (a - k) = s - b /\ a - k \in Int
  BY <1>1, MaxJobsAssumption
<1>3. a - k < 1
  BY <1>1, <1>2, MaxJobsAssumption
<1>4. a - k > -1
  BY <1>1, <1>2, MaxJobsAssumption
<1>5. a = k
  BY <1>1, <1>2, <1>3, <1>4
<1>6. s = b
  BY <1>1, <1>5, MaxJobsAssumption
<1> QED
  BY <1>6 DEF b

\* The handle of a job that is not the first of its round lies in a slot.
LEMMA SlotOfHandle ==
  ASSUME NEW h \in Nat
  PROVE  SlotOf(h) \in Slots \cup {0}
BY MaxJobsAssumption DEF SlotOf, Slots

\* Jq2NextHandle: the next handle is greater and not one of slot 0.
LEMMA NextHandleFacts ==
  ASSUME NEW h \in Nat
  PROVE  /\ NextHandle(h) \in Nat /\ NextHandle(h) > h
         /\ NextHandle(h) % MaxJobs # 0
<1>1. CASE (h + 1) % MaxJobs = 0
  BY <1>1, MaxJobsAssumption DEF NextHandle
<1>2. CASE (h + 1) % MaxJobs # 0
  BY <1>2, MaxJobsAssumption DEF NextHandle
<1> QED
  BY <1>1, <1>2

\* Every slot has a handle within one round.
LEMMA HandleInRound ==
  ASSUME NEW n \in Nat, n % MaxJobs # 0, NEW s \in Slots
  PROVE  \E h \in n .. n + MaxJobs - 1 : SlotOf(h) = s
<1> DEFINE k == n \div MaxJobs
           r == n % MaxJobs
<1>1. k \in Nat /\ r \in 0 .. MaxJobs - 1 /\ n = MaxJobs * k + r
  BY MaxJobsAssumption
<1> HIDE DEF k, r
<1>2. CASE s >= r
  <2>1. MaxJobs * k + s \in n .. n + MaxJobs - 1 /\ s \in 0 .. MaxJobs - 1
    BY <1>1, <1>2, MaxJobsAssumption DEF Slots
  <2> QED
    BY <1>1, <2>1, ModUnique DEF SlotOf
<1>3. CASE s < r
  <2>1. /\ MaxJobs * (k + 1) + s \in n .. n + MaxJobs - 1
        /\ s \in 0 .. MaxJobs - 1 /\ k + 1 \in Nat
    BY <1>1, <1>3, MaxJobsAssumption DEF Slots
  <2> QED
    BY <1>1, <2>1, ModUnique DEF SlotOf
<1> QED
  BY <1>1, <1>2, <1>3 DEF Slots

\* The search may not skip more than a round.
LEMMA NextHandleInRound ==
  ASSUME NEW n \in Nat, n % MaxJobs # 0, NEW h \in n .. n + MaxJobs - 1
  PROVE  NextHandle(h) <= n + MaxJobs
<1>1. CASE h < n + MaxJobs - 1
  BY <1>1, MaxJobsAssumption DEF NextHandle
<1>2. CASE h = n + MaxJobs - 1
  <2> DEFINE k == n \div MaxJobs
             r == n % MaxJobs
  <2>1. k \in Nat /\ r \in 0 .. MaxJobs - 1 /\ n = MaxJobs * k + r
    BY MaxJobsAssumption
  <2>2. r # 0
    OBVIOUS
  <2> HIDE DEF k, r
  <2>3. h + 1 = MaxJobs * (k + 1) + r /\ k + 1 \in Nat /\ h + 1 \in Nat
    BY <1>2, <2>1, MaxJobsAssumption
  <2>4. (h + 1) % MaxJobs = r
    BY <2>1, <2>3, ModUnique
  <2> QED
    BY <1>2, <2>2, <2>4, MaxJobsAssumption DEF NextHandle
<1> QED
  BY <1>1, <1>2, MaxJobsAssumption

-----------------------------------------------------------------------------
(* A pool by its fields *)

PoolOf(a, b, c, d, e, f, g, h, i, j, k, l) ==
  [nStartedHandle |-> a, nFinishedHandle |-> b, nNumJobs |-> c, nNumStarted |-> d,
   num_finished_jobs |-> e, nParent |-> f, children |-> g, nPrio |-> h,
   nWaiters |-> i, list |-> j, nFreeJobs |-> k, nNextHandle |-> l]

\* The fields of a pool, whatever their values.
LEMMA PoolOfFields ==
  ASSUME NEW a, NEW b, NEW c, NEW d, NEW e, NEW f, NEW g, NEW h, NEW i, NEW j, NEW k, NEW l,
         NEW p, p = PoolOf(a, b, c, d, e, f, g, h, i, j, k, l)
  PROVE  /\ p.nStartedHandle = a /\ p.nFinishedHandle = b /\ p.nNumJobs = c
         /\ p.nNumStarted = d /\ p.num_finished_jobs = e /\ p.nParent = f
         /\ p.children = g /\ p.nPrio = h /\ p.nWaiters = i /\ p.list = j
         /\ p.nFreeJobs = k /\ p.nNextHandle = l
BY DEF PoolOf

\* One more sub-job is started.
LEMMA StartedRecord ==
  ASSUME NEW a, NEW b, NEW c, NEW d, NEW e, NEW f, NEW g, NEW h, NEW i, NEW j, NEW k, NEW l,
         NEW p, p = PoolOf(a, b, c, d, e, f, g, h, i, j, k, l),
         NEW s
  PROVE  [p EXCEPT !.nNumStarted[s] = @ + 1]
           = PoolOf(a, b, c, [d EXCEPT ![s] = @ + 1], e, f, g, h, i, j, k, l)
BY SMT DEF PoolOf

\* One more sub-job has ended.
LEMMA EndedRecord ==
  ASSUME NEW a, NEW b, NEW c, NEW d, NEW e, NEW f, NEW g, NEW h, NEW i, NEW j, NEW k, NEW l,
         NEW p, p = PoolOf(a, b, c, d, e, f, g, h, i, j, k, l),
         NEW s
  PROVE  [p EXCEPT !.num_finished_jobs[s] = @ + 1]
           = PoolOf(a, b, c, d, [e EXCEPT ![s] = @ + 1], f, g, h, i, j, k, l)
BY SMT DEF PoolOf

-----------------------------------------------------------------------------
(* The invariant of the pool between two critical sections *)

Pools ==
  [nStartedHandle : [Slots -> Nat], nFinishedHandle : [Slots -> Nat],
   nNumJobs : [Slots -> Nat], nNumStarted : [Slots -> Nat],
   num_finished_jobs : [Slots -> Nat], nParent : [Slots -> Slots \cup {0}],
   children : [Slots -> Seq(Slots)], nPrio : [Slots -> Nat],
   nWaiters : [Slots -> 0 .. 255], list : [Prios -> Seq(Slots)],
   nFreeJobs : Nat, nNextHandle : Nat]

\* A slot has handles of its own, older than the next one.
Handles(p) ==
  /\ p.nNextHandle % MaxJobs # 0
  /\ \A s \in Slots :
       /\ p.nFinishedHandle[s] <= p.nStartedHandle[s]
       /\ p.nStartedHandle[s] < p.nNextHandle
       /\ p.nStartedHandle[s] # 0 => SlotOf(p.nStartedHandle[s]) = s

Counts(p) ==
  \A s \in Slots : /\ p.num_finished_jobs[s] <= p.nNumStarted[s]
                   /\ p.nNumStarted[s] <= p.nNumJobs[s]

\* A job is pending as long as a sub-job or a child of it is left.
PendingIff(p) ==
  \A s \in Slots : PendingJobs(p, s) <=> \/ p.num_finished_jobs[s] < p.nNumJobs[s]
                                         \/ \E c \in Slots : Has(p.children[s], c)

Tree(p) ==
  \A s \in Slots :
    /\ Distinct(p.children[s])
    /\ \A c : Has(p.children[s], c) <=> c \in Slots /\ PendingJobs(p, c) /\ p.nParent[c] = s

Sorted(p, list) ==
  \A a, b \in 1 .. Len(list) : a < b => p.nStartedHandle[list[a]] < p.nStartedHandle[list[b]]
Queue(p) ==
  /\ \A i \in Prios :
       /\ Sorted(p, p.list[i])
       /\ \A c : Has(p.list[i], c) <=> c \in Slots /\ Startable(p, c) /\ p.nPrio[c] = i
  /\ \A s \in Slots : Startable(p, s) => p.nPrio[s] \in Prios

FreeSlots(p) == {s \in Slots : ~PendingJobs(p, s)}
FreeJobs(p) == p.nFreeJobs = Cardinality(FreeSlots(p))

PoolInv(p) ==
  /\ p \in Pools
  /\ Handles(p) /\ Counts(p) /\ PendingIff(p) /\ Tree(p) /\ Queue(p) /\ FreeJobs(p)

\* The fields of a pool of the invariant.
LEMMA PoolTypes ==
  ASSUME NEW p \in Pools
  PROVE  /\ p.nStartedHandle \in [Slots -> Nat]
         /\ p.nFinishedHandle \in [Slots -> Nat]
         /\ p.nNumJobs \in [Slots -> Nat]
         /\ p.nNumStarted \in [Slots -> Nat]
         /\ p.num_finished_jobs \in [Slots -> Nat]
         /\ p.nParent \in [Slots -> Slots \cup {0}]
         /\ p.children \in [Slots -> Seq(Slots)]
         /\ p.nPrio \in [Slots -> Nat]
         /\ p.nWaiters \in [Slots -> 0 .. 255]
         /\ p.list \in [Prios -> Seq(Slots)]
         /\ p.nFreeJobs \in Nat
         /\ p.nNextHandle \in Nat
BY DEF Pools

\* A pool is the record of its fields.
LEMMA PoolRecord ==
  ASSUME NEW p \in Pools
  PROVE  p = PoolOf(p.nStartedHandle, p.nFinishedHandle, p.nNumJobs, p.nNumStarted,
                    p.num_finished_jobs, p.nParent, p.children, p.nPrio,
                    p.nWaiters, p.list, p.nFreeJobs, p.nNextHandle)
BY DEF Pools, PoolOf

\* A record of such fields is a pool.
LEMMA PoolOfInPools ==
  ASSUME NEW a \in [Slots -> Nat], NEW b \in [Slots -> Nat], NEW c \in [Slots -> Nat],
         NEW d \in [Slots -> Nat], NEW e \in [Slots -> Nat],
         NEW f \in [Slots -> Slots \cup {0}], NEW g \in [Slots -> Seq(Slots)],
         NEW h \in [Slots -> Nat], NEW i \in [Slots -> 0 .. 255],
         NEW j \in [Prios -> Seq(Slots)], NEW k \in Nat, NEW l \in Nat
  PROVE  PoolOf(a, b, c, d, e, f, g, h, i, j, k, l) \in Pools
BY DEF Pools, PoolOf

\* The assignments of Jq2FindHandle and its callers.
LEMMA FillSlotRecord ==
  ASSUME NEW p \in Pools, NEW x, NEW y, NEW z, NEW v, NEW u, NEW s, s = SlotOf(x)
  PROVE  FillSlot(p, x, y, z, v, u)
           = PoolOf([p.nStartedHandle EXCEPT ![s] = x], p.nFinishedHandle,
                    [p.nNumJobs EXCEPT ![s] = y], [p.nNumStarted EXCEPT ![s] = z],
                    [p.num_finished_jobs EXCEPT ![s] = 0], [p.nParent EXCEPT ![s] = u],
                    p.children, [p.nPrio EXCEPT ![s] = v], [p.nWaiters EXCEPT ![s] = 0],
                    p.list, p.nFreeJobs - 1, NextHandle(x))
<1> DEFINE a == p.nStartedHandle
           b == p.nFinishedHandle
           c == p.nNumJobs
           d == p.nNumStarted
           e == p.num_finished_jobs
           f == p.nParent
           g == p.children
           h == p.nPrio
           i == p.nWaiters
           j == p.list
           k == p.nFreeJobs
           l == p.nNextHandle
<1>1. p = PoolOf(a, b, c, d, e, f, g, h, i, j, k, l)
  BY PoolRecord
<1> HIDE DEF a, b, c, d, e, f, g, h, i, j, k, l
<1> DEFINE p1 == [p EXCEPT !.nStartedHandle[s] = x]
           p2 == [p1 EXCEPT !.nNumJobs[s] = y]
           p3 == [p2 EXCEPT !.nNumStarted[s] = z]
           p4 == [p3 EXCEPT !.num_finished_jobs[s] = 0]
           p5 == [p4 EXCEPT !.nParent[s] = u]
           p6 == [p5 EXCEPT !.nPrio[s] = v]
           p7 == [p6 EXCEPT !.nWaiters[s] = 0]
           p8 == [p7 EXCEPT !.nNextHandle = NextHandle(x)]
           p9 == [p8 EXCEPT !.nFreeJobs = @ - 1]
<1>2. p1 = PoolOf([a EXCEPT ![s] = x], b, c, d, e, f, g, h, i, j, k, l)
  BY <1>1, SMT DEF PoolOf
<1> HIDE DEF p1
<1>3. p2 = PoolOf([a EXCEPT ![s] = x], b, [c EXCEPT ![s] = y], d, e, f, g, h, i, j, k, l)
  BY <1>2, SMT DEF PoolOf
<1> HIDE DEF p2
<1>4. p3 = PoolOf([a EXCEPT ![s] = x], b, [c EXCEPT ![s] = y], [d EXCEPT ![s] = z], e, f, g, h, i, j, k, l)
  BY <1>3, SMT DEF PoolOf
<1> HIDE DEF p3
<1>5. p4 = PoolOf([a EXCEPT ![s] = x], b, [c EXCEPT ![s] = y], [d EXCEPT ![s] = z], [e EXCEPT ![s] = 0], f, g, h, i, j, k, l)
  BY <1>4, SMT DEF PoolOf
<1> HIDE DEF p4
<1>6. p5 = PoolOf([a EXCEPT ![s] = x], b, [c EXCEPT ![s] = y], [d EXCEPT ![s] = z], [e EXCEPT ![s] = 0], [f EXCEPT ![s] = u], g, h, i, j, k, l)
  BY <1>5, SMT DEF PoolOf
<1> HIDE DEF p5
<1>7. p6 = PoolOf([a EXCEPT ![s] = x], b, [c EXCEPT ![s] = y], [d EXCEPT ![s] = z], [e EXCEPT ![s] = 0], [f EXCEPT ![s] = u], g, [h EXCEPT ![s] = v], i, j, k, l)
  BY <1>6, SMT DEF PoolOf
<1> HIDE DEF p6
<1>8. p7 = PoolOf([a EXCEPT ![s] = x], b, [c EXCEPT ![s] = y], [d EXCEPT ![s] = z], [e EXCEPT ![s] = 0], [f EXCEPT ![s] = u], g, [h EXCEPT ![s] = v], [i EXCEPT ![s] = 0], j, k, l)
  BY <1>7, SMT DEF PoolOf
<1> HIDE DEF p7
<1>9. p8 = PoolOf([a EXCEPT ![s] = x], b, [c EXCEPT ![s] = y], [d EXCEPT ![s] = z], [e EXCEPT ![s] = 0], [f EXCEPT ![s] = u], g, [h EXCEPT ![s] = v], [i EXCEPT ![s] = 0], j, k, NextHandle(x))
  BY <1>8, SMT DEF PoolOf
<1> HIDE DEF p8
<1>10. p9 = PoolOf([a EXCEPT ![s] = x], b, [c EXCEPT ![s] = y], [d EXCEPT ![s] = z], [e EXCEPT ![s] = 0], [f EXCEPT ![s] = u], g, [h EXCEPT ![s] = v], [i EXCEPT ![s] = 0], j, k - 1, NextHandle(x))
  BY <1>9, SMT DEF PoolOf
<1> HIDE DEF p9
<1>11. FillSlot(p, x, y, z, v, u) = p9
  BY DEF FillSlot, p1, p2, p3, p4, p5, p6, p7, p8, p9
<1> QED
  BY <1>10, <1>11 DEF a, b, c, d, e, f, g, h, i, j, k, l

\* The assignments of Jq2CheckFinished.
Completed(p, x, y, z, u, v) ==
  [p EXCEPT !.nFinishedHandle = x, !.nParent = y, !.nWaiters = z, !.children = u,
            !.nFreeJobs = @ + v]

\* The pool they leave.
LEMMA FinishRecord ==
  ASSUME NEW p \in Pools, NEW x, NEW y, NEW z, NEW u, NEW v
  PROVE  Completed(p, x, y, z, u, v)
           = PoolOf(p.nStartedHandle, x, p.nNumJobs, p.nNumStarted, p.num_finished_jobs,
                    y, u, p.nPrio, z, p.list, p.nFreeJobs + v, p.nNextHandle)
<1> DEFINE a == p.nStartedHandle
           b == p.nFinishedHandle
           c == p.nNumJobs
           d == p.nNumStarted
           e == p.num_finished_jobs
           f == p.nParent
           g == p.children
           h == p.nPrio
           i == p.nWaiters
           j == p.list
           k == p.nFreeJobs
           l == p.nNextHandle
<1>1. p = PoolOf(a, b, c, d, e, f, g, h, i, j, k, l)
  BY PoolRecord
<1> HIDE DEF a, b, c, d, e, f, g, h, i, j, k, l
<1> DEFINE p1 == [p EXCEPT !.nFinishedHandle = x]
           p2 == [p1 EXCEPT !.nParent = y]
           p3 == [p2 EXCEPT !.nWaiters = z]
           p4 == [p3 EXCEPT !.children = u]
           p5 == [p4 EXCEPT !.nFreeJobs = @ + v]
<1>2. p1 = PoolOf(a, x, c, d, e, f, g, h, i, j, k, l)
  BY <1>1, SMT DEF PoolOf
<1> HIDE DEF p1
<1>3. p2 = PoolOf(a, x, c, d, e, y, g, h, i, j, k, l)
  BY <1>2, SMT DEF PoolOf
<1> HIDE DEF p2
<1>4. p3 = PoolOf(a, x, c, d, e, y, g, h, z, j, k, l)
  BY <1>3, SMT DEF PoolOf
<1> HIDE DEF p3
<1>5. p4 = PoolOf(a, x, c, d, e, y, u, h, z, j, k, l)
  BY <1>4, SMT DEF PoolOf
<1> HIDE DEF p4
<1>6. p5 = PoolOf(a, x, c, d, e, y, u, h, z, j, k + v, l)
  BY <1>5, SMT DEF PoolOf
<1> HIDE DEF p5
<1>7. Completed(p, x, y, z, u, v) = p5
  BY DEF Completed, p1, p2, p3, p4, p5
<1> QED
  BY <1>6, <1>7 DEF a, b, c, d, e, f, g, h, i, j, k, l

\* A count of waiters.
LEMMA WaitersRecord ==
  ASSUME NEW p \in Pools, NEW s, NEW v
  PROVE  [p EXCEPT !.nWaiters[s] = v]
           = PoolOf(p.nStartedHandle, p.nFinishedHandle, p.nNumJobs, p.nNumStarted,
                    p.num_finished_jobs, p.nParent, p.children, p.nPrio,
                    [p.nWaiters EXCEPT ![s] = v], p.list, p.nFreeJobs, p.nNextHandle)
<1> DEFINE a == p.nStartedHandle
           b == p.nFinishedHandle
           c == p.nNumJobs
           d == p.nNumStarted
           e == p.num_finished_jobs
           f == p.nParent
           g == p.children
           h == p.nPrio
           i == p.nWaiters
           j == p.list
           k == p.nFreeJobs
           l == p.nNextHandle
<1>1. p = PoolOf(a, b, c, d, e, f, g, h, i, j, k, l)
  BY PoolRecord
<1> HIDE DEF a, b, c, d, e, f, g, h, i, j, k, l
<1>2. [p EXCEPT !.nWaiters[s] = v] = PoolOf(a, b, c, d, e, f, g, h, [i EXCEPT ![s] = v], j, k, l)
  BY <1>1, SMT DEF PoolOf
<1> QED
  BY <1>2 DEF a, b, c, d, e, f, g, h, i, j, k, l

\* The slots are finitely many.
LEMMA SlotsFinite ==
  /\ IsFiniteSet(Slots) /\ Cardinality(Slots) = MaxJobs - 1
  /\ \A S \in SUBSET Slots : /\ IsFiniteSet(S) /\ Cardinality(S) \in Nat
                             /\ Cardinality(S) <= MaxJobs - 1
                             /\ Cardinality(S) = MaxJobs - 1 => S = Slots
<1>1. IsFiniteSet(Slots) /\ Cardinality(Slots) = MaxJobs - 1
  <2>1. 1 \in Int /\ MaxJobs - 1 \in Int
    BY MaxJobsAssumption
  <2>2. Cardinality(1 .. MaxJobs - 1) = IF 1 > MaxJobs - 1 THEN 0 ELSE (MaxJobs - 1) - 1 + 1
    BY <2>1, FS_Interval
  <2>3. IsFiniteSet(1 .. MaxJobs - 1)
    BY <2>1, FS_Interval
  <2> QED
    BY <2>2, <2>3, MaxJobsAssumption DEF Slots
<1>2. ASSUME NEW S \in SUBSET Slots
      PROVE  /\ IsFiniteSet(S) /\ Cardinality(S) \in Nat
             /\ Cardinality(S) <= MaxJobs - 1
             /\ Cardinality(S) = MaxJobs - 1 => S = Slots
  BY <1>1, FS_Subset, FS_CardinalityType
<1> QED
  BY <1>1, <1>2

\* Startable slots and slots with a sub-job in hand are pending.
LEMMA BusyIsPending ==
  ASSUME NEW p, PoolInv(p), NEW s \in Slots,
         Startable(p, s) \/ p.num_finished_jobs[s] < p.nNumStarted[s]
  PROVE  PendingJobs(p, s) /\ p.num_finished_jobs[s] < p.nNumJobs[s]
<1>1. /\ p.nNumJobs[s] \in Nat /\ p.nNumStarted[s] \in Nat /\ p.num_finished_jobs[s] \in Nat
  BY PoolTypes DEF PoolInv
<1>2. p.num_finished_jobs[s] < p.nNumJobs[s]
  BY <1>1 DEF PoolInv, Counts, Startable
<1> QED
  BY <1>2 DEF PoolInv, PendingIff

\* A priority list has no slot twice.
LEMMA ListDistinct ==
  ASSUME NEW p, PoolInv(p), NEW i \in Prios
  PROVE  p.list[i] \in Seq(Slots) /\ Distinct(p.list[i])
<1> DEFINE l == p.list[i]
<1>1. l \in Seq(Slots) /\ p.nStartedHandle \in [Slots -> Nat]
  BY PoolTypes DEF PoolInv
<1>2. Len(l) \in Nat /\ \A a \in 1 .. Len(l) : l[a] \in Slots
  BY <1>1, LenProperties, ElementOfSeq
<1>3. Sorted(p, l)
  BY DEF PoolInv, Queue
<1> HIDE DEF l
<1>4. \A a \in 1 .. Len(l) : p.nStartedHandle[l[a]] \in Nat
  BY <1>1, <1>2
<1>5. Distinct(l)
  BY <1>2, <1>3, <1>4 DEF Sorted, Distinct
<1> QED
  BY <1>1, <1>5 DEF l

-----------------------------------------------------------------------------
(* Jq2IncrementStarted *)

\* What it writes.
LEMMA StartedFields ==
  ASSUME NEW p, PoolInv(p), NEW s \in Slots, Startable(p, s), NEW r, r = IncrementStarted(p, s)
  PROVE  /\ r \in Pools
         /\ r.nNumStarted = [p.nNumStarted EXCEPT ![s] = @ + 1]
         /\ p.nPrio[s] \in Prios
         /\ r.list = IF p.nNumStarted[s] + 1 < p.nNumJobs[s] THEN p.list
                     ELSE [p.list EXCEPT ![p.nPrio[s]] = Unlink(@, s)]
         /\ r.nStartedHandle = p.nStartedHandle /\ r.nFinishedHandle = p.nFinishedHandle
         /\ r.nNumJobs = p.nNumJobs /\ r.num_finished_jobs = p.num_finished_jobs
         /\ r.nParent = p.nParent /\ r.children = p.children /\ r.nPrio = p.nPrio
         /\ r.nWaiters = p.nWaiters /\ r.nFreeJobs = p.nFreeJobs
         /\ r.nNextHandle = p.nNextHandle
<1> DEFINE e == [p EXCEPT !.nNumStarted[s] = @ + 1]
           started == [p.nNumStarted EXCEPT ![s] = @ + 1]
           left == [p.list EXCEPT ![p.nPrio[s]] = Unlink(@, s)]
<1>1. p \in Pools
  BY DEF PoolInv
<1>2. p.nPrio[s] \in Prios
  BY DEF PoolInv, Queue
<1>3. started \in [Slots -> Nat] /\ started[s] = p.nNumStarted[s] + 1
  BY <1>1, PoolTypes
<1>4. left \in [Prios -> Seq(Slots)]
  <2>1. p.list[p.nPrio[s]] \in Seq(Slots) /\ Distinct(p.list[p.nPrio[s]])
    BY <1>2, ListDistinct
  <2>2. Has(p.list[p.nPrio[s]], s)
    BY <1>2 DEF PoolInv, Queue
  <2>3. Unlink(p.list[p.nPrio[s]], s) \in Seq(Slots)
    BY <2>1, <2>2, UnlinkHas
  <2> QED
    BY <1>1, <2>3, PoolTypes
<1>5. e = PoolOf(p.nStartedHandle, p.nFinishedHandle, p.nNumJobs, started,
                 p.num_finished_jobs, p.nParent, p.children, p.nPrio,
                 p.nWaiters, p.list, p.nFreeJobs, p.nNextHandle)
  <2>1. p = PoolOf(p.nStartedHandle, p.nFinishedHandle, p.nNumJobs, p.nNumStarted,
                   p.num_finished_jobs, p.nParent, p.children, p.nPrio,
                   p.nWaiters, p.list, p.nFreeJobs, p.nNextHandle)
    BY <1>1, PoolRecord
  <2> QED
    BY <2>1, StartedRecord
<1>6. r = IF Startable(e, s) THEN e ELSE [e EXCEPT !.list[e.nPrio[s]] = Unlink(e.list[e.nPrio[s]], s)]
  BY DEF IncrementStarted, PriorityListRemove
<1> HIDE DEF e, started
<1>7. /\ Startable(e, s) <=> p.nNumStarted[s] + 1 < p.nNumJobs[s]
      /\ e.nPrio = p.nPrio /\ e.list = p.list
  BY <1>3, <1>5, PoolOfFields DEF Startable
<1>8. r = PoolOf(p.nStartedHandle, p.nFinishedHandle, p.nNumJobs, started,
                 p.num_finished_jobs, p.nParent, p.children, p.nPrio,
                 p.nWaiters, IF Startable(e, s) THEN p.list ELSE left,
                 p.nFreeJobs, p.nNextHandle)
  <2>1. CASE Startable(e, s)
    BY <1>5, <1>6, <2>1
  <2>2. CASE ~Startable(e, s)
    <3> DEFINE i == p.nPrio[s]
               rest == Unlink(p.list[i], s)
    <3>1. r = [e EXCEPT !.list[i] = rest]
      BY <1>6, <1>7, <2>2
    <3>2. left = [p.list EXCEPT ![i] = rest]
      OBVIOUS
    <3> HIDE DEF i, rest, left
    <3>3. r = PoolOf(p.nStartedHandle, p.nFinishedHandle, p.nNumJobs, started,
                     p.num_finished_jobs, p.nParent, p.children, p.nPrio,
                     p.nWaiters, left, p.nFreeJobs, p.nNextHandle)
      BY <1>5, <3>1, <3>2 DEF PoolOf
    <3> QED
      BY <2>2, <3>3
  <2> QED
    BY <2>1, <2>2
<1>9. r \in Pools
  <2> HIDE DEF left
  <2>1. (IF Startable(e, s) THEN p.list ELSE left) \in [Prios -> Seq(Slots)]
    BY <1>1, <1>4, PoolTypes
  <2> DEFINE l == IF Startable(e, s) THEN p.list ELSE left
  <2>2. l \in [Prios -> Seq(Slots)]
    BY <2>1
  <2>3. r = PoolOf(p.nStartedHandle, p.nFinishedHandle, p.nNumJobs, started,
                   p.num_finished_jobs, p.nParent, p.children, p.nPrio,
                   p.nWaiters, l, p.nFreeJobs, p.nNextHandle)
    BY <1>8
  <2> HIDE DEF e, l, started
  <2>4. PoolOf(p.nStartedHandle, p.nFinishedHandle, p.nNumJobs, started,
               p.num_finished_jobs, p.nParent, p.children, p.nPrio,
               p.nWaiters, l, p.nFreeJobs, p.nNextHandle) \in Pools
    <3>1. /\ p.nStartedHandle \in [Slots -> Nat] /\ p.nFinishedHandle \in [Slots -> Nat]
          /\ p.nNumJobs \in [Slots -> Nat] /\ p.num_finished_jobs \in [Slots -> Nat]
          /\ p.nParent \in [Slots -> Slots \cup {0}] /\ p.children \in [Slots -> Seq(Slots)]
          /\ p.nPrio \in [Slots -> Nat] /\ p.nWaiters \in [Slots -> 0 .. 255]
          /\ p.nFreeJobs \in Nat /\ p.nNextHandle \in Nat
      BY <1>1, PoolTypes
    <3> QED
      BY <1>3, <2>2, <3>1, PoolOfInPools
  <2> QED
    BY <2>3, <2>4
<1> QED
  BY <1>2, <1>7, <1>8, <1>9, PoolOfFields DEF started

\* What Jq2IncrementStarted changes and leaves alone besides the lists.
Starts(p, r, s) ==
  /\ r.nNumStarted = [p.nNumStarted EXCEPT ![s] = @ + 1]
  /\ r.nStartedHandle = p.nStartedHandle /\ r.nFinishedHandle = p.nFinishedHandle
  /\ r.nNumJobs = p.nNumJobs /\ r.num_finished_jobs = p.num_finished_jobs
  /\ r.nParent = p.nParent /\ r.nFreeJobs = p.nFreeJobs
  /\ r.nNextHandle = p.nNextHandle

\* Jq2IncrementStarted keeps the invariant; the last sub-job takes the slot
\* out of its list.
LEMMA StartedInv ==
  ASSUME NEW p, PoolInv(p), NEW s \in Slots, Startable(p, s)
  PROVE  PoolInv(IncrementStarted(p, s)) /\ Starts(p, IncrementStarted(p, s), s)
<1> DEFINE r == IncrementStarted(p, s)
           i == p.nPrio[s]
<1>1. /\ r \in Pools
      /\ r.nNumStarted = [p.nNumStarted EXCEPT ![s] = @ + 1]
      /\ i \in Prios
      /\ r.list = IF p.nNumStarted[s] + 1 < p.nNumJobs[s] THEN p.list
                  ELSE [p.list EXCEPT ![i] = Unlink(@, s)]
      /\ r.nStartedHandle = p.nStartedHandle /\ r.nFinishedHandle = p.nFinishedHandle
      /\ r.nNumJobs = p.nNumJobs /\ r.num_finished_jobs = p.num_finished_jobs
      /\ r.nParent = p.nParent /\ r.children = p.children /\ r.nPrio = p.nPrio
      /\ r.nWaiters = p.nWaiters /\ r.nFreeJobs = p.nFreeJobs
      /\ r.nNextHandle = p.nNextHandle
  BY StartedFields
<1>2. /\ p \in Pools /\ p.nNumStarted \in [Slots -> Nat] /\ p.nNumJobs \in [Slots -> Nat]
      /\ p.list \in [Prios -> Seq(Slots)] /\ p.num_finished_jobs \in [Slots -> Nat]
  BY PoolTypes DEF PoolInv
<1> HIDE DEF r, i
<1>3. \A t : PendingJobs(r, t) <=> PendingJobs(p, t)
  BY <1>1 DEF PendingJobs
<1>4. \A t \in Slots : r.nNumStarted[t] = IF t = s THEN p.nNumStarted[t] + 1 ELSE p.nNumStarted[t]
  BY <1>1, <1>2
<1>5. Handles(r)
  BY <1>1 DEF PoolInv, Handles
<1>6. Counts(r)
  <2> SUFFICES ASSUME NEW t \in Slots
               PROVE  /\ p.num_finished_jobs[t] <= r.nNumStarted[t]
                      /\ r.nNumStarted[t] <= p.nNumJobs[t]
    BY <1>1 DEF Counts
  <2> QED
    BY <1>2, <1>4 DEF PoolInv, Counts, Startable
<1>7. PendingIff(r)
  BY <1>1, <1>3 DEF PoolInv, PendingIff
<1>8. Tree(r)
  BY <1>1, <1>3 DEF PoolInv, Tree
<1>9. FreeJobs(r)
  BY <1>1, <1>3 DEF PoolInv, FreeJobs, FreeSlots
<1>10. \A t \in Slots : Startable(r, t) <=> /\ Startable(p, t)
                                            /\ t = s => p.nNumStarted[s] + 1 < p.nNumJobs[s]
  BY <1>1, <1>2, <1>4 DEF Startable
<1>11. Queue(r)
  <2>1. ASSUME NEW t \in Slots, Startable(r, t) PROVE r.nPrio[t] \in Prios
    BY <1>1, <1>10, <2>1 DEF PoolInv, Queue
  <2>2. ASSUME NEW j \in Prios, r.list[j] = p.list[j], j = i => Startable(r, s)
        PROVE  /\ Sorted(r, r.list[j])
               /\ \A c : Has(r.list[j], c) <=> c \in Slots /\ Startable(r, c) /\ r.nPrio[c] = j
    <3>1. Sorted(r, r.list[j])
      BY <1>1, <2>2 DEF PoolInv, Queue, Sorted
    <3>2. ASSUME NEW c
          PROVE  Has(r.list[j], c) <=> c \in Slots /\ Startable(r, c) /\ r.nPrio[c] = j
      <4>1. Has(p.list[j], c) <=> c \in Slots /\ Startable(p, c) /\ p.nPrio[c] = j
        BY DEF PoolInv, Queue
      <4> QED
        BY <1>1, <1>10, <2>2, <4>1 DEF i
    <3> QED
      BY <3>1, <3>2
  <2>3. CASE p.nNumStarted[s] + 1 < p.nNumJobs[s]
    <3>1. r.list = p.list /\ Startable(r, s)
      BY <1>1, <1>10, <2>3
    <3> QED
      BY <2>1, <2>2, <3>1 DEF Queue
  <2>4. CASE ~(p.nNumStarted[s] + 1 < p.nNumJobs[s])
    <3>1. r.list = [p.list EXCEPT ![i] = Unlink(@, s)] /\ ~Startable(r, s)
      BY <1>1, <1>10, <2>4
    <3>2. \A j \in Prios : j # i => r.list[j] = p.list[j]
      BY <1>2, <3>1
    <3>3. r.list[i] = Unlink(p.list[i], s)
      BY <1>1, <1>2, <3>1
    <3> DEFINE l == p.list[i]
    <3>4. l \in Seq(Slots) /\ Distinct(l)
      BY <1>1, ListDistinct
    <3>5. /\ Sorted(p, l)
          /\ \A c : Has(l, c) <=> c \in Slots /\ Startable(p, c) /\ p.nPrio[c] = i
      BY <1>1 DEF PoolInv, Queue
    <3>6. Has(l, s)
      BY <3>5 DEF i
    <3> HIDE DEF l
    <3>7. \A c : Has(Unlink(l, s), c) <=> Has(l, c) /\ c # s
      BY <3>4, <3>6, UnlinkHas
    <3>8. PICK k \in 1 .. Len(l) : l[k] = s
      BY <3>6 DEF Has
    <3>9. /\ Len(l) \in Nat /\ Len(Unlink(l, s)) = Len(l) - 1
          /\ \A a \in 1 .. Len(l) - 1 : Unlink(l, s)[a] = IF a < k THEN l[a] ELSE l[a + 1]
      <4>1. Len(l) \in Nat
        BY <3>4, LenProperties
      <4> QED
        BY <3>4, <3>8, <4>1, UnlinkFacts
    <3>10. Sorted(r, Unlink(l, s))
      <4> SUFFICES ASSUME NEW a \in 1 .. Len(l) - 1, NEW b \in 1 .. Len(l) - 1, a < b
                   PROVE  p.nStartedHandle[Unlink(l, s)[a]] < p.nStartedHandle[Unlink(l, s)[b]]
        BY <1>1, <3>9 DEF Sorted
      <4> DEFINE x == IF a < k THEN a ELSE a + 1
                 y == IF b < k THEN b ELSE b + 1
      <4>1. x \in 1 .. Len(l) /\ y \in 1 .. Len(l) /\ x < y
        BY <3>9
      <4>2. Unlink(l, s)[a] = l[x] /\ Unlink(l, s)[b] = l[y]
        BY <3>9
      <4> HIDE DEF x, y
      <4> QED
        BY <3>5, <4>1, <4>2 DEF Sorted
    <3>11. \A c : Has(r.list[i], c) <=> c \in Slots /\ Startable(r, c) /\ r.nPrio[c] = i
      BY <1>1, <1>10, <3>1, <3>3, <3>5, <3>7 DEF l
    <3>12. Sorted(r, r.list[i])
      BY <3>3, <3>10 DEF l
    <3> QED
      BY <2>1, <2>2, <3>2, <3>11, <3>12 DEF Queue
  <2> QED
    BY <2>3, <2>4
<1> QED
  <2>1. PoolInv(r)
    BY <1>1, <1>5, <1>6, <1>7, <1>8, <1>9, <1>11 DEF PoolInv
  <2>2. Starts(p, r, s)
    BY <1>1 DEF Starts
  <2> QED
    BY <2>1, <2>2 DEF r

-----------------------------------------------------------------------------
(* Jq2FindHandle and its callers *)

\* nFreeJobs is not zero exactly when a slot is free; the search then finds
\* a handle of a free slot within one round.
LEMMA FreeHandleFacts ==
  ASSUME NEW p, PoolInv(p), p.nFreeJobs > 0
  PROVE  /\ FreeHandle(p) \in Nat
         /\ FreeHandle(p) >= p.nNextHandle
         /\ FreeHandle(p) <= p.nNextHandle + MaxJobs - 1
         /\ SlotOf(FreeHandle(p)) \in Slots
         /\ ~PendingJobs(p, SlotOf(FreeHandle(p)))
         /\ NextHandle(FreeHandle(p)) <= p.nNextHandle + MaxJobs
<1> DEFINE n == p.nNextHandle
           F == {h \in n .. n + 2 * MaxJobs : h % MaxJobs # 0 /\ ~PendingJobs(p, SlotOf(h))}
<1>1. n \in Nat /\ n % MaxJobs # 0
  BY PoolTypes DEF PoolInv, Handles
<1>2. PICK s \in Slots : ~PendingJobs(p, s)
  <2>1. FreeSlots(p) # {}
    <3>1. Cardinality(FreeSlots(p)) # 0
      BY DEF PoolInv, FreeJobs
    <3> QED
      BY <3>1, FS_EmptySet
  <2> QED
    BY <2>1 DEF FreeSlots
<1>3. PICK g \in n .. n + MaxJobs - 1 : SlotOf(g) = s
  BY <1>1, HandleInRound
<1> HIDE DEF n
<1>4. g \in F
  BY <1>1, <1>2, <1>3, MaxJobsAssumption DEF SlotOf, Slots
<1>5. F \in SUBSET Nat
  BY <1>1, MaxJobsAssumption
<1>6. Min(F) \in F /\ Min(F) <= g
  BY <1>4, <1>5, LeastNatural
<1>7. FreeHandle(p) = Min(F)
  BY DEF FreeHandle, n
<1> DEFINE h == FreeHandle(p)
<1>8. h \in F /\ h <= g
  BY <1>6, <1>7
<1> HIDE DEF h
<1>9. h \in Nat /\ h >= n /\ h <= n + MaxJobs - 1
  BY <1>1, <1>3, <1>8, MaxJobsAssumption
<1>10. SlotOf(h) \in Slots /\ ~PendingJobs(p, SlotOf(h))
  BY <1>8, <1>9, SlotOfHandle DEF SlotOf
<1>11. NextHandle(h) <= n + MaxJobs
  <2>1. h \in n .. n + MaxJobs - 1
    BY <1>1, <1>9, MaxJobsAssumption
  <2> QED
    BY <1>1, <2>1, NextHandleInRound
<1> QED
  BY <1>9, <1>10, <1>11 DEF h, n

\* r is p with a new job in slot s.
Allocated(p, r, h, s, n, k, prio, par) ==
  /\ r \in Pools
  /\ r.nStartedHandle = [p.nStartedHandle EXCEPT ![s] = h]
  /\ r.nFinishedHandle = p.nFinishedHandle
  /\ r.nNumJobs = [p.nNumJobs EXCEPT ![s] = n]
  /\ r.nNumStarted = [p.nNumStarted EXCEPT ![s] = k]
  /\ r.num_finished_jobs = [p.num_finished_jobs EXCEPT ![s] = 0]
  /\ r.nParent = [p.nParent EXCEPT ![s] = par]
  /\ r.children = IF par = 0 THEN p.children
                  ELSE [p.children EXCEPT ![par] = <<s>> \o @]
  /\ r.nPrio = [p.nPrio EXCEPT ![s] = prio]
  /\ r.nWaiters = [p.nWaiters EXCEPT ![s] = 0]
  /\ r.list = p.list
  /\ r.nFreeJobs = p.nFreeJobs - 1
  /\ r.nNextHandle = NextHandle(h)

\* What the assignments write.
LEMMA AllocateFields ==
  ASSUME NEW p \in Pools, p.nFreeJobs > 0, NEW h \in Nat, NEW s \in Slots, s = SlotOf(h),
         NEW n \in Nat, NEW k \in Nat, NEW prio \in Nat, NEW par \in Slots \cup {0}
  PROVE  Allocated(p, Allocate(p, h, n, k, prio, par), h, s, n, k, prio, par)
<1> DEFINE a == [p.nStartedHandle EXCEPT ![s] = h]
           b == p.nFinishedHandle
           c == [p.nNumJobs EXCEPT ![s] = n]
           d == [p.nNumStarted EXCEPT ![s] = k]
           e == [p.num_finished_jobs EXCEPT ![s] = 0]
           f == [p.nParent EXCEPT ![s] = par]
           g == IF par = 0 THEN p.children ELSE [p.children EXCEPT ![par] = <<s>> \o @]
           i == [p.nPrio EXCEPT ![s] = prio]
           j == [p.nWaiters EXCEPT ![s] = 0]
           new == FillSlot(p, h, n, k, prio, par)
           r == Allocate(p, h, n, k, prio, par)
<1>1. r = IF par = 0 THEN new ELSE [new EXCEPT !.children[par] = <<s>> \o new.children[par]]
  BY DEF Allocate, AttachChild
<1>2. new = PoolOf(a, b, c, d, e, f, p.children, i, j, p.list, p.nFreeJobs - 1, NextHandle(h))
  BY FillSlotRecord
<1>3. /\ a \in [Slots -> Nat] /\ b \in [Slots -> Nat] /\ c \in [Slots -> Nat]
      /\ d \in [Slots -> Nat] /\ e \in [Slots -> Nat] /\ f \in [Slots -> Slots \cup {0}]
      /\ i \in [Slots -> Nat] /\ j \in [Slots -> 0 .. 255]
  <2>1. /\ a \in [Slots -> Nat] /\ b \in [Slots -> Nat] /\ c \in [Slots -> Nat]
        /\ d \in [Slots -> Nat]
    BY PoolTypes
  <2>2. /\ e \in [Slots -> Nat] /\ f \in [Slots -> Slots \cup {0}]
        /\ i \in [Slots -> Nat]
    BY PoolTypes
  <2>3. p.nWaiters \in [Slots -> 0 .. 255]
    BY PoolTypes
  <2>4. j \in [Slots -> 0 .. 255]
    BY <2>3
  <2> QED
    BY <2>1, <2>2, <2>4
<1>4. g \in [Slots -> Seq(Slots)]
  <2>1. ASSUME par # 0 PROVE <<s>> \o p.children[par] \in Seq(Slots)
    BY <2>1, PoolTypes, PrependHas
  <2> QED
    BY <2>1, PoolTypes
<1>5. /\ p.nFreeJobs - 1 \in Nat /\ NextHandle(h) \in Nat /\ p.list \in [Prios -> Seq(Slots)]
  <2>1. p.nFreeJobs \in Nat /\ p.list \in [Prios -> Seq(Slots)]
    BY PoolTypes
  <2> QED
    <3>1. p.nFreeJobs - 1 \in Nat
      BY <2>1
    <3> QED
      BY <2>1, <3>1, NextHandleFacts
<1>6. r = PoolOf(a, b, c, d, e, f, g, i, j, p.list, p.nFreeJobs - 1, NextHandle(h))
  <2>1. CASE par = 0
    BY <1>1, <1>2, <2>1
  <2>2. CASE par # 0
    <3> DEFINE row == <<s>> \o p.children[par]
    <3> HIDE DEF new, a, b, c, d, e, f, i, j
    <3>1. new.children = p.children
      BY <1>2, PoolOfFields
    <3>2. r = [new EXCEPT !.children[par] = row]
      BY <1>1, <2>2, <3>1
    <3>3. g = [p.children EXCEPT ![par] = row]
      BY <2>2
    <3> HIDE DEF row, g
    <3> QED
      BY <1>2, <3>2, <3>3 DEF PoolOf
  <2> QED
    BY <2>1, <2>2
<1>7. r \in Pools
  <2> DEFINE free == p.nFreeJobs - 1
             next == NextHandle(h)
             list == p.list
  <2> HIDE DEF a, b, c, d, e, f, g, i, j, free, next, list
  <2>1. free \in Nat /\ next \in Nat /\ list \in [Prios -> Seq(Slots)]
    BY <1>5 DEF free, next, list
  <2>2. r = PoolOf(a, b, c, d, e, f, g, i, j, list, free, next)
    BY <1>6 DEF free, next, list
  <2>3. PoolOf(a, b, c, d, e, f, g, i, j, list, free, next) \in Pools
    BY <1>3, <1>4, <2>1, PoolOfInPools, Zenon
  <2> QED
    BY <2>2, <2>3
<1> QED
  <2> HIDE DEF a, b, c, d, e, f, g, i, j, r
  <2>1. /\ r.nStartedHandle = a /\ r.nFinishedHandle = b /\ r.nNumJobs = c
        /\ r.nNumStarted = d /\ r.num_finished_jobs = e /\ r.nParent = f
        /\ r.children = g /\ r.nPrio = i /\ r.nWaiters = j /\ r.list = p.list
        /\ r.nFreeJobs = p.nFreeJobs - 1 /\ r.nNextHandle = NextHandle(h)
    BY <1>6, PoolOfFields
  <2>2. r \in Pools
    BY <1>7
  <2>3. Allocated(p, r, h, s, n, k, prio, par)
    BY <2>1, <2>2 DEF a, b, c, d, e, f, g, i, j, Allocated
  <2> QED
    BY <2>3 DEF r

\* A new job: everything of the invariant but the priority lists.
LEMMA AllocateInv ==
  ASSUME NEW p, PoolInv(p), p.nFreeJobs > 0, NEW h \in Nat, NEW s \in Slots, s = SlotOf(h),
         h >= p.nNextHandle, ~PendingJobs(p, s),
         NEW n \in Nat, n > 0, NEW k \in Nat, k <= n, NEW prio \in Nat,
         NEW par \in Slots \cup {0}, par # 0 => PendingJobs(p, par),
         NEW r, r = Allocate(p, h, n, k, prio, par)
  PROVE  /\ r \in Pools
         /\ Handles(r) /\ Counts(r) /\ PendingIff(r) /\ Tree(r) /\ FreeJobs(r)
         /\ \A t \in Slots : PendingJobs(r, t) <=> PendingJobs(p, t) \/ t = s
         /\ \A t \in Slots \ {s} : /\ Startable(r, t) <=> Startable(p, t)
                                   /\ r.nPrio[t] = p.nPrio[t]
         /\ Startable(r, s) <=> k < n
         /\ r.nPrio[s] = prio /\ r.list = p.list
         /\ ~Startable(p, s) /\ p.nStartedHandle[s] < h
         /\ r.nStartedHandle = [p.nStartedHandle EXCEPT ![s] = h]
<1>1. /\ r \in Pools
      /\ r.nStartedHandle = [p.nStartedHandle EXCEPT ![s] = h]
      /\ r.nFinishedHandle = p.nFinishedHandle
      /\ r.nNumJobs = [p.nNumJobs EXCEPT ![s] = n]
      /\ r.nNumStarted = [p.nNumStarted EXCEPT ![s] = k]
      /\ r.num_finished_jobs = [p.num_finished_jobs EXCEPT ![s] = 0]
      /\ r.nParent = [p.nParent EXCEPT ![s] = par]
      /\ r.children = IF par = 0 THEN p.children
                      ELSE [p.children EXCEPT ![par] = <<s>> \o @]
      /\ r.nPrio = [p.nPrio EXCEPT ![s] = prio]
      /\ r.list = p.list
      /\ r.nFreeJobs = p.nFreeJobs - 1
      /\ r.nNextHandle = NextHandle(h)
  <2>1. p \in Pools
    BY DEF PoolInv
  <2>2. Allocated(p, r, h, s, n, k, prio, par)
    BY <2>1, AllocateFields
  <2> QED
    BY <2>2 DEF Allocated
<1>2. /\ p.nStartedHandle \in [Slots -> Nat] /\ p.nFinishedHandle \in [Slots -> Nat]
      /\ p.nNumJobs \in [Slots -> Nat] /\ p.nNumStarted \in [Slots -> Nat]
      /\ p.num_finished_jobs \in [Slots -> Nat]
      /\ p.nParent \in [Slots -> Slots \cup {0}] /\ p.children \in [Slots -> Seq(Slots)]
      /\ p.nPrio \in [Slots -> Nat] /\ p.nNextHandle \in Nat
  BY PoolTypes DEF PoolInv
<1>3. /\ r.nStartedHandle[s] = h /\ r.nNumJobs[s] = n /\ r.nNumStarted[s] = k
      /\ r.num_finished_jobs[s] = 0 /\ r.nParent[s] = par /\ r.nPrio[s] = prio
  BY <1>1, <1>2
<1>4. ASSUME NEW t \in Slots \ {s}
      PROVE  /\ r.nStartedHandle[t] = p.nStartedHandle[t] /\ r.nNumJobs[t] = p.nNumJobs[t]
             /\ r.nNumStarted[t] = p.nNumStarted[t]
             /\ r.num_finished_jobs[t] = p.num_finished_jobs[t]
             /\ r.nParent[t] = p.nParent[t] /\ r.nPrio[t] = p.nPrio[t]
  BY <1>1, <1>2
<1>5. /\ p.nFinishedHandle[s] <= p.nStartedHandle[s] /\ p.nStartedHandle[s] < p.nNextHandle
      /\ p.nStartedHandle[s] < h /\ p.nFinishedHandle[s] < h
  <2>1. /\ p.nFinishedHandle[s] \in Nat /\ p.nStartedHandle[s] \in Nat
        /\ p.nFinishedHandle[s] <= p.nStartedHandle[s] /\ p.nStartedHandle[s] < p.nNextHandle
    BY <1>2 DEF PoolInv, Handles
  <2> QED
    BY <1>2, <2>1
<1>6. PendingJobs(r, s)
  BY <1>1, <1>2, <1>3, <1>5 DEF PendingJobs
<1>7. \A t \in Slots : PendingJobs(r, t) <=> PendingJobs(p, t) \/ t = s
  BY <1>1, <1>4, <1>6 DEF PendingJobs
<1>8. ~Startable(p, s)
  BY BusyIsPending
<1>9. \A t \in Slots \ {s} : Startable(r, t) <=> Startable(p, t)
  BY <1>4 DEF Startable
<1>10. Startable(r, s) <=> k < n
  BY <1>3 DEF Startable
<1>11. Handles(r)
  <2>1. NextHandle(h) \in Nat /\ NextHandle(h) > h /\ NextHandle(h) % MaxJobs # 0
    BY NextHandleFacts
  <2>2. ASSUME NEW t \in Slots
        PROVE  /\ r.nFinishedHandle[t] <= r.nStartedHandle[t]
               /\ r.nStartedHandle[t] < r.nNextHandle
               /\ r.nStartedHandle[t] # 0 => SlotOf(r.nStartedHandle[t]) = t
    <3>1. CASE t = s
      <4>1. /\ r.nFinishedHandle[s] = p.nFinishedHandle[s] /\ r.nStartedHandle[s] = h
            /\ r.nNextHandle = NextHandle(h) /\ p.nFinishedHandle[s] \in Nat
        BY <1>1, <1>2, <1>3
      <4> QED
        BY <1>5, <2>1, <3>1, <4>1
    <3>2. CASE t # s
      <4>1. /\ p.nFinishedHandle[t] <= p.nStartedHandle[t]
            /\ p.nStartedHandle[t] < p.nNextHandle
            /\ p.nStartedHandle[t] # 0 => SlotOf(p.nStartedHandle[t]) = t
        BY DEF PoolInv, Handles
      <4>2. p.nStartedHandle[t] \in Nat /\ p.nNextHandle \in Nat
        BY <1>2
      <4>3. /\ r.nFinishedHandle[t] = p.nFinishedHandle[t]
            /\ r.nStartedHandle[t] = p.nStartedHandle[t] /\ r.nNextHandle = NextHandle(h)
        BY <1>1, <1>4, <3>2
      <4>4. p.nStartedHandle[t] < NextHandle(h)
        BY <2>1, <4>1, <4>2
      <4> QED
        BY <4>1, <4>3, <4>4
    <3> QED
      BY <3>1, <3>2
  <2> QED
    BY <1>1, <2>1, <2>2 DEF Handles
<1>12. Counts(r)
  BY <1>3, <1>4 DEF PoolInv, Counts
<1>13. \A c \in Slots : ~Has(p.children[s], c)
  BY DEF PoolInv, PendingIff
<1>14. \A t \in Slots : /\ p.children[t] \in Seq(Slots) /\ Distinct(p.children[t])
                        /\ \A c : Has(p.children[t], c) <=> /\ c \in Slots /\ PendingJobs(p, c)
                                                            /\ p.nParent[c] = t
  BY <1>2 DEF PoolInv, Tree
<1>15. par # s /\ 0 \notin Slots
  BY DEF Slots
<1>16. ASSUME NEW t \in Slots
       PROVE  /\ Distinct(r.children[t])
              /\ \A c : Has(r.children[t], c) <=> Has(p.children[t], c) \/ (c = s /\ t = par)
  <2>1. CASE t # par
    <3>1. r.children[t] = p.children[t]
      BY <1>1, <1>2, <2>1
    <3> QED
      BY <1>14, <2>1, <3>1
  <2>2. CASE t = par
    <3>1. r.children[t] = <<s>> \o p.children[t]
      <4>1. par # 0 /\ r.children = [p.children EXCEPT ![par] = <<s>> \o @]
        BY <1>1, <1>15, <2>2
      <4> QED
        BY <1>2, <2>2, <4>1
    <3>2. p.children[t] \in Seq(Slots) /\ Distinct(p.children[t]) /\ ~Has(p.children[t], s)
      BY <1>14
    <3> QED
      BY <2>2, <3>1, <3>2, PrependHas
  <2> QED
    BY <2>1, <2>2
<1>17. Tree(r)
  <2>1. ASSUME NEW t \in Slots, NEW c
        PROVE  Has(r.children[t], c) <=> c \in Slots /\ PendingJobs(r, c) /\ r.nParent[c] = t
    <3>1. CASE c = s
      BY <1>3, <1>6, <1>14, <1>16, <3>1
    <3>2. CASE c # s
      <4>1. Has(r.children[t], c) <=> c \in Slots /\ PendingJobs(p, c) /\ p.nParent[c] = t
        BY <1>14, <1>16, <3>2
      <4>2. c \in Slots => /\ r.nParent[c] = p.nParent[c]
                           /\ PendingJobs(r, c) <=> PendingJobs(p, c)
        BY <1>4, <1>7, <3>2
      <4> QED
        BY <4>1, <4>2
    <3> QED
      BY <3>1, <3>2
  <2> QED
    BY <1>16, <2>1 DEF Tree
<1>18. PendingIff(r)
  <2> SUFFICES ASSUME NEW t \in Slots
               PROVE  PendingJobs(r, t) <=> \/ r.num_finished_jobs[t] < r.nNumJobs[t]
                                            \/ \E c \in Slots : Has(r.children[t], c)
    BY DEF PendingIff
  <2>1. CASE t = s
    BY <1>3, <1>6, <2>1
  <2>2. CASE t = par
    <3>1. PendingJobs(p, t) /\ Has(r.children[t], s)
      BY <1>15, <1>16, <2>2
    <3> QED
      BY <1>7, <3>1
  <2>3. CASE t # s /\ t # par
    <3>1. \A c \in Slots : Has(r.children[t], c) <=> Has(p.children[t], c)
      BY <1>16, <2>3
    <3> QED
      BY <1>4, <1>7, <2>3, <3>1 DEF PoolInv, PendingIff
  <2> QED
    BY <2>1, <2>2, <2>3
<1>19. FreeJobs(r)
  <2>1. FreeSlots(r) = FreeSlots(p) \ {s}
    BY <1>7 DEF FreeSlots
  <2>2. s \in FreeSlots(p) /\ FreeSlots(p) \subseteq Slots
    BY DEF FreeSlots
  <2>3. IsFiniteSet(FreeSlots(p))
    BY <2>2, SlotsFinite
  <2>4. Cardinality(FreeSlots(p) \ {s}) = Cardinality(FreeSlots(p)) - 1
    BY <2>2, <2>3, FS_RemoveElement
  <2> QED
    BY <1>1, <2>1, <2>4 DEF FreeJobs, PoolInv
<1> QED
  BY <1>1, <1>3, <1>4, <1>5, <1>7, <1>8, <1>9, <1>10, <1>11, <1>12, <1>17, <1>18, <1>19

\* What the rest of the queue sees of a new job.
Issues(p, r, h, s, n, k, par) ==
  /\ r.nStartedHandle = [p.nStartedHandle EXCEPT ![s] = h]
  /\ r.nFinishedHandle = p.nFinishedHandle
  /\ r.nNumJobs = [p.nNumJobs EXCEPT ![s] = n]
  /\ r.nNumStarted = [p.nNumStarted EXCEPT ![s] = k]
  /\ r.num_finished_jobs = [p.num_finished_jobs EXCEPT ![s] = 0]
  /\ r.nParent = [p.nParent EXCEPT ![s] = par]
  /\ r.nFreeJobs = p.nFreeJobs - 1
  /\ r.nNextHandle = NextHandle(h)

\* A group keeps the invariant: its sub-job is started, so it is in no list.
LEMMA AddGroupInv ==
  ASSUME NEW p, PoolInv(p), p.nFreeJobs > 0, NEW h \in Nat, NEW s \in Slots, s = SlotOf(h),
         h >= p.nNextHandle, ~PendingJobs(p, s),
         NEW par \in Slots \cup {0}, par # 0 => PendingJobs(p, par)
  PROVE  PoolInv(AddGroup(p, h, par)) /\ Issues(p, AddGroup(p, h, par), h, s, 1, 1, par)
<1> DEFINE r == AddGroup(p, h, par)
<1>1. r = Allocate(p, h, 1, 1, GroupPrio, par) /\ 1 \in Nat /\ 1 > 0 /\ 1 <= 1 /\ GroupPrio \in Nat
  BY DEF AddGroup, GroupPrio
<1> HIDE DEF r
<1>2. /\ r \in Pools
      /\ Handles(r) /\ Counts(r) /\ PendingIff(r) /\ Tree(r) /\ FreeJobs(r)
      /\ \A t \in Slots \ {s} : /\ Startable(r, t) <=> Startable(p, t)
                                /\ r.nPrio[t] = p.nPrio[t]
      /\ Startable(r, s) <=> 1 < 1
      /\ r.list = p.list
      /\ ~Startable(p, s) /\ p.nStartedHandle[s] < h
      /\ r.nStartedHandle = [p.nStartedHandle EXCEPT ![s] = h]
  BY <1>1, AllocateInv
<1>3. ASSUME NEW i \in Prios
      PROVE  /\ Sorted(r, r.list[i])
             /\ \A c : Has(r.list[i], c) <=> c \in Slots /\ Startable(r, c) /\ r.nPrio[c] = i
  <2>1. /\ Sorted(p, p.list[i])
        /\ \A c : Has(p.list[i], c) <=> c \in Slots /\ Startable(p, c) /\ p.nPrio[c] = i
    BY DEF PoolInv, Queue
  <2>2. ASSUME NEW a \in 1 .. Len(p.list[i])
        PROVE  r.nStartedHandle[p.list[i][a]] = p.nStartedHandle[p.list[i][a]]
    <3>1. p.list[i][a] # s
      BY <1>2, <2>1 DEF Has
    <3>2. p.nStartedHandle \in [Slots -> Nat]
      BY PoolTypes DEF PoolInv
    <3> QED
      BY <1>2, <3>1, <3>2
  <2>3. Sorted(r, r.list[i])
    BY <1>2, <2>1, <2>2 DEF Sorted
  <2>4. ASSUME NEW c
        PROVE  Has(p.list[i], c) <=> c \in Slots /\ Startable(r, c) /\ r.nPrio[c] = i
    <3>1. CASE c = s
      BY <1>2, <2>1, <3>1
    <3>2. CASE c # s
      BY <1>2, <2>1, <3>2
    <3> QED
      BY <3>1, <3>2
  <2> QED
    BY <1>2, <2>3, <2>4
<1>4. ASSUME NEW t \in Slots, Startable(r, t) PROVE r.nPrio[t] \in Prios
  <2>1. t # s
    BY <1>2, <1>4
  <2> QED
    BY <1>2, <1>4, <2>1 DEF PoolInv, Queue
<1> QED
  <2>1. PoolInv(r)
    BY <1>2, <1>3, <1>4 DEF PoolInv, Queue
  <2>2. Issues(p, r, h, s, 1, 1, par)
    <3>1. p \in Pools
      BY DEF PoolInv
    <3>2. Allocated(p, r, h, s, 1, 1, GroupPrio, par)
      BY <1>1, <3>1, AllocateFields
    <3> QED
      BY <3>2 DEF Issues, Allocated
  <2> QED
    BY <2>1, <2>2 DEF r

\* A job keeps the invariant: it is the newest, so it goes to the end of its list.
LEMMA AddJobInv ==
  ASSUME NEW p, PoolInv(p), p.nFreeJobs > 0, NEW h \in Nat, NEW s \in Slots, s = SlotOf(h),
         h >= p.nNextHandle, ~PendingJobs(p, s),
         NEW n \in Nat, n > 0, NEW prio \in Prios,
         NEW par \in Slots \cup {0}, par # 0 => PendingJobs(p, par)
  PROVE  /\ PoolInv(AddJob(p, h, n, prio, par))
         /\ Issues(p, AddJob(p, h, n, prio, par), h, s, n, 0, par)
<1> DEFINE m == Allocate(p, h, n, 0, prio, par)
           r == AddJob(p, h, n, prio, par)
           l == [p.list EXCEPT ![prio] = Append(@, s)]
<1>1. 0 \in Nat /\ 0 <= n /\ prio \in Nat
  BY NumPriosAssumption DEF Prios
<1>2. /\ m \in Pools
      /\ Handles(m) /\ Counts(m) /\ PendingIff(m) /\ Tree(m) /\ FreeJobs(m)
      /\ \A t \in Slots : PendingJobs(m, t) <=> PendingJobs(p, t) \/ t = s
      /\ \A t \in Slots \ {s} : /\ Startable(m, t) <=> Startable(p, t)
                                /\ m.nPrio[t] = p.nPrio[t]
      /\ Startable(m, s) <=> 0 < n
      /\ m.nPrio[s] = prio /\ m.list = p.list
      /\ ~Startable(p, s) /\ p.nStartedHandle[s] < h
      /\ m.nStartedHandle = [p.nStartedHandle EXCEPT ![s] = h]
  <2> HIDE DEF m
  <2>1. m = Allocate(p, h, n, 0, prio, par)
    BY DEF m
  <2> QED
    BY <1>1, <2>1, AllocateInv
<1>3. r = [m EXCEPT !.list[m.nPrio[s]] = Append(m.list[m.nPrio[s]], s)]
  BY DEF AddJob, PriorityListAdd
<1> HIDE DEF m, r
<1>4. r = [m EXCEPT !.list[prio] = Append(m.list[prio], s)]
  BY <1>2, <1>3
<1>5. l \in [Prios -> Seq(Slots)] /\ p.list \in [Prios -> Seq(Slots)]
  BY PoolTypes, AppendHas DEF PoolInv
<1>6. r = PoolOf(m.nStartedHandle, m.nFinishedHandle, m.nNumJobs, m.nNumStarted,
                 m.num_finished_jobs, m.nParent, m.children, m.nPrio,
                 m.nWaiters, l, m.nFreeJobs, m.nNextHandle)
  <2>1. m = PoolOf(m.nStartedHandle, m.nFinishedHandle, m.nNumJobs, m.nNumStarted,
                   m.num_finished_jobs, m.nParent, m.children, m.nPrio,
                   m.nWaiters, p.list, m.nFreeJobs, m.nNextHandle)
    BY <1>2, PoolRecord
  <2> DEFINE row == Append(p.list[prio], s)
  <2>2. r = [m EXCEPT !.list[prio] = row] /\ l = [p.list EXCEPT ![prio] = row]
    BY <1>2, <1>4
  <2> HIDE DEF row, l
  <2> QED
    BY <2>1, <2>2 DEF PoolOf
<1>7. r \in Pools
  <2> HIDE DEF l
  <2>1. PoolOf(m.nStartedHandle, m.nFinishedHandle, m.nNumJobs, m.nNumStarted,
               m.num_finished_jobs, m.nParent, m.children, m.nPrio,
               m.nWaiters, l, m.nFreeJobs, m.nNextHandle) \in Pools
    BY <1>2, <1>5, PoolTypes, PoolOfInPools, Zenon
  <2> QED
    BY <1>6, <2>1
<1>8. /\ r.nStartedHandle = m.nStartedHandle /\ r.nFinishedHandle = m.nFinishedHandle
      /\ r.nNumJobs = m.nNumJobs /\ r.nNumStarted = m.nNumStarted
      /\ r.num_finished_jobs = m.num_finished_jobs /\ r.nParent = m.nParent
      /\ r.children = m.children /\ r.nPrio = m.nPrio /\ r.list = l
      /\ r.nFreeJobs = m.nFreeJobs /\ r.nNextHandle = m.nNextHandle
  <2> HIDE DEF l
  <2> QED
    BY <1>6, PoolOfFields
<1>9. \A t : /\ PendingJobs(r, t) <=> PendingJobs(m, t)
             /\ Startable(r, t) <=> Startable(m, t)
  BY <1>8 DEF PendingJobs, Startable
<1>10. Handles(r) /\ Counts(r)
  BY <1>2, <1>8 DEF Handles, Counts
<1>11. PendingIff(r) /\ Tree(r)
  BY <1>2, <1>8, <1>9 DEF PendingIff, Tree
<1>12. FreeJobs(r)
  BY <1>2, <1>8, <1>9 DEF FreeJobs, FreeSlots
<1>13. ASSUME NEW i \in Prios
       PROVE  /\ Sorted(r, r.list[i])
              /\ \A c : Has(r.list[i], c) <=> c \in Slots /\ Startable(r, c) /\ r.nPrio[c] = i
  <2> DEFINE old == p.list[i]
  <2>1. /\ Sorted(p, old) /\ old \in Seq(Slots)
        /\ \A c : Has(old, c) <=> c \in Slots /\ Startable(p, c) /\ p.nPrio[c] = i
    BY <1>5 DEF PoolInv, Queue
  <2>2. p.nStartedHandle \in [Slots -> Nat] /\ p.nNextHandle \in Nat
    BY PoolTypes DEF PoolInv
  <2> HIDE DEF old
  <2>3. ASSUME NEW a \in 1 .. Len(old)
        PROVE  /\ r.nStartedHandle[old[a]] = p.nStartedHandle[old[a]]
               /\ r.nStartedHandle[old[a]] < h
    <3>1. old[a] \in Slots /\ old[a] # s
      BY <1>2, <2>1 DEF Has
    <3>2. p.nStartedHandle[old[a]] < p.nNextHandle
      BY <3>1 DEF PoolInv, Handles
    <3>3. r.nStartedHandle[old[a]] = p.nStartedHandle[old[a]]
      BY <1>2, <1>8, <2>2, <3>1
    <3>4. p.nStartedHandle[old[a]] \in Nat
      BY <2>2, <3>1
    <3> QED
      BY <2>2, <3>2, <3>3, <3>4
  <2>4. Sorted(r, old)
    BY <2>1, <2>3 DEF Sorted
  <2>5. r.nStartedHandle[s] = h
    BY <1>2, <1>8, <2>2
  <2>6. /\ \A c \in Slots \ {s} : /\ Startable(r, c) <=> Startable(p, c)
                                  /\ r.nPrio[c] = p.nPrio[c]
        /\ Startable(r, s) /\ r.nPrio[s] = prio /\ ~Has(old, s)
    BY <1>2, <1>8, <1>9, <2>1
  <2>7. CASE i # prio
    <3>1. r.list[i] = old
      BY <1>5, <1>8, <2>7 DEF old
    <3>2. ASSUME NEW c
          PROVE  Has(old, c) <=> c \in Slots /\ Startable(r, c) /\ r.nPrio[c] = i
      <4>1. CASE c = s
        BY <2>6, <2>7, <4>1
      <4>2. CASE c # s
        BY <2>1, <2>6, <4>2
      <4> QED
        BY <4>1, <4>2
    <3> QED
      BY <2>4, <3>1, <3>2
  <2>8. CASE i = prio
    <3>1. r.list[i] = Append(old, s)
      BY <1>5, <1>8, <2>8 DEF old
    <3> DEFINE new == Append(old, s)
    <3>2. /\ Len(new) = Len(old) + 1 /\ Len(old) \in Nat
          /\ \A a \in 1 .. Len(old) : new[a] = old[a]
          /\ new[Len(old) + 1] = s
          /\ \A c : Has(new, c) <=> Has(old, c) \/ c = s
      BY <2>1, AppendHas, LenProperties
    <3> HIDE DEF new
    <3>3. Sorted(r, new)
      <4> SUFFICES ASSUME NEW a \in 1 .. Len(old) + 1, NEW b \in 1 .. Len(old) + 1, a < b
                   PROVE  r.nStartedHandle[new[a]] < r.nStartedHandle[new[b]]
        BY <3>2 DEF Sorted
      <4>1. a \in 1 .. Len(old)
        BY <3>2
      <4>2. CASE b \in 1 .. Len(old)
        BY <2>4, <3>2, <4>1, <4>2 DEF Sorted
      <4>3. CASE b = Len(old) + 1
        BY <2>3, <2>5, <3>2, <4>1, <4>3
      <4> QED
        BY <3>2, <4>2, <4>3
    <3>4. ASSUME NEW c
          PROVE  Has(new, c) <=> c \in Slots /\ Startable(r, c) /\ r.nPrio[c] = i
      <4>1. CASE c = s
        BY <2>6, <2>8, <3>2, <4>1
      <4>2. CASE c # s
        BY <2>1, <2>6, <3>2, <4>2
      <4> QED
        BY <4>1, <4>2
    <3> QED
      BY <3>1, <3>3, <3>4 DEF new
  <2> QED
    BY <2>7, <2>8
<1>14. ASSUME NEW t \in Slots, Startable(r, t) PROVE r.nPrio[t] \in Prios
  <2>1. CASE t = s
    BY <1>2, <1>8, <2>1
  <2>2. CASE t # s
    BY <1>2, <1>8, <1>9, <1>14, <2>2 DEF PoolInv, Queue
  <2> QED
    BY <2>1, <2>2
<1>15. PoolInv(r)
  BY <1>7, <1>10, <1>11, <1>12, <1>13, <1>14 DEF PoolInv, Queue
<1>16. Issues(p, r, h, s, n, 0, par)
  <2>1. p \in Pools
    BY DEF PoolInv
  <2>2. Allocated(p, Allocate(p, h, n, 0, prio, par), h, s, n, 0, prio, par)
    BY <1>1, <2>1, AllocateFields
  <2>3. Allocated(p, m, h, s, n, 0, prio, par)
    BY <2>2 DEF m
  <2> QED
    BY <1>8, <2>3 DEF Issues, Allocated
<1> QED
  BY <1>15, <1>16 DEF r

-----------------------------------------------------------------------------
(* Jq2TakeJob and Jq2TakeChildJob *)

\* The head of the first list that is not empty: a slot with a sub-job left,
\* unless there is none.
LEMMA HeadSlotFacts ==
  ASSUME NEW p, PoolInv(p)
  PROVE  /\ HeadSlot(p) # 0 => HeadSlot(p) \in Slots /\ Startable(p, HeadSlot(p))
         /\ HeadSlot(p) = 0 => \A s \in Slots : ~Startable(p, s)
<1> DEFINE busy == {i \in Prios : p.list[i] # <<>>}
<1>1. \A i \in Prios : /\ p.list[i] \in Seq(Slots)
                       /\ \A c : Has(p.list[i], c) <=> c \in Slots /\ Startable(p, c) /\ p.nPrio[c] = i
  BY PoolTypes DEF PoolInv, Queue
<1>2. CASE busy = {}
  <2>1. HeadSlot(p) = 0
    BY <1>2 DEF HeadSlot
  <2>2. ASSUME NEW s \in Slots, Startable(p, s) PROVE FALSE
    <3>1. p.nPrio[s] \in Prios
      BY <2>2 DEF PoolInv, Queue
    <3>2. Has(p.list[p.nPrio[s]], s)
      BY <1>1, <2>2, <3>1
    <3>3. p.list[p.nPrio[s]] = <<>>
      BY <1>2, <3>1
    <3> QED
      BY <3>2, <3>3 DEF Has
  <2> QED
    BY <2>1, <2>2, MaxJobsAssumption DEF Slots
<1>3. CASE busy # {}
  <2>1. busy \in SUBSET Nat
    BY NumPriosAssumption DEF Prios
  <2>2. Min(busy) \in busy
    BY <1>3, <2>1, LeastNatural
  <2> DEFINE l == p.list[Min(busy)]
  <2>3. HeadSlot(p) = Head(l)
    BY <1>3 DEF HeadSlot
  <2>4. l \in Seq(Slots) /\ l # <<>>
    BY <1>1, <2>2
  <2>5. Head(l) = l[1] /\ 1 \in 1 .. Len(l)
    BY <2>4
  <2>6. Has(l, Head(l))
    BY <2>5 DEF Has
  <2> DEFINE k == Min(busy)
  <2>7. k \in Prios /\ l = p.list[k]
    BY <2>2
  <2> DEFINE c == Head(l)
  <2>8. HeadSlot(p) = c /\ Has(l, c)
    BY <2>3, <2>6
  <2> HIDE DEF k, l, c
  <2>9. c \in Slots /\ Startable(p, c)
    BY <1>1, <2>7, <2>8
  <2>10. HeadSlot(p) \in Slots /\ Startable(p, HeadSlot(p))
    BY <2>8, <2>9
  <2> QED
    BY <2>10, MaxJobsAssumption DEF Slots
<1> QED
  BY <1>2, <1>3

\* The recursive function of ChildSlot: its value at d, from the value v at
\* d - 1.
ChildFound(p, d, v) ==
  [x \in Slots |->
     LET hits == {i \in DOMAIN p.children[x] : d > 0 /\ v[p.children[x][i]] # 0}
     IN  IF hits # {} THEN v[p.children[x][Min(hits)]]
         ELSE IF Startable(p, x) THEN x ELSE 0]

\* It exists up to every depth: the least depth without one would have one.
LEMMA ChildFoundExists ==
  ASSUME NEW p
  PROVE  \A n \in Nat : \E f : f = [d \in 0 .. n |-> ChildFound(p, d, f[d - 1])]
<1> DEFINE Bad == {n \in Nat : ~ \E f : f = [d \in 0 .. n |-> ChildFound(p, d, f[d - 1])]}
<1>1. SUFFICES ASSUME Bad # {} PROVE FALSE
  OBVIOUS
<1>2. Bad \in SUBSET Nat
  OBVIOUS
<1> DEFINE n == Min(Bad)
<1>3. n \in Bad /\ \A k \in Bad : n <= k
  BY <1>1, <1>2, LeastNatural
<1> HIDE DEF n
<1>4. n \in Nat /\ ~ \E f : f = [d \in 0 .. n |-> ChildFound(p, d, f[d - 1])]
  BY <1>3
<1>5. CASE n = 0
  <2> DEFINE f == [d \in 0 .. 0 |-> [x \in Slots |-> IF Startable(p, x) THEN x ELSE 0]]
  <2>1. ASSUME NEW d \in 0 .. n PROVE f[d] = ChildFound(p, d, f[d - 1])
    <3>1. d = 0
      BY <1>5
    <3> QED
      BY <3>1 DEF ChildFound
  <2>2. f = [d \in 0 .. n |-> f[d]]
    BY <1>5
  <2>3. f = [d \in 0 .. n |-> ChildFound(p, d, f[d - 1])]
    <3> HIDE DEF f
    <3> QED
      BY <2>1, <2>2
  <2> QED
    BY <1>4, <2>3
<1>6. CASE n # 0
  <2>1. n - 1 \in Nat /\ ~(n - 1 \in Bad)
    BY <1>3, <1>4, <1>6
  <2>2. PICK g : g = [d \in 0 .. n - 1 |-> ChildFound(p, d, g[d - 1])]
    BY <2>1
  <2> DEFINE f == [d \in 0 .. n |-> IF d = n THEN ChildFound(p, n, g[n - 1]) ELSE g[d]]
  <2>3. ASSUME NEW v, NEW w PROVE ChildFound(p, 0, v) = ChildFound(p, 0, w)
    BY DEF ChildFound
  <2>4. ASSUME NEW d \in 0 .. n PROVE f[d] = ChildFound(p, d, g[d - 1])
    <3>1. CASE d = n
      BY <3>1
    <3>2. CASE d # n
      <4>1. d \in 0 .. n - 1
        BY <1>4, <3>2
      <4>2. g[d] = ChildFound(p, d, g[d - 1])
        BY <2>2, <4>1
      <4> QED
        BY <3>2, <4>2
    <3> QED
      BY <3>1, <3>2
  <2>5. ASSUME NEW d \in 0 .. n, d # 0 PROVE f[d - 1] = g[d - 1]
    BY <1>4, <2>5
  <2>6. f = [d \in 0 .. n |-> f[d]]
    OBVIOUS
  <2> HIDE DEF f
  <2>7. \A d \in 0 .. n : f[d] = ChildFound(p, d, f[d - 1])
    BY <2>3, <2>4, <2>5
  <2>8. f = [d \in 0 .. n |-> ChildFound(p, d, f[d - 1])]
    BY <2>6, <2>7
  <2> QED
    BY <1>4, <2>8
<1> QED
  BY <1>5, <1>6

\* What the walk over a tree finds is a slot with a sub-job left.
LEMMA ChildSlotFacts ==
  ASSUME NEW p, PoolInv(p), NEW s \in Slots
  PROVE  ChildSlot(p, s) # 0 => ChildSlot(p, s) \in Slots /\ Startable(p, ChildSlot(p, s))
<1> DEFINE f == CHOOSE f : f = [d \in 0 .. MaxJobs |-> ChildFound(p, d, f[d - 1])]
           Good(x) == x # 0 => x \in Slots /\ Startable(p, x)
           Bad == {d \in 0 .. MaxJobs : \E x \in Slots : ~Good(f[d][x])}
<1>1. ChildSlot(p, s) = f[MaxJobs][s]
  BY Zenon DEF ChildSlot, ChildFound
<1>2. f = [d \in 0 .. MaxJobs |-> ChildFound(p, d, f[d - 1])]
  BY ChildFoundExists, MaxJobsAssumption
<1> HIDE DEF f
<1>3. ASSUME Bad # {} PROVE FALSE
  <2>1. Bad \in SUBSET Nat
    OBVIOUS
  <2> DEFINE n == Min(Bad)
  <2>2. n \in Bad /\ \A k \in Bad : n <= k
    BY <1>3, <2>1, LeastNatural
  <2> HIDE DEF n
  <2>3. PICK x \in Slots : ~Good(f[n][x])
    BY <2>2
  <2>4. n \in 0 .. MaxJobs /\ f[n] = ChildFound(p, n, f[n - 1])
    BY <1>2, <2>2
  <2> DEFINE kids == p.children[x]
             hits == {i \in DOMAIN kids : n > 0 /\ f[n - 1][kids[i]] # 0}
  <2>5. f[n][x] = IF hits # {} THEN f[n - 1][kids[Min(hits)]]
                  ELSE IF Startable(p, x) THEN x ELSE 0
    BY <2>4 DEF ChildFound
  <2>6. hits # {}
    BY <2>3, <2>5
  <2>7. kids \in Seq(Slots)
    BY PoolTypes DEF PoolInv
  <2>8. hits \in SUBSET Nat
    BY <2>7
  <2>9. Min(hits) \in hits
    BY <2>6, <2>8, LeastNatural
  <2>10. n > 0 /\ kids[Min(hits)] \in Slots
    <3>1. Min(hits) \in DOMAIN kids /\ n > 0
      BY <2>9
    <3>2. Min(hits) \in 1 .. Len(kids)
      BY <2>7, <3>1
    <3> HIDE DEF hits, kids
    <3> QED
      BY <2>7, <3>1, <3>2, ElementOfSeq
  <2>11. n - 1 \in 0 .. MaxJobs /\ ~(n - 1 \in Bad)
    BY <2>2, <2>4, <2>10, MaxJobsAssumption
  <2> QED
    BY <2>3, <2>5, <2>6, <2>10, <2>11
<1> QED
  BY <1>1, <1>3, MaxJobsAssumption

-----------------------------------------------------------------------------
(* Jq2CheckFinished *)

\* The slots reached by climbing from x.
Reached(e, x) == {y \in Slots : \A C \in SUBSET Slots : ClimbedFrom(e, x, C) => y \in C}

\* They are the least set that holds x and is closed under climbing.
LEMMA ReachedLeast ==
  ASSUME NEW e, e.nParent \in [Slots -> Slots \cup {0}], NEW x \in Slots
  PROVE  /\ Reached(e, x) \in SUBSET Slots
         /\ ClimbedFrom(e, x, Reached(e, x))
         /\ \A C \in SUBSET Slots : ClimbedFrom(e, x, C) => Reached(e, x) \subseteq C
<1>1. ASSUME NEW y \in Slots, Climbs(e, y) PROVE e.nParent[y] \in Slots
  BY <1>1 DEF Climbs, LastChild
<1>2. ClimbedFrom(e, x, Reached(e, x))
  <2>1. x \in Reached(e, x)
    BY Zenon DEF Reached, ClimbedFrom
  <2>2. ASSUME NEW y \in Reached(e, x), Climbs(e, y) PROVE e.nParent[y] \in Reached(e, x)
    <3>1. y \in Slots /\ e.nParent[y] \in Slots
      BY <1>1, <2>2 DEF Reached
    <3>2. ASSUME NEW C \in SUBSET Slots, ClimbedFrom(e, x, C) PROVE e.nParent[y] \in C
      <4>1. y \in C
        BY <3>2 DEF Reached
      <4> QED
        BY <2>2, <3>2, <4>1 DEF ClimbedFrom
    <3> QED
      BY <3>1, <3>2, Zenon DEF Reached
  <2> QED
    BY <2>1, <2>2 DEF ClimbedFrom
<1> QED
  BY <1>2, Zenon DEF Reached

\* The climb is a single path: it starts at s, every other slot is reached
\* from a slot below it, and only its end does not climb.
LEMMA ReachedPath ==
  ASSUME NEW e, e.nParent \in [Slots -> Slots \cup {0}], NEW s \in Slots
  PROVE  /\ \A x \in Reached(e, s) :
              x = s \/ \E y \in Reached(e, s) : Climbs(e, y) /\ e.nParent[y] = x
         /\ \A c, d \in Reached(e, s) : ~Climbs(e, c) /\ ~Climbs(e, d) => c = d
<1> DEFINE D == Reached(e, s)
<1>1. D \in SUBSET Slots /\ ClimbedFrom(e, s, D)
  BY ReachedLeast
<1>2. \A C \in SUBSET Slots : ClimbedFrom(e, s, C) => D \subseteq C
  BY ReachedLeast
<1> HIDE DEF D
<1>3. ASSUME NEW x \in D, x # s, ~ \E y \in D : Climbs(e, y) /\ e.nParent[y] = x PROVE FALSE
  <2>1. D \ {x} \in SUBSET Slots /\ ClimbedFrom(e, s, D \ {x})
    BY <1>1, <1>3 DEF ClimbedFrom
  <2> QED
    BY <1>2, <2>1
<1>4. ASSUME NEW c \in D, NEW d \in D, ~Climbs(e, c), ~Climbs(e, d) PROVE c = d
  <2> DEFINE L == {x \in D : c \in Reached(e, x)}
  <2>1. c \in Slots /\ d \in Slots
    BY <1>1
  <2>2. s \in L
    BY <1>1 DEF ClimbedFrom, D
  <2>3. ASSUME NEW x \in L, Climbs(e, x) PROVE e.nParent[x] \in L
    <3>1. /\ x \in D /\ x \in Slots /\ c \in Reached(e, x) /\ c # x
          /\ e.nParent[x] \in D /\ e.nParent[x] \in Slots
      BY <1>1, <1>4, <2>3 DEF ClimbedFrom
    <3>2. ASSUME NEW C \in SUBSET Slots, ClimbedFrom(e, e.nParent[x], C) PROVE c \in C
      <4>1. C \cup {x} \in SUBSET Slots /\ ClimbedFrom(e, x, C \cup {x})
        BY <3>1, <3>2 DEF ClimbedFrom
      <4>2. Reached(e, x) \subseteq C \cup {x}
        BY <3>1, <4>1, ReachedLeast
      <4> QED
        BY <3>1, <4>2
    <3>3. c \in Reached(e, e.nParent[x])
      BY <2>1, <3>2, Zenon DEF Reached
    <3> QED
      BY <3>1, <3>3
  <2>4. L \in SUBSET Slots /\ ClimbedFrom(e, s, L)
    BY <1>1, <2>2, <2>3 DEF ClimbedFrom
  <2>5. c \in Reached(e, d)
    BY <1>2, <2>4
  <2>6. {d} \in SUBSET Slots /\ ClimbedFrom(e, d, {d})
    BY <1>4, <2>1 DEF ClimbedFrom
  <2>7. Reached(e, d) \subseteq {d}
    BY <2>1, <2>6, ReachedLeast
  <2> QED
    BY <2>5, <2>7
<1> QED
  BY <1>3, <1>4 DEF D

\* One more sub-job of s has ended.
LEMMA EndedFields ==
  ASSUME NEW p \in Pools, NEW s \in Slots
  PROVE  /\ Ended(p, s) = PoolOf(p.nStartedHandle, p.nFinishedHandle, p.nNumJobs, p.nNumStarted,
                                 [p.num_finished_jobs EXCEPT ![s] = @ + 1], p.nParent,
                                 p.children, p.nPrio, p.nWaiters, p.list, p.nFreeJobs,
                                 p.nNextHandle)
         /\ Ended(p, s).num_finished_jobs = [p.num_finished_jobs EXCEPT ![s] = @ + 1]
         /\ [p.num_finished_jobs EXCEPT ![s] = @ + 1] \in [Slots -> Nat]
         /\ Ended(p, s).nStartedHandle = p.nStartedHandle
         /\ Ended(p, s).nFinishedHandle = p.nFinishedHandle
         /\ Ended(p, s).nNumJobs = p.nNumJobs /\ Ended(p, s).nParent = p.nParent
         /\ Ended(p, s).children = p.children /\ Ended(p, s).nWaiters = p.nWaiters
<1> DEFINE e == Ended(p, s)
           f == [p.num_finished_jobs EXCEPT ![s] = @ + 1]
<1>1. e = PoolOf(p.nStartedHandle, p.nFinishedHandle, p.nNumJobs, p.nNumStarted,
                 f, p.nParent, p.children, p.nPrio, p.nWaiters, p.list, p.nFreeJobs,
                 p.nNextHandle)
  <2>1. p = PoolOf(p.nStartedHandle, p.nFinishedHandle, p.nNumJobs, p.nNumStarted,
                   p.num_finished_jobs, p.nParent, p.children, p.nPrio,
                   p.nWaiters, p.list, p.nFreeJobs, p.nNextHandle)
    BY PoolRecord
  <2> QED
    BY <2>1, EndedRecord DEF Ended
<1>2. f \in [Slots -> Nat]
  BY PoolTypes
<1> HIDE DEF e, f
<1>3. /\ e.num_finished_jobs = f /\ e.nStartedHandle = p.nStartedHandle
      /\ e.nFinishedHandle = p.nFinishedHandle /\ e.nNumJobs = p.nNumJobs
      /\ e.nParent = p.nParent /\ e.children = p.children /\ e.nWaiters = p.nWaiters
  BY <1>1, PoolOfFields
<1> QED
  BY <1>1, <1>2, <1>3 DEF e, f

\* Nothing is left of x but its children.
OnlyChildren(p, s, x) ==
  PendingJobs(p, x) /\ p.num_finished_jobs[x] + (IF x = s THEN 1 ELSE 0) = p.nNumJobs[x]

\* The slots completed by one more sub-job of s: the least set that holds
\* every pending slot of which nothing is left outside of it; no two of them
\* have the same parent.
LEMMA DoneFacts ==
  ASSUME NEW p, PoolInv(p), NEW s \in Slots, p.num_finished_jobs[s] < p.nNumStarted[s],
         NEW D, D = CheckFinished(Ended(p, s), s)
  PROVE  /\ D \in SUBSET Slots
         /\ \A x \in D : OnlyChildren(p, s, x) /\ \A c : Has(p.children[x], c) => c \in D
         /\ \A x \in Slots : OnlyChildren(p, s, x) /\ (\A c : Has(p.children[x], c) => c \in D)
                               => x \in D
         /\ \A c, d \in D : p.nParent[c] = p.nParent[d] /\ p.nParent[c] # 0 => c = d
         /\ \A C \in SUBSET Slots :
              (\A x \in Slots : OnlyChildren(p, s, x) /\ (\A c : Has(p.children[x], c) => c \in C)
                                  => x \in C)
              => D \subseteq C
<1> DEFINE e == Ended(p, s)
           All(x) == p.num_finished_jobs[x] + (IF x = s THEN 1 ELSE 0) = p.nNumJobs[x]
<1>1. /\ p.num_finished_jobs \in [Slots -> Nat] /\ p.nParent \in [Slots -> Slots \cup {0}]
      /\ p.children \in [Slots -> Seq(Slots)] /\ p \in Pools
  BY PoolTypes DEF PoolInv
<1>2. /\ e.children = p.children /\ e.nParent = p.nParent /\ e.nNumJobs = p.nNumJobs
      /\ e.num_finished_jobs = [p.num_finished_jobs EXCEPT ![s] = @ + 1]
  BY <1>1, EndedFields
<1> HIDE DEF e
<1>3. \A x \in Slots : AllEnded(e, x) <=> All(x)
  BY <1>1, <1>2 DEF AllEnded
<1>4. \A x \in Slots : LastChild(e, x) <=> p.nParent[x] # 0 /\ p.children[p.nParent[x]] = <<x>>
  BY <1>2 DEF LastChild
<1>5. \A x \in Slots : /\ OnlyChildren(p, s, x) <=> PendingJobs(p, x) /\ All(x)
                       /\ p.nParent[x] \in Slots \cup {0}
  BY <1>1 DEF OnlyChildren
<1> HIDE DEF All
<1>6. \A x \in Slots : /\ p.children[x] \in Seq(Slots) /\ Distinct(p.children[x])
                       /\ \A c : Has(p.children[x], c) <=> /\ c \in Slots /\ PendingJobs(p, c)
                                                           /\ p.nParent[c] = x
  BY <1>1 DEF PoolInv, Tree
<1>7. \A x, y \in Slots : p.children[x] = <<y>> => \A c : Has(p.children[x], c) <=> c = y
  BY DEF Has
<1>8. PendingJobs(p, s)
  BY BusyIsPending
<1>9. \A x \in Slots : PendingJobs(p, x) /\ All(x) /\ (\A c : ~Has(p.children[x], c)) => x = s
  <2> SUFFICES ASSUME NEW x \in Slots, PendingJobs(p, x), All(x),
                      \A c : ~Has(p.children[x], c), x # s
               PROVE  FALSE
    OBVIOUS
  <2>1. p.num_finished_jobs[x] < p.nNumJobs[x]
    BY DEF PoolInv, PendingIff
  <2>2. p.num_finished_jobs[x] \in Nat /\ p.num_finished_jobs[x] + 0 = p.nNumJobs[x]
    BY <1>1 DEF All
  <2> QED
    BY <2>1, <2>2
<1>10. \A x \in Slots : (p.children[x] = <<>>) <=> (\A c : ~Has(p.children[x], c))
  <2>1. \A c : ~Has(<<>>, c)
    BY DEF Has
  <2> SUFFICES ASSUME NEW x \in Slots, p.children[x] # <<>>
               PROVE  \E c : Has(p.children[x], c)
    BY <2>1
  <2>2. 1 \in 1 .. Len(p.children[x])
    BY <1>6
  <2> QED
    BY <2>2 DEF Has
<1>11. CASE ~(p.children[s] = <<>> /\ All(s))
  <2>1. D = {}
    BY <1>2, <1>3, <1>11 DEF CheckFinished, e
  <2>2. ASSUME NEW x \in Slots, OnlyChildren(p, s, x), \A c : Has(p.children[x], c) => c \in D
        PROVE  FALSE
    BY <1>5, <1>9, <1>10, <1>11, <2>1, <2>2
  <2> QED
    BY <2>1, <2>2
<1>12. CASE p.children[s] = <<>> /\ All(s)
  <2>1. D = Reached(e, s)
    BY <1>2, <1>3, <1>12 DEF CheckFinished, Reached, e
  <2>2. /\ D \in SUBSET Slots /\ s \in D
        /\ \A x \in D : Climbs(e, x) => p.nParent[x] \in D
        /\ \A C \in SUBSET Slots : ClimbedFrom(e, s, C) => D \subseteq C
    BY <1>1, <1>2, <2>1, ReachedLeast DEF ClimbedFrom
  <2>3. /\ \A x \in D : x = s \/ \E y \in D : Climbs(e, y) /\ p.nParent[y] = x
        /\ \A c, d \in D : ~Climbs(e, c) /\ ~Climbs(e, d) => c = d
    <3>1. e.nParent \in [Slots -> Slots \cup {0}]
      BY <1>1, <1>2
    <3>2. /\ \A x \in D : x = s \/ \E y \in D : Climbs(e, y) /\ e.nParent[y] = x
          /\ \A c, d \in D : ~Climbs(e, c) /\ ~Climbs(e, d) => c = d
      BY <2>1, <3>1, ReachedPath
    <3> QED
      BY <1>2, <3>2
  <2>4. \A x \in Slots : Climbs(e, x) <=> /\ p.nParent[x] \in Slots /\ All(p.nParent[x])
                                          /\ p.children[p.nParent[x]] = <<x>>
    BY <1>2, <1>3, <1>4, <1>5, MaxJobsAssumption DEF Climbs, Slots
  <2>5. ASSUME NEW x \in D
        PROVE  OnlyChildren(p, s, x) /\ \A c : Has(p.children[x], c) => c \in D
    <3>1. CASE x = s
      BY <1>5, <1>8, <1>10, <1>12, <2>2, <3>1
    <3>2. CASE x # s
      <4>1. PICK y \in D : Climbs(e, y) /\ p.nParent[y] = x
        BY <2>3, <3>2
      <4>2. y \in Slots /\ All(x) /\ p.children[x] = <<y>>
        BY <2>2, <2>4, <4>1
      <4>3. x \in Slots /\ Has(p.children[x], y) /\ \A c : Has(p.children[x], c) => c = y
        BY <1>7, <2>2, <4>2
      <4>4. PendingJobs(p, x)
        BY <4>2, <4>3 DEF PoolInv, PendingIff
      <4> QED
        BY <1>5, <4>1, <4>2, <4>3, <4>4
    <3> QED
      BY <3>1, <3>2
  <2>6. ASSUME NEW c \in D, NEW d \in D, p.nParent[c] = p.nParent[d], p.nParent[c] # 0
        PROVE  c = d
    <3>1. c \in Slots /\ d \in Slots /\ p.nParent[c] \in Slots
      BY <1>5, <2>2, <2>6
    <3>2. Has(p.children[p.nParent[c]], c) /\ Has(p.children[p.nParent[c]], d)
      BY <1>5, <1>6, <2>5, <2>6, <3>1
    <3>3. CASE Climbs(e, c)
      BY <1>7, <2>4, <3>1, <3>2, <3>3
    <3>4. CASE Climbs(e, d)
      BY <1>7, <2>4, <2>6, <3>1, <3>2, <3>4
    <3> QED
      BY <2>3, <3>3, <3>4
  <2>7. ASSUME NEW x \in Slots, OnlyChildren(p, s, x), \A c : Has(p.children[x], c) => c \in D
        PROVE  x \in D
    <3>1. PendingJobs(p, x) /\ All(x)
      BY <1>5, <2>7
    <3>2. CASE \A c : ~Has(p.children[x], c)
      BY <1>9, <2>2, <3>1, <3>2
    <3>3. CASE \E c : Has(p.children[x], c)
      <4> DEFINE l == p.children[x]
      <4>1. PICK c : Has(l, c)
        BY <3>3
      <4>2. c \in D /\ c \in Slots /\ p.nParent[c] = x /\ x # 0
        BY <1>6, <2>7, <4>1, MaxJobsAssumption DEF Slots
      <4>3. \A d : Has(l, d) => d = c
        BY <1>6, <2>6, <2>7, <4>2
      <4>4. l \in Seq(Slots) /\ Distinct(l) /\ Len(l) \in Nat
        BY <1>6, LenProperties
      <4> HIDE DEF l
      <4>5. \A i \in 1 .. Len(l) : l[i] = c
        BY <4>3 DEF Has
      <4>6. \A i, j \in 1 .. Len(l) : i = j
        BY <4>4, <4>5 DEF Distinct
      <4>7. Len(l) = 1
        <5>1. PICK i \in 1 .. Len(l) : l[i] = c
          BY <4>1 DEF Has
        <5>2. 1 \in 1 .. Len(l) /\ Len(l) \in 1 .. Len(l)
          BY <4>4, <5>1
        <5> QED
          BY <4>6, <5>2
      <4>8. l = <<c>>
        BY <4>4, <4>5, <4>7
      <4>9. Climbs(e, c)
        BY <2>4, <3>1, <4>2, <4>8 DEF l
      <4> QED
        BY <2>2, <4>2, <4>9
    <3> QED
      BY <3>2, <3>3
  <2>8. ASSUME NEW C \in SUBSET Slots,
               \A x \in Slots : OnlyChildren(p, s, x) /\ (\A c : Has(p.children[x], c) => c \in C)
                                  => x \in C
        PROVE  D \subseteq C
    <3>1. s \in C \cap D
      <4>1. OnlyChildren(p, s, s) /\ \A c : ~Has(p.children[s], c)
        BY <1>5, <1>8, <1>10, <1>12
      <4> QED
        BY <2>2, <2>8, <4>1
    <3>2. ASSUME NEW x \in C \cap D, Climbs(e, x) PROVE p.nParent[x] \in C \cap D
      <4>1. p.nParent[x] \in D /\ p.nParent[x] \in Slots /\ x \in Slots
        BY <2>2, <3>2
      <4>2. OnlyChildren(p, s, p.nParent[x])
        BY <2>5, <4>1
      <4>3. \A c : Has(p.children[p.nParent[x]], c) => c = x
        BY <1>7, <2>4, <3>2, <4>1
      <4> QED
        BY <2>8, <4>1, <4>2, <4>3
    <3>3. C \cap D \in SUBSET Slots /\ ClimbedFrom(e, s, C \cap D)
      BY <1>2, <3>1, <3>2 DEF ClimbedFrom
    <3> QED
      BY <2>2, <3>3
  <2> QED
    BY <2>2, <2>5, <2>6, <2>7, <2>8
<1> QED
  BY <1>11, <1>12

\* r is p with one more sub-job of s finished and the slots of D completed.
Finishes(p, r, s, D) ==
  /\ r.num_finished_jobs = [p.num_finished_jobs EXCEPT ![s] = @ + 1]
  /\ r.nFinishedHandle = [x \in Slots |-> IF x \in D THEN p.nStartedHandle[x]
                                          ELSE p.nFinishedHandle[x]]
  /\ r.nParent = [x \in Slots |-> IF x \in D THEN 0 ELSE p.nParent[x]]
  /\ r.nFreeJobs = p.nFreeJobs + Cardinality(D)
  /\ r.nStartedHandle = p.nStartedHandle /\ r.nNumJobs = p.nNumJobs
  /\ r.nNumStarted = p.nNumStarted /\ r.nNextHandle = p.nNextHandle

\* The sibling lists g are those of p without the slots of D.
Detached(p, g, D) ==
  /\ g \in [Slots -> Seq(Slots)]
  /\ \A x \in Slots :
       /\ Distinct(g[x])
       /\ \A c : Has(g[x], c) <=> Has(p.children[x], c) /\ c \notin D

\* Each completed slot leaves the sibling list it is in.
LEMMA DetachFacts ==
  ASSUME NEW p, PoolInv(p), NEW D \in SUBSET Slots, \A x \in D : PendingJobs(p, x),
         \A c, d \in D : p.nParent[c] = p.nParent[d] /\ p.nParent[c] # 0 => c = d
  PROVE  Detached(p, DetachChildren(p, D), D)
<1> DEFINE g == DetachChildren(p, D)
<1>1. p.children \in [Slots -> Seq(Slots)] /\ p.nParent \in [Slots -> Slots \cup {0}]
  BY PoolTypes DEF PoolInv
<1>2. g = [x \in Slots |-> IF \E c \in D : p.nParent[c] = x
                           THEN Unlink(p.children[x], CHOOSE c \in D : p.nParent[c] = x)
                           ELSE p.children[x]]
  BY DEF DetachChildren
<1> HIDE DEF g
<1>3. ASSUME NEW x \in Slots
      PROVE  /\ g[x] \in Seq(Slots) /\ Distinct(g[x])
             /\ \A c : Has(g[x], c) <=> Has(p.children[x], c) /\ c \notin D
  <2> DEFINE l == p.children[x]
  <2>1. /\ l \in Seq(Slots) /\ Distinct(l)
        /\ \A c : Has(l, c) <=> c \in Slots /\ PendingJobs(p, c) /\ p.nParent[c] = x
    BY <1>1 DEF PoolInv, Tree
  <2>2. CASE \E c \in D : p.nParent[c] = x
    <3> DEFINE d == CHOOSE c \in D : p.nParent[c] = x
    <3>1. d \in D /\ p.nParent[d] = x
      BY <2>2
    <3>2. g[x] = Unlink(l, d)
      BY <1>2, <2>2
    <3> HIDE DEF d, l
    <3>3. Has(l, d)
      BY <2>1, <3>1
    <3>4. /\ Unlink(l, d) \in Seq(Slots) /\ Distinct(Unlink(l, d))
          /\ \A c : Has(Unlink(l, d), c) <=> Has(l, c) /\ c # d
      BY <2>1, <3>3, UnlinkHas
    <3>5. x # 0
      BY MaxJobsAssumption DEF Slots
    <3>6. ASSUME NEW c, Has(l, c) PROVE c # d <=> c \notin D
      <4>1. p.nParent[c] = x
        BY <2>1, <3>6
      <4> QED
        BY <3>1, <3>5, <4>1
    <3> QED
      BY <3>2, <3>4, <3>6 DEF l
  <2>3. CASE ~ \E c \in D : p.nParent[c] = x
    <3>1. g[x] = l
      BY <1>2, <2>3
    <3>2. \A c : Has(l, c) => c \notin D
      BY <2>1, <2>3
    <3> QED
      BY <2>1, <3>1, <3>2
  <2> QED
    BY <2>2, <2>3
<1>4. g \in [Slots -> Seq(Slots)]
  BY <1>2, <1>3
<1> QED
  BY <1>3, <1>4 DEF g, Detached

\* What Jq2IncrementFinished writes.
LEMMA FinishedFields ==
  ASSUME NEW p, PoolInv(p), NEW s \in Slots, p.num_finished_jobs[s] < p.nNumStarted[s],
         NEW D, D = CheckFinished(Ended(p, s), s), NEW r, r = IncrementFinished(p, s)
  PROVE  /\ r \in Pools /\ Finishes(p, r, s, D)
         /\ r.children = DetachChildren(p, D) /\ r.nPrio = p.nPrio /\ r.list = p.list
<1> DEFINE e == Ended(p, s)
           b == [x \in Slots |-> IF x \in D THEN p.nStartedHandle[x] ELSE p.nFinishedHandle[x]]
           f == [x \in Slots |-> IF x \in D THEN 0 ELSE p.nParent[x]]
           w == [x \in Slots |-> IF x \in D THEN 0 ELSE p.nWaiters[x]]
           g == DetachChildren(p, D)
           n == Cardinality(D)
           i == [p.num_finished_jobs EXCEPT ![s] = @ + 1]
<1>1. p \in Pools
  BY DEF PoolInv
<1>2. /\ e = PoolOf(p.nStartedHandle, p.nFinishedHandle, p.nNumJobs, p.nNumStarted,
                    i, p.nParent, p.children, p.nPrio, p.nWaiters, p.list, p.nFreeJobs,
                    p.nNextHandle)
      /\ i \in [Slots -> Nat]
      /\ e.nStartedHandle = p.nStartedHandle /\ e.nFinishedHandle = p.nFinishedHandle
      /\ e.nParent = p.nParent /\ e.children = p.children /\ e.nWaiters = p.nWaiters
  BY <1>1, EndedFields
<1>3. /\ D \in SUBSET Slots /\ \A x \in D : PendingJobs(p, x)
      /\ \A c, d \in D : p.nParent[c] = p.nParent[d] /\ p.nParent[c] # 0 => c = d
  BY DoneFacts DEF OnlyChildren
<1>4. g \in [Slots -> Seq(Slots)]
  BY <1>3, DetachFacts DEF Detached
<1>5. DetachChildren(e, D) = g
  <2> HIDE DEF e
  <2> QED
    BY <1>2 DEF DetachChildren
<1>6. n \in Nat
  BY <1>3, SlotsFinite
<1>7. /\ b \in [Slots -> Nat] /\ f \in [Slots -> Slots \cup {0}] /\ w \in [Slots -> 0 .. 255]
  <2>1. /\ p.nStartedHandle \in [Slots -> Nat] /\ p.nFinishedHandle \in [Slots -> Nat]
        /\ p.nParent \in [Slots -> Slots \cup {0}] /\ p.nWaiters \in [Slots -> 0 .. 255]
    BY <1>1, PoolTypes
  <2>2. b \in [Slots -> Nat]
    BY <2>1
  <2>3. f \in [Slots -> Slots \cup {0}]
    BY <2>1
  <2>4. w \in [Slots -> 0 .. 255]
    BY <2>1
  <2> QED
    BY <2>2, <2>3, <2>4
<1>8. r = Completed(e, b, f, w, g, n)
  <2> HIDE DEF e
  <2>1. /\ b = [x \in Slots |-> IF x \in D THEN e.nStartedHandle[x] ELSE e.nFinishedHandle[x]]
        /\ f = [x \in Slots |-> IF x \in D THEN 0 ELSE e.nParent[x]]
        /\ w = [x \in Slots |-> IF x \in D THEN 0 ELSE e.nWaiters[x]]
    BY <1>2
  <2> QED
    BY <1>5, <2>1, Zenon DEF IncrementFinished, Completed, e
<1> HIDE DEF b, e, f, g, i, n, w
<1>9. r = PoolOf(p.nStartedHandle, b, p.nNumJobs, p.nNumStarted, i, f, g, p.nPrio, w, p.list,
                 p.nFreeJobs + n, p.nNextHandle)
  <2>1. e \in Pools
    BY <1>1, <1>2, PoolTypes DEF PoolOf, Pools
  <2>2. r = PoolOf(e.nStartedHandle, b, e.nNumJobs, e.nNumStarted, e.num_finished_jobs,
                   f, g, e.nPrio, w, e.list, e.nFreeJobs + n, e.nNextHandle)
    BY <1>8, <2>1, FinishRecord
  <2>3. /\ e.nNumJobs = p.nNumJobs /\ e.nNumStarted = p.nNumStarted
        /\ e.num_finished_jobs = i /\ e.nPrio = p.nPrio /\ e.list = p.list
        /\ e.nFreeJobs = p.nFreeJobs /\ e.nNextHandle = p.nNextHandle
    BY <1>2, PoolOfFields
  <2> QED
    BY <1>2, <2>2, <2>3
<1>10. r \in Pools
  <2> DEFINE free == p.nFreeJobs + n
  <2>1. free \in Nat /\ p.nFreeJobs \in Nat
    <3>1. p.nFreeJobs \in Nat
      BY <1>1, PoolTypes
    <3> QED
      BY <1>6, <3>1
  <2>2. r = PoolOf(p.nStartedHandle, b, p.nNumJobs, p.nNumStarted, i, f, g, p.nPrio, w, p.list,
                   free, p.nNextHandle)
    BY <1>9
  <2> HIDE DEF free
  <2>3. PoolOf(p.nStartedHandle, b, p.nNumJobs, p.nNumStarted, i, f, g, p.nPrio, w, p.list,
               free, p.nNextHandle) \in Pools
    <3>1. /\ p.nStartedHandle \in [Slots -> Nat] /\ p.nNumJobs \in [Slots -> Nat]
          /\ p.nNumStarted \in [Slots -> Nat] /\ p.nPrio \in [Slots -> Nat]
          /\ p.list \in [Prios -> Seq(Slots)] /\ p.nNextHandle \in Nat
      BY <1>1, PoolTypes
    <3> QED
      BY <1>2, <1>4, <1>7, <2>1, <3>1, PoolOfInPools, Zenon
  <2> QED
    BY <2>2, <2>3
<1>11. /\ r.nFinishedHandle = b /\ r.nParent = f /\ r.children = g
       /\ r.nFreeJobs = p.nFreeJobs + n /\ r.num_finished_jobs = i
       /\ r.nStartedHandle = p.nStartedHandle /\ r.nNumJobs = p.nNumJobs
       /\ r.nNumStarted = p.nNumStarted /\ r.nNextHandle = p.nNextHandle
       /\ r.nPrio = p.nPrio /\ r.list = p.list
  BY <1>9, PoolOfFields
<1>12. Finishes(p, r, s, D)
  BY <1>11 DEF Finishes, b, f, i, n
<1> QED
  BY <1>10, <1>11, <1>12 DEF g

\* Jq2IncrementFinished keeps the invariant: the slots it completes are not
\* pending any more, and nothing else changes.
LEMMA FinishedInv ==
  ASSUME NEW p, PoolInv(p), NEW s \in Slots, p.num_finished_jobs[s] < p.nNumStarted[s],
         NEW D, D = CheckFinished(Ended(p, s), s)
  PROVE  /\ PoolInv(IncrementFinished(p, s)) /\ Finishes(p, IncrementFinished(p, s), s, D)
         /\ \A x \in Slots : PendingJobs(IncrementFinished(p, s), x)
                               <=> PendingJobs(p, x) /\ x \notin D
<1> DEFINE r == IncrementFinished(p, s)
<1>1. /\ r \in Pools /\ Finishes(p, r, s, D)
      /\ r.children = DetachChildren(p, D) /\ r.nPrio = p.nPrio /\ r.list = p.list
  BY FinishedFields
<1> HIDE DEF r
<1>2. /\ p.nStartedHandle \in [Slots -> Nat] /\ p.nFinishedHandle \in [Slots -> Nat]
      /\ p.nNumJobs \in [Slots -> Nat] /\ p.nNumStarted \in [Slots -> Nat]
      /\ p.num_finished_jobs \in [Slots -> Nat] /\ p.nFreeJobs \in Nat
      /\ p.nParent \in [Slots -> Slots \cup {0}]
  BY PoolTypes DEF PoolInv
<1>3. /\ D \in SUBSET Slots
      /\ \A x \in D : OnlyChildren(p, s, x) /\ \A c : Has(p.children[x], c) => c \in D
      /\ \A x \in Slots : OnlyChildren(p, s, x) /\ (\A c : Has(p.children[x], c) => c \in D)
                            => x \in D
      /\ \A c, d \in D : p.nParent[c] = p.nParent[d] /\ p.nParent[c] # 0 => c = d
  BY DoneFacts
<1>4. \A x \in D : PendingJobs(p, x)
  BY <1>3 DEF OnlyChildren
<1>5. \A x \in Slots :
        /\ r.nFinishedHandle[x] = IF x \in D THEN p.nStartedHandle[x] ELSE p.nFinishedHandle[x]
        /\ r.nParent[x] = IF x \in D THEN 0 ELSE p.nParent[x]
        /\ r.num_finished_jobs[x] = p.num_finished_jobs[x] + (IF x = s THEN 1 ELSE 0)
        /\ r.nStartedHandle[x] = p.nStartedHandle[x] /\ r.nNumJobs[x] = p.nNumJobs[x]
        /\ r.nNumStarted[x] = p.nNumStarted[x] /\ r.nPrio[x] = p.nPrio[x]
  BY <1>1, <1>2 DEF Finishes
<1>6. \A x \in Slots : PendingJobs(r, x) <=> PendingJobs(p, x) /\ x \notin D
  BY <1>5 DEF PendingJobs
<1>7. \A x \in Slots : /\ Distinct(r.children[x])
                       /\ \A c : Has(r.children[x], c) <=> Has(p.children[x], c) /\ c \notin D
  <2>1. /\ D \in SUBSET Slots /\ \A x \in D : PendingJobs(p, x)
        /\ \A c, d \in D : p.nParent[c] = p.nParent[d] /\ p.nParent[c] # 0 => c = d
    BY <1>3, <1>4
  <2>2. Detached(p, DetachChildren(p, D), D)
    BY <2>1, DetachFacts
  <2>3. r.children = DetachChildren(p, D)
    BY <1>1
  <2> QED
    BY <2>2, <2>3 DEF Detached
<1>8. Handles(r)
  <2>1. r.nNextHandle = p.nNextHandle
    BY <1>1 DEF Finishes
  <2>2. p.nNextHandle % MaxJobs # 0
    BY DEF PoolInv, Handles
  <2>3. ASSUME NEW x \in Slots
        PROVE  /\ r.nFinishedHandle[x] <= r.nStartedHandle[x]
               /\ r.nStartedHandle[x] < p.nNextHandle
               /\ r.nStartedHandle[x] # 0 => SlotOf(r.nStartedHandle[x]) = x
    <3>1. p.nStartedHandle[x] \in Nat /\ p.nFinishedHandle[x] \in Nat
      BY <1>2
    <3>2. /\ p.nFinishedHandle[x] <= p.nStartedHandle[x]
          /\ p.nStartedHandle[x] < p.nNextHandle
          /\ p.nStartedHandle[x] # 0 => SlotOf(p.nStartedHandle[x]) = x
      BY DEF PoolInv, Handles
    <3> QED
      BY <1>5, <3>1, <3>2
  <2> QED
    BY <2>1, <2>2, <2>3 DEF Handles
<1>9. Counts(r)
  <2> SUFFICES ASSUME NEW x \in Slots
               PROVE  /\ r.num_finished_jobs[x] <= r.nNumStarted[x]
                      /\ r.nNumStarted[x] <= r.nNumJobs[x]
    BY DEF Counts
  <2>1. /\ p.num_finished_jobs[x] \in Nat /\ p.nNumStarted[x] \in Nat
        /\ p.num_finished_jobs[x] <= p.nNumStarted[x] /\ p.nNumStarted[x] <= p.nNumJobs[x]
    BY <1>2 DEF PoolInv, Counts
  <2> QED
    BY <1>5, <2>1
<1>10. PendingIff(r)
  <2> SUFFICES ASSUME NEW x \in Slots
               PROVE  PendingJobs(r, x) <=> \/ r.num_finished_jobs[x] < r.nNumJobs[x]
                                            \/ \E c \in Slots : Has(r.children[x], c)
    BY DEF PendingIff
  <2>1. PendingJobs(p, x) <=> \/ p.num_finished_jobs[x] < p.nNumJobs[x]
                              \/ \E c \in Slots : Has(p.children[x], c)
    BY DEF PoolInv, PendingIff
  <2>2. /\ p.num_finished_jobs[x] \in Nat /\ p.nNumJobs[x] \in Nat
        /\ p.num_finished_jobs[x] <= p.nNumJobs[x]
        /\ x = s => p.num_finished_jobs[x] < p.nNumJobs[x]
    <3>1. /\ p.num_finished_jobs[x] \in Nat /\ p.nNumJobs[x] \in Nat /\ p.nNumStarted[x] \in Nat
          /\ p.num_finished_jobs[x] <= p.nNumStarted[x] /\ p.nNumStarted[x] <= p.nNumJobs[x]
      BY <1>2 DEF PoolInv, Counts
    <3> QED
      BY <3>1
  <2>3. \A c : Has(p.children[x], c) => c \in Slots
    BY DEF PoolInv, Tree
  <2>4. OnlyChildren(p, s, x) <=> PendingJobs(p, x) /\ r.num_finished_jobs[x] = p.nNumJobs[x]
    BY <1>5 DEF OnlyChildren
  <2>5. CASE x \in D
    <3>1. r.num_finished_jobs[x] = r.nNumJobs[x] /\ \A c : ~Has(r.children[x], c)
      BY <1>3, <1>5, <1>7, <2>4, <2>5
    <3>2. ~(r.num_finished_jobs[x] < r.nNumJobs[x])
      BY <1>5, <2>2, <3>1
    <3> QED
      BY <1>6, <2>5, <3>1, <3>2
  <2>6. CASE x \notin D
    <3>1. CASE r.num_finished_jobs[x] < r.nNumJobs[x]
      <4>1. p.num_finished_jobs[x] < p.nNumJobs[x]
        BY <1>5, <2>2, <3>1
      <4> QED
        BY <1>6, <2>1, <2>6, <3>1, <4>1
    <3>2. CASE ~(r.num_finished_jobs[x] < r.nNumJobs[x])
      <4>1. r.num_finished_jobs[x] = p.nNumJobs[x]
        BY <1>5, <2>2, <3>2
      <4>2. ASSUME PendingJobs(p, x) PROVE \E c \in Slots : Has(r.children[x], c)
        <5>1. PICK c : Has(p.children[x], c) /\ c \notin D
          BY <1>3, <2>4, <2>6, <4>1, <4>2
        <5> QED
          BY <1>7, <2>3, <5>1
      <4>3. ASSUME NEW c \in Slots, Has(r.children[x], c) PROVE PendingJobs(p, x)
        BY <1>7, <2>1, <4>3
      <4> QED
        BY <1>6, <2>6, <3>2, <4>2, <4>3
    <3> QED
      BY <3>1, <3>2
  <2> QED
    BY <2>5, <2>6
<1>11. Tree(r)
  <2> SUFFICES ASSUME NEW x \in Slots, NEW c
               PROVE  Has(r.children[x], c) <=> c \in Slots /\ PendingJobs(r, c) /\ r.nParent[c] = x
    BY <1>7 DEF Tree
  <2>1. Has(p.children[x], c) <=> c \in Slots /\ PendingJobs(p, c) /\ p.nParent[c] = x
    BY DEF PoolInv, Tree
  <2>2. x # 0
    BY MaxJobsAssumption DEF Slots
  <2> QED
    BY <1>3, <1>5, <1>6, <1>7, <2>1, <2>2
<1>12. Queue(r)
  <2>1. \A x \in Slots : Startable(r, x) <=> Startable(p, x)
    BY <1>5 DEF Startable
  <2>2. r.nStartedHandle = p.nStartedHandle
    BY <1>1 DEF Finishes
  <2> QED
    BY <1>1, <2>1, <2>2 DEF PoolInv, Queue, Sorted
<1>13. FreeJobs(r)
  <2>1. FreeSlots(r) = FreeSlots(p) \cup D /\ FreeSlots(p) \cap D = {}
    BY <1>3, <1>4, <1>6 DEF FreeSlots
  <2>2. IsFiniteSet(FreeSlots(p)) /\ IsFiniteSet(D)
    BY <1>3, SlotsFinite DEF FreeSlots
  <2>3. Cardinality(FreeSlots(p) \cup D)
          = Cardinality(FreeSlots(p)) + Cardinality(D) - Cardinality(FreeSlots(p) \cap D)
    BY <2>2, FS_Union
  <2>4. Cardinality({}) = 0
    BY FS_EmptySet
  <2>5. Cardinality(FreeSlots(p)) \in Nat /\ Cardinality(D) \in Nat
    BY <2>2, FS_CardinalityType
  <2>6. r.nFreeJobs = p.nFreeJobs + Cardinality(D)
    BY <1>1 DEF Finishes
  <2>7. p.nFreeJobs = Cardinality(FreeSlots(p))
    BY DEF PoolInv, FreeJobs
  <2>8. Cardinality(FreeSlots(r)) = Cardinality(FreeSlots(p)) + Cardinality(D)
    BY <2>1, <2>3, <2>4, <2>5
  <2> QED
    BY <2>6, <2>7, <2>8 DEF FreeJobs
<1> QED
  BY <1>1, <1>6, <1>8, <1>9, <1>10, <1>11, <1>12, <1>13 DEF PoolInv, r

-----------------------------------------------------------------------------
(* Jq2Wait and Jq2Start *)

\* r is p but for the counts of waiters.
SamePool(p, r) ==
  /\ r.nStartedHandle = p.nStartedHandle /\ r.nFinishedHandle = p.nFinishedHandle
  /\ r.nNumJobs = p.nNumJobs /\ r.nNumStarted = p.nNumStarted
  /\ r.num_finished_jobs = p.num_finished_jobs /\ r.nParent = p.nParent
  /\ r.nFreeJobs = p.nFreeJobs /\ r.nNextHandle = p.nNextHandle

\* The count of waiters, a byte that wraps, is no part of the rest.
LEMMA WaitersInv ==
  ASSUME NEW p, PoolInv(p), NEW s \in Slots
  PROVE  /\ PoolInv(AddWaiter(p, s)) /\ SamePool(p, AddWaiter(p, s))
         /\ PoolInv(DropWaiter(p, s)) /\ SamePool(p, DropWaiter(p, s))
<1> DEFINE w == p.nWaiters[s]
<1>1. w \in 0 .. 255 /\ (w + 1) % 256 \in 0 .. 255 /\ (w - 1) % 256 \in 0 .. 255
  <2>1. w \in 0 .. 255
    BY PoolTypes DEF PoolInv
  <2> HIDE DEF w
  <2> QED
    BY <2>1
<1>2. ASSUME NEW v \in 0 .. 255, NEW r, r = [p EXCEPT !.nWaiters[s] = v]
      PROVE  PoolInv(r) /\ SamePool(p, r)
  <2>1. p \in Pools
    BY DEF PoolInv
  <2>2. p = PoolOf(p.nStartedHandle, p.nFinishedHandle, p.nNumJobs, p.nNumStarted,
                   p.num_finished_jobs, p.nParent, p.children, p.nPrio,
                   p.nWaiters, p.list, p.nFreeJobs, p.nNextHandle)
    BY <2>1, PoolRecord
  <2> DEFINE i == [p.nWaiters EXCEPT ![s] = v]
  <2>3. i \in [Slots -> 0 .. 255]
    BY <2>1, PoolTypes
  <2>4. r = PoolOf(p.nStartedHandle, p.nFinishedHandle, p.nNumJobs, p.nNumStarted,
                   p.num_finished_jobs, p.nParent, p.children, p.nPrio,
                   i, p.list, p.nFreeJobs, p.nNextHandle)
    BY <1>2, <2>1, WaitersRecord
  <2> HIDE DEF i
  <2>5. r \in Pools
    BY <2>1, <2>3, <2>4, PoolTypes DEF PoolOf, Pools
  <2>6. /\ SamePool(p, r) /\ r.children = p.children /\ r.nPrio = p.nPrio /\ r.list = p.list
    BY <2>4, PoolOfFields DEF SamePool
  <2>7. /\ \A x : PendingJobs(r, x) <=> PendingJobs(p, x)
        /\ \A x : Startable(r, x) <=> Startable(p, x)
    BY <2>6 DEF SamePool, PendingJobs, Startable
  <2>8. Handles(r) /\ Counts(r) /\ PendingIff(r)
    BY <2>6, <2>7 DEF PoolInv, SamePool, Handles, Counts, PendingIff
  <2>9. Tree(r) /\ FreeJobs(r)
    BY <2>6, <2>7 DEF PoolInv, SamePool, Tree, FreeJobs, FreeSlots
  <2>10. Queue(r)
    BY <2>6, <2>7 DEF PoolInv, SamePool, Queue, Sorted
  <2> QED
    BY <2>5, <2>6, <2>8, <2>9, <2>10 DEF PoolInv
<1>3. /\ AddWaiter(p, s) = [p EXCEPT !.nWaiters[s] = (w + 1) % 256]
      /\ DropWaiter(p, s) = [p EXCEPT !.nWaiters[s] = (w - 1) % 256]
  BY DEF AddWaiter, DropWaiter
<1> HIDE DEF w
<1>4. /\ PoolInv([p EXCEPT !.nWaiters[s] = (w + 1) % 256])
      /\ SamePool(p, [p EXCEPT !.nWaiters[s] = (w + 1) % 256])
  BY <1>1, <1>2, Zenon
<1>5. /\ PoolInv([p EXCEPT !.nWaiters[s] = (w - 1) % 256])
      /\ SamePool(p, [p EXCEPT !.nWaiters[s] = (w - 1) % 256])
  BY <1>1, <1>2, Zenon
<1> QED
  BY <1>3, <1>4, <1>5

\* The pool of Jq2Start.
LEMMA EmptyPoolInv ==
  /\ PoolInv(EmptyPool)
  /\ EmptyPool.nNextHandle = 1 /\ EmptyPool.nFreeJobs = MaxJobs - 1
  /\ \A s \in Slots : /\ EmptyPool.nStartedHandle[s] = 0 /\ EmptyPool.nFinishedHandle[s] = 0
                      /\ EmptyPool.nNumJobs[s] = 0 /\ EmptyPool.nNumStarted[s] = 0
                      /\ EmptyPool.num_finished_jobs[s] = 0 /\ EmptyPool.nParent[s] = 0
<1> DEFINE p == EmptyPool
<1>1. /\ p.nStartedHandle = [s \in Slots |-> 0] /\ p.nFinishedHandle = [s \in Slots |-> 0]
      /\ p.nNumJobs = [s \in Slots |-> 0] /\ p.nNumStarted = [s \in Slots |-> 0]
      /\ p.num_finished_jobs = [s \in Slots |-> 0] /\ p.nParent = [s \in Slots |-> 0]
      /\ p.children = [s \in Slots |-> <<>>] /\ p.list = [i \in Prios |-> <<>>]
      /\ p.nFreeJobs = MaxJobs - 1 /\ p.nNextHandle = 1
  BY DEF EmptyPool
<1>2. p \in Pools
  BY MaxJobsAssumption DEF EmptyPool, Pools
<1> HIDE DEF p
<1>3. \A x \in Slots : /\ ~PendingJobs(p, x) /\ ~Startable(p, x)
                       /\ p.num_finished_jobs[x] = 0 /\ p.nNumStarted[x] = 0
                       /\ p.nNumJobs[x] = 0
  BY <1>1 DEF PendingJobs, Startable
<1>4. \A c : ~Has(<<>>, c)
  BY DEF Has
<1>5. Handles(p)
  <2>1. 1 % MaxJobs # 0
    BY MaxJobsAssumption
  <2> QED
    BY <1>1, <2>1 DEF Handles
<1>6. Counts(p) /\ PendingIff(p)
  BY <1>1, <1>3, <1>4 DEF Counts, PendingIff
<1>7. Tree(p)
  BY <1>1, <1>3, <1>4 DEF Tree, Distinct
<1>8. Queue(p)
  BY <1>1, <1>3, <1>4 DEF Queue, Sorted
<1>9. FreeJobs(p)
  <2>1. FreeSlots(p) = Slots
    BY <1>3 DEF FreeSlots
  <2> QED
    BY <1>1, <2>1, SlotsFinite DEF FreeJobs
<1> QED
  BY <1>1, <1>2, <1>5, <1>6, <1>7, <1>8, <1>9 DEF PoolInv, p
=============================================================================
