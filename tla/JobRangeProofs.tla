--------------------------- MODULE JobRangeProofs ---------------------------
(***************************************************************************)
(* Proofs about JobRange for every number of items, sub-jobs and threads.  *)
(* The split is arithmetic: the starts of the sub-jobs grow with their     *)
(* index from 0 to the range, so that the sub-jobs are disjoint and cover  *)
(* it.  The invariant then says which items have been processed: those of  *)
(* the sub-jobs that have returned, each once.                             *)
(***************************************************************************)
EXTENDS JobRange, TLAPS

-----------------------------------------------------------------------------
(* Arithmetic *)

\* Quotient and remainder of a division by a positive number.
LEMMA Division ==
  ASSUME NEW r \in Nat, NEW n \in Nat, n > 0
  PROVE  /\ r \div n \in Nat
         /\ r - (r \div n) * n \in 0 .. n - 1
<1>1. r = n * (r \div n) + (r % n) /\ r % n \in 0 .. n - 1 /\ r \div n \in Int
  BY SMT
<1>2. r \div n >= 0
  BY SMT
<1> QED
  BY <1>1, <1>2, SMT

\* Products of naturals are naturals and grow with each factor.
LEMMA Product ==
  ASSUME NEW a \in Nat, NEW b \in Nat, NEW k \in Nat, a <= b
  PROVE  a * k \in Nat /\ b * k \in Nat /\ a * k <= b * k
<1>1. a * k \in Nat /\ b * k \in Nat /\ (b - a) * k \in Nat
  BY SMT
<1>2. b * k = a * k + (b - a) * k
  BY SMT
<1> QED
  BY <1>1, <1>2, SMT

\* Jq2GetRangeStart in one formula.
LEMMA GetRangeStartIs ==
  ASSUME NEW i \in Nat, NEW f \in Nat, NEW m \in Nat
  PROVE  GetRangeStart(i, f, m) = i * f + (IF m <= i THEN m ELSE i)
BY SMT DEF GetRangeStart

\* The starts of two neighbours differ by the quotient, and one more for the
\* first sub-jobs, as many as the remainder.
LEMMA GetRangeStartStep ==
  ASSUME NEW i \in Nat, NEW f \in Nat, NEW m \in Nat
  PROVE  /\ GetRangeStart(i, f, m) \in Nat
         /\ GetRangeStart(i + 1, f, m)
              = GetRangeStart(i, f, m) + f + (IF i < m THEN 1 ELSE 0)
<1>1. (i + 1) * f = i * f + f /\ i * f \in Nat
  BY SMT
<1>2. GetRangeStart(i, f, m) = i * f + (IF m <= i THEN m ELSE i)
  BY GetRangeStartIs
<1>3. GetRangeStart(i + 1, f, m) = (i + 1) * f + (IF m <= i + 1 THEN m ELSE i + 1)
  BY GetRangeStartIs
<1> QED
  BY <1>1, <1>2, <1>3, SMT

\* The start of a sub-job is not before the start of an earlier one.
LEMMA GetRangeStartGrows ==
  ASSUME NEW i \in Nat, NEW j \in Nat, i <= j, NEW f \in Nat, NEW m \in Nat
  PROVE  GetRangeStart(i, f, m) <= GetRangeStart(j, f, m)
<1>1. i * f \in Nat /\ j * f \in Nat /\ i * f <= j * f
  BY Product
<1>2. GetRangeStart(i, f, m) = i * f + (IF m <= i THEN m ELSE i)
  BY GetRangeStartIs
<1>3. GetRangeStart(j, f, m) = j * f + (IF m <= j THEN m ELSE j)
  BY GetRangeStartIs
<1> QED
  BY <1>1, <1>2, <1>3, SMT

\* The queue's split: it begins at 0, ends at the range, and every sub-job has
\* the quotient of items or one more.
LEMMA QueueSplit ==
  ASSUME NEW r \in Nat, NEW n \in Nat, n > 0
  PROVE  /\ QueueStart(0, n, r) = 0
         /\ QueueStart(n, n, r) = r
         /\ \A i \in Nat : QueueStart(i, n, r) \in Nat
         /\ \A i \in Nat : QueueStart(i + 1, n, r) - QueueStart(i, n, r)
                             \in {r \div n, (r \div n) + 1}
         /\ \A i, j \in Nat : i <= j => QueueStart(i, n, r) <= QueueStart(j, n, r)
<1> DEFINE f == r \div n
           m == r - f * n
<1>1. f \in Nat /\ m \in 0 .. n - 1
  BY Division
<1>2. \A i : QueueStart(i, n, r) = GetRangeStart(i, f, m)
  BY DEF QueueStart
<1>a. m \in Nat /\ m < n /\ f * n \in Nat /\ n * f = f * n
  BY <1>1, SMT
<1> HIDE DEF f
<1>3. QueueStart(0, n, r) = 0
  BY <1>1, <1>2, SMT DEF GetRangeStart
<1>4. QueueStart(n, n, r) = r
  <2>1. GetRangeStart(n, f, m) = n * f + (IF m <= n THEN m ELSE n)
    BY <1>1, <1>a, GetRangeStartIs
  <2> QED
    BY <1>a, <1>2, <2>1, SMT
<1>5. ASSUME NEW i \in Nat
      PROVE  /\ QueueStart(i, n, r) \in Nat
             /\ QueueStart(i + 1, n, r) - QueueStart(i, n, r) \in {f, f + 1}
  <2>1. /\ GetRangeStart(i, f, m) \in Nat
        /\ GetRangeStart(i + 1, f, m)
              = GetRangeStart(i, f, m) + f + (IF i < m THEN 1 ELSE 0)
    BY <1>1, <1>a, GetRangeStartStep
  <2> HIDE DEF m
  <2> QED
    BY <1>1, <1>2, <2>1, SMT
<1>6. ASSUME NEW i \in Nat, NEW j \in Nat, i <= j
      PROVE  QueueStart(i, n, r) <= QueueStart(j, n, r)
  BY <1>1, <1>a, <1>2, <1>6, GetRangeStartGrows
<1> QED
  BY <1>3, <1>4, <1>5, <1>6 DEF f

\* Every item of the range is an item of some sub-job.
LEMMA QueueCovers ==
  ASSUME NEW r \in Nat, NEW n \in Nat, n > 0, NEW x \in Nat, x < r
  PROVE  \E i \in 0 .. n - 1 : QueueStart(i, n, r) <= x /\ x < QueueStart(i + 1, n, r)
<1> DEFINE f == r \div n
           m == r - f * n
<1>1. f \in Nat /\ m \in 0 .. n - 1 /\ f * n \in Nat
  BY Division, SMT
<1>2. \A i : QueueStart(i, n, r) = GetRangeStart(i, f, m)
  BY DEF QueueStart
<1>3. r = f * n + m
  BY <1>1, SMT
<1> HIDE DEF f, m
<1>4. \A i \in Nat : /\ GetRangeStart(i, f, m) = i * f + (IF m <= i THEN m ELSE i)
                     /\ GetRangeStart(i + 1, f, m)
                          = (i + 1) * f + (IF m <= i + 1 THEN m ELSE i + 1)
  BY <1>1, GetRangeStartIs, SMT
<1>5. CASE x < m * (f + 1)
  <2> DEFINE i == x \div (f + 1)
  <2>1. i \in Nat /\ x - i * (f + 1) \in 0 .. f
    BY <1>1, Division, SMT
  <2> HIDE DEF i
  <2>2. i < m
    <3>1. m <= i => m * (f + 1) <= i * (f + 1)
      BY <1>1, <2>1, Product, SMT
    <3> QED
      BY <1>1, <1>5, <2>1, <3>1, SMT
  <2>3. i * (f + 1) = i * f + i /\ (i + 1) * f = i * f + f /\ i * f \in Nat
    BY <1>1, <2>1, SMT
  <2>4. QueueStart(i, n, r) <= x /\ x < QueueStart(i + 1, n, r)
    BY <1>1, <1>2, <1>4, <2>1, <2>2, <2>3, SMT
  <2> QED
    BY <1>1, <2>1, <2>2, <2>4, SMT
<1>6. CASE ~(x < m * (f + 1))
  <2>1. m * (f + 1) = m * f + m /\ m * f \in Nat
    BY <1>1, SMT
  <2>2. f > 0 /\ x - m \in Nat
    BY <1>1, <1>3, <1>6, <2>1, SMT
  <2> DEFINE i == (x - m) \div f
  <2>3. i \in Nat /\ (x - m) - i * f \in 0 .. f - 1
    BY <1>1, <2>2, Division, SMT
  <2> HIDE DEF i
  <2>4. (i + 1) * f = i * f + f /\ i * f \in Nat
    BY <1>1, <2>3, SMT
  <2>5. m <= i
    <3>1. i + 1 <= m => (i + 1) * f <= m * f
      BY <1>1, <2>3, Product, SMT
    <3> QED
      BY <1>1, <1>6, <2>1, <2>3, <2>4, <3>1, SMT
  <2>6. i < n
    <3>1. n <= i => n * f <= i * f
      BY <1>1, <2>3, Product, SMT
    <3>2. n * f = f * n
      BY <1>1, SMT
    <3> QED
      BY <1>1, <1>3, <2>1, <2>3, <2>4, <3>1, <3>2, SMT
  <2>7. QueueStart(i, n, r) <= x /\ x < QueueStart(i + 1, n, r)
    BY <1>1, <1>2, <1>4, <2>3, <2>4, <2>5, SMT
  <2> QED
    BY <2>3, <2>6, <2>7, SMT
<1> QED
  BY <1>5, <1>6

-----------------------------------------------------------------------------
(* The two schedulers *)

\* What Init leaves of the request: the serial scheduler alone may keep a
\* range without items, and then for a single call.
Requested ==
  /\ ~serial => range >= 0
  /\ serial /\ range <= 0 => num = 1

\* The serial split: i quotients before sub-job i, one quotient for each.
LEMMA SerialSplit ==
  ASSUME NEW r \in Nat, NEW n \in Nat, n > 0, NEW i \in 0 .. n - 1
  PROVE  /\ SerialStart(i, n, r) \in Nat
         /\ SerialEnd(i, n, r) = SerialStart(i, n, r) + (r \div n)
         /\ SerialEnd(i, n, r) <= r
<1> DEFINE f == r \div n
<1>1. f \in Nat /\ f * n \in Nat /\ f * n <= r
  BY Division, SMT
<1> HIDE DEF f
<1>2. (i + 1) * f <= n * f
  BY <1>1, Product, SMT
<1>3. (i + 1) * f = i * f + f /\ n * f = f * n /\ i * f \in Nat
  BY <1>1, SMT
<1>4. SerialStart(i, n, r) = i * f
  BY DEF SerialStart, f
<1>5. SerialEnd(i, n, r) = IF i * f + f < r THEN i * f + f ELSE r
  BY DEF SerialStart, SerialEnd, f
<1>6. SerialEnd(i, n, r) = i * f + f
  BY <1>1, <1>2, <1>3, <1>5, SMT
<1> QED
  BY <1>1, <1>2, <1>3, <1>4, <1>6, SMT DEF f

\* The serial split goes up.
LEMMA SerialGrows ==
  ASSUME NEW r \in Nat, NEW n \in Nat, n > 0,
         NEW i \in 0 .. n - 1, NEW j \in 0 .. n - 1, i < j
  PROVE  SerialEnd(i, n, r) <= SerialStart(j, n, r)
<1> DEFINE f == r \div n
<1>1. f \in Nat
  BY Division
<1>2. SerialEnd(i, n, r) = i * f + f /\ SerialStart(j, n, r) = j * f
  BY SerialSplit DEF SerialStart, f
<1> HIDE DEF f
<1>3. (i + 1) * f <= j * f /\ (i + 1) * f = i * f + f
  BY <1>1, Product, SMT
<1> QED
  BY <1>2, <1>3

\* For both schedulers: sub-jobs begin at or after 0 and end within the range,
\* one ends before the next begins, and their sizes differ by one at most.
LEMMA Split ==
  ASSUME TypeOK, Requested
  PROVE  /\ \A i \in 0 .. num - 1 : /\ RangeStart(i) \in Nat
                                   /\ RangeEnd(i) \in Int
                                   /\ RangeEnd(i) <= range
         /\ \A i, j \in 0 .. num - 1 : i < j => RangeEnd(i) <= RangeStart(j)
         /\ EvenSplit
<1>1. num \in Nat /\ num > 0 /\ range \in Int /\ range >= -1 /\ serial \in BOOLEAN
  BY SubAssumption, RangeAssumption, SMT DEF TypeOK
<1>2. CASE ~serial
  <2>1. range \in Nat
    BY <1>1, <1>2, SMT DEF Requested
  <2>2. \A i : RangeStart(i) = QueueStart(i, num, range) /\ RangeEnd(i) = QueueStart(i + 1, num, range)
    BY <1>2 DEF RangeStart, RangeEnd
  <2>3. /\ QueueStart(num, num, range) = range
        /\ \A i \in Nat : QueueStart(i, num, range) \in Nat
        /\ \A i \in Nat : QueueStart(i + 1, num, range) - QueueStart(i, num, range)
                             \in {range \div num, (range \div num) + 1}
        /\ \A i, j \in Nat : i <= j => QueueStart(i, num, range) <= QueueStart(j, num, range)
    BY <1>1, <2>1, QueueSplit
  <2>4. range \div num \in Nat
    BY <1>1, <2>1, Division
  <2>5. ASSUME NEW i \in 0 .. num - 1
        PROVE  RangeStart(i) \in Nat /\ RangeEnd(i) \in Int /\ RangeEnd(i) <= range
    <3>1. i \in Nat /\ i + 1 \in Nat /\ i + 1 <= num
      BY <1>1, SMT
    <3>2. /\ QueueStart(i, num, range) \in Nat
          /\ QueueStart(i + 1, num, range) \in Nat
          /\ QueueStart(i + 1, num, range) <= QueueStart(num, num, range)
      BY <1>1, <2>3, <3>1
    <3> QED
      BY <2>2, <2>3, <3>2, SMT
  <2>6. ASSUME NEW i \in 0 .. num - 1, NEW j \in 0 .. num - 1, i < j
        PROVE  RangeEnd(i) <= RangeStart(j)
    <3>1. i + 1 \in Nat /\ j \in Nat /\ i + 1 <= j
      BY <1>1, <2>6, SMT
    <3> QED
      BY <2>2, <2>3, <3>1
  <2>7. EvenSplit
    <3>1. ASSUME NEW i \in 0 .. num - 1
          PROVE  Size(i) \in {range \div num, (range \div num) + 1}
      <4>1. i \in Nat
        BY <1>1, SMT
      <4> QED
        BY <2>2, <2>3, <4>1 DEF Size
    <3> QED
      BY <2>4, <3>1, SMT DEF EvenSplit
  <2> QED
    BY <2>5, <2>6, <2>7
<1>3. CASE serial /\ range >= 0
  <2>1. range \in Nat
    BY <1>1, <1>3, SMT
  <2>2. \A i : RangeStart(i) = SerialStart(i, num, range) /\ RangeEnd(i) = SerialEnd(i, num, range)
    BY <1>3 DEF RangeStart, RangeEnd
  <2>3. \A i \in 0 .. num - 1 :
          /\ SerialStart(i, num, range) \in Nat
          /\ SerialEnd(i, num, range) = SerialStart(i, num, range) + (range \div num)
          /\ SerialEnd(i, num, range) <= range
    BY <1>1, <2>1, SerialSplit
  <2>4. \A i, j \in 0 .. num - 1 : i < j => RangeEnd(i) <= RangeStart(j)
    BY <1>1, <2>1, <2>2, SerialGrows
  <2>5. range \div num \in Nat
    BY <1>1, <2>1, Division
  <2>6. \A i \in 0 .. num - 1 : RangeStart(i) \in Nat /\ RangeEnd(i) \in Int /\ RangeEnd(i) <= range
    BY <2>2, <2>3, <2>5, SMT
  <2>7. \A i \in 0 .. num - 1 : Size(i) = range \div num
    BY <2>2, <2>3, <2>5, SMT DEF Size
  <2> QED
    BY <2>4, <2>5, <2>6, <2>7, SMT DEF EvenSplit
<1>4. CASE serial /\ range < 0
  <2>1. num = 1 /\ range = -1
    BY <1>1, <1>4, SMT DEF Requested
  <2>2. RangeStart(0) = 0 /\ RangeEnd(0) = -1
    BY <1>4, <2>1, SMT DEF RangeStart, RangeEnd, SerialStart, SerialEnd
  <2>3. \A i \in 0 .. num - 1 : i = 0
    BY <2>1, SMT
  <2> QED
    BY <2>1, <2>2, <2>3, SMT DEF EvenSplit, Size
<1> QED
  BY <1>1, <1>2, <1>3, <1>4, SMT

-----------------------------------------------------------------------------
(* The invariant *)

Returned == (0 .. started - 1) \ running

\* The items processed are those of the sub-jobs that have returned.
DoneExact ==
  \A x \in Items : done[x] = IF \E i \in Returned : x \in ItemsOf(i) THEN 1 ELSE 0

IInv == TypeOK /\ Requested /\ DoneExact

\* No item belongs to two sub-jobs.
LEMMA Disjoint ==
  ASSUME TypeOK, Requested, NEW i \in 0 .. num - 1, NEW j \in 0 .. num - 1, i # j
  PROVE  ItemsOf(i) \cap ItemsOf(j) = {}
<1>1. num \in Nat /\ Items \subseteq Int
  BY SubAssumption, RangeAssumption, SMT DEF TypeOK, Items
<1>2. /\ RangeStart(i) \in Nat /\ RangeStart(j) \in Nat
      /\ RangeEnd(i) \in Int /\ RangeEnd(j) \in Int
      /\ i < j => RangeEnd(i) <= RangeStart(j)
      /\ j < i => RangeEnd(j) <= RangeStart(i)
  BY Split
<1>3. i < j \/ j < i
  BY <1>1, SMT
<1>4. ASSUME NEW x \in ItemsOf(i), x \in ItemsOf(j)
      PROVE  FALSE
  <2>1. /\ x \in Int
        /\ RangeStart(i) <= x /\ x < RangeEnd(i)
        /\ RangeStart(j) <= x /\ x < RangeEnd(j)
    BY <1>1, <1>4 DEF ItemsOf
  <2> QED
    BY <1>2, <1>3, <2>1, SMT
<1> QED
  BY <1>4

\* The initial state satisfies the invariant.
LEMMA InitIInv == Init => IInv
<1> SUFFICES ASSUME Init PROVE IInv
  OBVIOUS
<1>1. TypeOK
  BY SubAssumption, RangeAssumption, SMT DEF Init, TypeOK
<1>2. Requested
  BY SubAssumption, RangeAssumption, SMT DEF Init, Request, Requested
<1>3. Returned = {}
  BY SMT DEF Init, Returned
<1>4. DoneExact
  BY <1>3, Zenon DEF Init, DoneExact
<1> QED
  BY <1>1, <1>2, <1>4 DEF IInv

\* The split does not change after Init.
LEMMA SplitFixed ==
  ASSUME UNCHANGED <<serial, num, range>>
  PROVE  /\ \A i : ItemsOf(i)' = ItemsOf(i)
         /\ Requested <=> Requested'
BY Zenon DEF ItemsOf, RangeStart, RangeEnd, Requested

\* A sub-job that starts has processed nothing.
LEMMA CallIInv == IInv /\ Call => IInv'
<1> SUFFICES ASSUME IInv, Call PROVE IInv'
  OBVIOUS
<1>1. TypeOK'
  BY SubAssumption, RangeAssumption, SMT DEF IInv, TypeOK, Call
<1>2. /\ \A i : ItemsOf(i)' = ItemsOf(i)
      /\ Requested'
  BY SplitFixed DEF IInv, Call
<1>3. Returned' = Returned
  BY SubAssumption, SMT DEF IInv, TypeOK, Call, Returned
<1>4. done' = done
  BY DEF Call
<1>5. DoneExact'
  BY <1>2, <1>3, <1>4, Zenon DEF IInv, DoneExact
<1> QED
  BY <1>1, <1>2, <1>5 DEF IInv

\* A sub-job that returns has processed its items, and nothing else.
LEMMA ReturnIInv == ASSUME IInv, NEW i \in running, Return(i) PROVE IInv'
<1>1. i \in 0 .. num - 1 /\ i \in 0 .. started - 1
  BY SubAssumption, SMT DEF IInv, TypeOK
<1>2. TypeOK'
  <2>1. done' \in [Items -> Nat]
    BY SMT DEF IInv, TypeOK, Return
  <2>2. deleted' \in Nat
    BY SMT DEF IInv, TypeOK, Return
  <2> QED
    BY <2>1, <2>2, SMT DEF IInv, TypeOK, Return
<1>3. /\ \A j : ItemsOf(j)' = ItemsOf(j)
      /\ Requested'
  BY SplitFixed DEF IInv, Return
<1>4. Returned' = Returned \cup {i} /\ i \notin Returned
  BY <1>1, Zenon DEF Return, Returned
<1>5. ASSUME NEW j \in Returned
      PROVE  ItemsOf(i) \cap ItemsOf(j) = {}
  <2>1. j \in 0 .. num - 1 /\ j # i
    BY <1>4, SubAssumption, SMT DEF IInv, TypeOK, Returned
  <2> QED
    BY <1>1, <2>1, Disjoint DEF IInv
<1>6. ASSUME NEW x \in Items
      PROVE  done'[x] = IF \E j \in Returned \cup {i} : x \in ItemsOf(j) THEN 1 ELSE 0
  <2>1. done'[x] = IF x \in ItemsOf(i) THEN done[x] + 1 ELSE done[x]
    BY Zenon DEF Return
  <2>2. done[x] = IF \E j \in Returned : x \in ItemsOf(j) THEN 1 ELSE 0
    BY Zenon DEF IInv, DoneExact
  <2>3. CASE x \in ItemsOf(i)
    <3>1. ~\E j \in Returned : x \in ItemsOf(j)
      BY <1>5, <2>3
    <3>2. done'[x] = 1
      BY <2>1, <2>2, <2>3, <3>1, SMT
    <3> QED
      BY <2>3, <3>2
  <2>4. CASE x \notin ItemsOf(i)
    <3>1. done'[x] = done[x]
      BY <2>1, <2>4
    <3>2. (\E j \in Returned \cup {i} : x \in ItemsOf(j)) <=> (\E j \in Returned : x \in ItemsOf(j))
      BY <2>4, Zenon
    <3> QED
      BY <2>2, <3>1, <3>2, Zenon
  <2> QED
    BY <2>3, <2>4
<1>7. DoneExact'
  BY <1>3, <1>4, <1>6, Zenon DEF DoneExact, Items
<1> QED
  BY <1>2, <1>3, <1>7 DEF IInv

\* A step that changes nothing keeps the invariant.
LEMMA StutterIInv == IInv /\ UNCHANGED vars => IInv'
<1> SUFFICES ASSUME IInv, UNCHANGED vars PROVE IInv'
  OBVIOUS
<1>1. /\ \A i : ItemsOf(i)' = ItemsOf(i)
      /\ Requested'
  BY SplitFixed DEF IInv, vars
<1>2. TypeOK'
  BY Zenon DEF IInv, TypeOK, vars
<1>3. DoneExact'
  BY <1>1, Zenon DEF IInv, DoneExact, Returned, vars
<1> QED
  BY <1>1, <1>2, <1>3 DEF IInv

\* The invariant holds in every reachable state.
LEMMA Invariance == Spec => []IInv
<1>1. IInv /\ [Next]_vars => IInv'
  BY CallIInv, ReturnIInv, StutterIInv DEF Next, Finished
<1> QED
  BY InitIInv, <1>1, PTL DEF Spec

-----------------------------------------------------------------------------
(* The theorems *)

\* The state keeps its type.
THEOREM TypeCorrect == Spec => []TypeOK
<1>1. IInv => TypeOK
  BY DEF IInv
<1> QED
  BY Invariance, <1>1, PTL

\* Both schedulers spread the items evenly (Jq2GetRangeStart "splits range
\* evenly to jobs"), whatever the range and the number of sub-jobs.
THEOREM SplitIsEven == Spec => []EvenSplit
<1>1. IInv => EvenSplit
  BY Split DEF IInv
<1> QED
  BY Invariance, <1>1, PTL

\* No item is processed twice or outside the range, on any number of threads.
THEOREM NoItemTwice == Spec => []EachItemAtMostOnce
<1>1. ASSUME IInv PROVE EachItemAtMostOnce
  <2> SUFFICES ASSUME NEW x \in Items
               PROVE  done[x] <= (IF x < range THEN 1 ELSE 0)
    BY DEF EachItemAtMostOnce
  <2>1. ASSUME NEW i \in Returned, x \in ItemsOf(i)
        PROVE  x < range
    <3>1. i \in 0 .. num - 1
      BY <1>1, SubAssumption, SMT DEF IInv, TypeOK, Returned
    <3>2. RangeEnd(i) \in Int /\ RangeEnd(i) <= range
      BY <1>1, <3>1, Split DEF IInv
    <3>3. x \in Int /\ range \in Int /\ x < RangeEnd(i)
      BY <1>1, <2>1, SubAssumption, RangeAssumption, SMT DEF IInv, TypeOK, Items, ItemsOf
    <3> QED
      BY <3>2, <3>3, SMT
  <2>2. done[x] = IF \E i \in Returned : x \in ItemsOf(i) THEN 1 ELSE 0
    BY <1>1, Zenon DEF IInv, DoneExact
  <2>3. x \in Int /\ range \in Int
    BY <1>1, SubAssumption, RangeAssumption, SMT DEF IInv, TypeOK, Items
  <2>4. CASE \E i \in Returned : x \in ItemsOf(i)
    BY <2>1, <2>2, <2>4, SMT
  <2>5. CASE ~\E i \in Returned : x \in ItemsOf(i)
    BY <2>2, <2>3, <2>5, SMT
  <2> QED
    BY <2>4, <2>5
<1> QED
  BY Invariance, <1>1, PTL

\* When all sub-jobs of a job of the queue have returned, every item of the
\* range has been processed.
THEOREM QueueIsComplete == Spec => []QueueMissesNothing
<1>1. ASSUME IInv PROVE QueueMissesNothing
  <2> SUFFICES ASSUME ~serial, AllReturned, NEW x \in Items, x < range
               PROVE  done[x] = 1
    BY DEF QueueMissesNothing
  <2>1. num \in Nat /\ num > 0 /\ range \in Nat /\ x \in Nat
    BY <1>1, SubAssumption, RangeAssumption, SMT DEF IInv, TypeOK, Requested, Items
  <2>2. PICK i \in 0 .. num - 1 :
          QueueStart(i, num, range) <= x /\ x < QueueStart(i + 1, num, range)
    BY <2>1, QueueCovers
  <2>3. x \in ItemsOf(i)
    BY <2>2 DEF ItemsOf, RangeStart, RangeEnd
  <2>4. i \in Returned
    BY DEF AllReturned, Returned
  <2> QED
    BY <1>1, <2>3, <2>4, Zenon DEF IInv, DoneExact
<1> QED
  BY Invariance, <1>1, PTL

\* A number is below a multiple of f exactly when its quotient is below the
\* factor.
LEMMA QuotientBelow ==
  ASSUME NEW x \in Nat, NEW f \in Nat, NEW n \in Nat, x < n * f
  PROVE  \E i \in 0 .. n - 1 : i * f <= x /\ x < i * f + f
<1>1. f > 0
  <2>1. f = 0 => n * f = 0
    BY SMT
  <2> QED
    BY <2>1, SMT
<1> DEFINE i == x \div f
<1>2. i \in Nat /\ x - i * f \in 0 .. f - 1
  BY <1>1, Division
<1> HIDE DEF i
<1>3. i * f \in Nat /\ n * f \in Nat
  BY <1>2, Product
<1>4. i * f <= x /\ x < i * f + f
  BY <1>2, <1>3, SMT
<1>5. i < n
  <2>1. n <= i => n * f <= i * f
    BY <1>2, Product
  <2> QED
    BY <1>2, <1>3, <1>4, <2>1, SMT
<1> QED
  BY <1>2, <1>4, <1>5

\* The serial scheduler processes the items up to the largest multiple of the
\* number of sub-jobs, and leaves out the rest.
THEOREM SerialLeavesRemainder == Spec => []SerialMissesRemainder
<1>1. ASSUME IInv PROVE SerialMissesRemainder
  <2> SUFFICES ASSUME serial, AllReturned, NEW x \in Items, x < range
               PROVE  done[x] = 1 <=> x < range - (range % num)
    BY DEF SerialMissesRemainder
  <2> DEFINE f == range \div num
  <2>1. num \in Nat /\ num > 0 /\ range \in Nat /\ x \in Nat
    BY <1>1, SubAssumption, RangeAssumption, SMT DEF IInv, TypeOK, Items
  <2>2. f \in Nat
    BY <2>1, Division
  <2>3. range = num * f + (range % num) /\ range % num \in Nat
    BY <2>1, SMT
  <2>4. Returned = 0 .. num - 1
    BY <1>1, <2>1, SMT DEF AllReturned, Returned
  <2>5. done[x] = 1 <=> \E i \in 0 .. num - 1 : x \in ItemsOf(i)
    <3>1. done[x] = IF \E i \in Returned : x \in ItemsOf(i) THEN 1 ELSE 0
      BY <1>1, Zenon DEF IInv, DoneExact
    <3> QED
      BY <2>4, <3>1, SMT
  <2> HIDE DEF f
  <2>6. \A i \in 0 .. num - 1 : x \in ItemsOf(i) <=> i * f <= x /\ x < i * f + f
    <3> TAKE i \in 0 .. num - 1
    <3>1. RangeStart(i) = i * f /\ RangeEnd(i) = i * f + f
      BY <2>1, SerialSplit DEF RangeStart, RangeEnd, SerialStart, f
    <3> QED
      BY <3>1, Zenon DEF ItemsOf
  <2>7. ASSUME NEW i \in 0 .. num - 1, x < i * f + f
        PROVE  x < num * f
    <3>1. (i + 1) * f <= num * f /\ num * f \in Nat
      BY <2>1, <2>2, Product, SMT
    <3>2. (i + 1) * f = i * f + f /\ i * f \in Nat
      BY <2>1, <2>2, SMT
    <3> DEFINE a == i * f
               b == num * f
    <3>3. a + f <= b
      BY <3>1, <3>2
    <3>4. a \in Nat /\ b \in Nat /\ x < a + f
      BY <2>7, <3>1, <3>2
    <3> HIDE DEF a, b
    <3>5. x < b
      BY <2>1, <2>2, <3>3, <3>4, SMT
    <3> QED
      BY <3>5 DEF b
  <2>8. x < num * f => \E i \in 0 .. num - 1 : i * f <= x /\ x < i * f + f
    BY <2>1, <2>2, QuotientBelow
  <2>9. done[x] = 1 <=> x < num * f
    BY <2>5, <2>6, <2>7, <2>8, Zenon
  <2>10. num * f = range - (range % num)
    <3>1. num * f \in Nat
      BY <2>1, <2>2, Product
    <3> QED
      BY <2>1, <2>3, <3>1, SMT
  <2> QED
    BY <2>9, <2>10
<1> QED
  BY Invariance, <1>1, PTL

-----------------------------------------------------------------------------
(* The destructor *)

\* With as many items as sub-jobs, only the last sub-job ends at the range.
LEMMA LastIsLast ==
  ASSUME NEW r \in Nat, NEW n \in Nat, n > 0, n <= r, NEW i \in 0 .. n - 1
  PROVE  QueueStart(i + 1, n, r) = r <=> i = n - 1
<1> DEFINE f == r \div n
<1>1. f \in Nat /\ f >= 1
  <2>1. f \in Nat /\ r - f * n \in 0 .. n - 1
    BY Division
  <2>2. f = 0 => f * n = 0
    BY SMT
  <2> QED
    BY <2>1, <2>2, SMT
<1>2. /\ QueueStart(n, n, r) = r
      /\ \A j \in Nat : QueueStart(j, n, r) \in Nat
      /\ \A j \in Nat : QueueStart(j + 1, n, r) - QueueStart(j, n, r) \in {f, f + 1}
      /\ \A j, k \in Nat : j <= k => QueueStart(j, n, r) <= QueueStart(k, n, r)
  BY QueueSplit
<1> HIDE DEF f
<1>3. CASE i = n - 1
  BY <1>2, <1>3, SMT
<1>4. CASE i # n - 1
  <2>1. i + 1 \in Nat /\ (i + 1) + 1 \in Nat /\ (i + 1) + 1 <= n
    BY <1>4, SMT
  <2>2. QueueStart((i + 1) + 1, n, r) <= r
    BY <1>2, <2>1
  <2>3. /\ QueueStart((i + 1) + 1, n, r) - QueueStart(i + 1, n, r) >= 1
        /\ QueueStart(i + 1, n, r) \in Nat /\ QueueStart((i + 1) + 1, n, r) \in Nat
    BY <1>1, <1>2, <2>1, SMT
  <2> QED
    BY <1>4, <2>2, <2>3, SMT
<1> QED
  BY <1>3, <1>4

\* The destructor has run if the last sub-job has returned, and once only.
DeletedExact ==
  ~serial /\ num <= range => deleted = IF num - 1 \in Returned THEN 1 ELSE 0

\* The return of a sub-job runs it in the last one only.
LEMMA ReturnDeletes ==
  ASSUME IInv, DeletedExact, NEW i \in running, Return(i)
  PROVE  DeletedExact'
<1> SUFFICES ASSUME ~serial, num <= range
             PROVE  deleted' = IF num - 1 \in Returned' THEN 1 ELSE 0
  BY DEF DeletedExact, Return
<1>1. i \in 0 .. num - 1 /\ i \in 0 .. started - 1 /\ num \in Nat /\ num > 0 /\ range \in Nat
  BY SubAssumption, RangeAssumption, SMT DEF IInv, TypeOK, Requested
<1>2. Returned' = Returned \cup {i} /\ i \notin Returned
  BY <1>1, Zenon DEF Return, Returned
<1>3. IsLastJob(i) <=> i = num - 1
  BY <1>1, LastIsLast DEF IsLastJob, RangeEnd
<1>4. deleted = IF num - 1 \in Returned THEN 1 ELSE 0
  BY DEF DeletedExact
<1>5. deleted' = IF IsLastJob(i) THEN deleted + 1 ELSE deleted
  BY DEF Return
<1>6. CASE i = num - 1
  BY <1>2, <1>3, <1>4, <1>5, <1>6, SMT
<1>7. CASE i # num - 1
  BY <1>2, <1>3, <1>4, <1>5, <1>7
<1> QED
  BY <1>6, <1>7

\* A job's data is destroyed exactly once, if it has as many items as sub-jobs.
THEOREM DestroyedOnce == Spec => []DeletedOnceIfEnoughItems
<1>1. Init => DeletedExact
  <2>1. Init => Returned = {} /\ deleted = 0
    BY SMT DEF Init, Returned
  <2> QED
    BY <2>1 DEF DeletedExact
<1>2. IInv /\ DeletedExact /\ [Next]_vars => DeletedExact'
  <2> SUFFICES ASSUME IInv, DeletedExact, [Next]_vars PROVE DeletedExact'
    OBVIOUS
  <2>1. CASE Call
    <3>1. Returned' = Returned
      BY <2>1, SubAssumption, SMT DEF IInv, TypeOK, Call, Returned
    <3> QED
      BY <2>1, <3>1 DEF Call, DeletedExact
  <2>2. CASE \E i \in running : Return(i)
    BY <2>2, ReturnDeletes
  <2>3. CASE UNCHANGED vars
    BY <2>3 DEF vars, DeletedExact, Returned
  <2> QED
    BY <2>1, <2>2, <2>3 DEF Next, Finished
<1>3. IInv /\ DeletedExact => DeletedOnceIfEnoughItems
  <2> SUFFICES ASSUME IInv, DeletedExact, ~serial, AllReturned, num <= range
               PROVE  deleted = 1
    BY DEF DeletedOnceIfEnoughItems
  <2>1. num - 1 \in Returned
    BY SubAssumption, SMT DEF IInv, TypeOK, AllReturned, Returned
  <2> QED
    BY <2>1 DEF DeletedExact
<1> QED
  BY Invariance, <1>1, <1>2, <1>3, PTL DEF Spec
=============================================================================
