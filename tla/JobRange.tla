------------------------------ MODULE JobRange ------------------------------
(***************************************************************************)
(* How one job is cut into sub-jobs: Jq2Add's default and the split of the *)
(* item range in Jq2ExecuteJob (JobSystem_Jq.cpp), the one of              *)
(* NwJobScheduler_Serial::AddJob (TaskSchedulerInterface.cpp), and the     *)
(* wrapper of getJobFun that runs the destructor of the job's data in the  *)
(* call that is told is_last_job.                                          *)
(*                                                                         *)
(* A behaviour is the life of one job: its sub-jobs start in the order of  *)
(* their index and, on several threads, return in any order.               *)
(***************************************************************************)
EXTENDS Integers, FiniteSets

CONSTANTS MaxSub,     \* bound on the sub-jobs asked for
          MaxRange,   \* bound on the items
          NumThreads  \* threads that run the sub-jobs of the job queue

ASSUME SubAssumption == MaxSub \in Nat /\ MaxSub > 0
ASSUME RangeAssumption == MaxRange \in Nat
ASSUME ThreadAssumption == NumThreads \in Nat /\ NumThreads > 0

VARIABLES serial,   \* TRUE: NwJobScheduler_Serial, FALSE: the job queue
          num,      \* nNumJobs
          range,    \* nRange
          started,  \* sub-jobs whose function has been called
          running,  \* those whose function has not returned
          done,     \* how often each item has been processed
          deleted   \* how often the destructor of the data has run

vars == <<serial, num, range, started, running, done, deleted>>

Items == 0 .. MaxSub + MaxRange

-----------------------------------------------------------------------------
GetRangeStartFirst(i, fraction, remainder) ==  \* mutant: all of it to the first
  IF i > 0 THEN i * fraction + remainder ELSE 0
GetRangeStartBelow(i, fraction, remainder) ==  \* mutant: the remainder is lost
  IF i > 0 THEN i * fraction ELSE 0
GetRangeStartPast(i, fraction, remainder) ==  \* mutant: the remainder has no limit
  i * fraction + i

\* Jq2GetRangeStart.
GetRangeStart(i, fraction, remainder) ==
  IF i > 0 THEN i * fraction + (IF remainder <= i THEN remainder ELSE i) ELSE 0

\* The first item of sub-job i of n over r items; sub-job i ends where
\* sub-job i+1 starts.
QueueStart(i, n, r) ==
  LET fraction == r \div n
  IN  GetRangeStart(i, fraction, r - fraction * n)

\* NwJobScheduler_Serial::AddJob cuts by the quotient alone.
SerialStart(i, n, r) == i * (r \div n)
SerialEndShort(i, n, r) == SerialStart(i, n, r) + (r \div n) - 1  \* mutant: inclusive
SerialEnd(i, n, r) ==
  LET end == SerialStart(i, n, r) + (r \div n) IN IF end < r THEN end ELSE r

RangeStart(i) == IF serial THEN SerialStart(i, num, range) ELSE QueueStart(i, num, range)
RangeEnd(i) == IF serial THEN SerialEnd(i, num, range) ELSE QueueStart(i + 1, num, range)
ItemsOf(i) == {x \in Items : RangeStart(i) <= x /\ x < RangeEnd(i)}

IndexIsCount(i) == i = num  \* mutant: the index is compared with the count
IsLastJob(i) == RangeEnd(i) = range

-----------------------------------------------------------------------------
\* A request for n > 0 sub-jobs over r items (-1: not given).  The queue takes
\* one item for each sub-job then; the serial scheduler makes a single call
\* when there is nothing to split.  (No caller asks Jq2Add for -1 sub-jobs.)
Request(n, r) ==
  IF serial THEN num = (IF r > 0 THEN n ELSE 1) /\ range = r
            ELSE num = n /\ range = (IF r < 0 THEN n ELSE r)

Init ==
  /\ serial \in BOOLEAN
  /\ num \in 1 .. MaxSub /\ range \in -1 .. MaxSub + MaxRange
  /\ \E n \in 1 .. MaxSub, r \in -1 .. MaxRange : Request(n, r)
  /\ started = 0
  /\ running = {}
  /\ done = [x \in Items |-> 0]
  /\ deleted = 0

CallOneMore ==  \* mutant: Jq2IncrementStarted leaves the job listed once too long
  /\ started <= num
  /\ Cardinality(running) < (IF serial THEN 1 ELSE NumThreads)
  /\ running' = running \cup {started}
  /\ started' = started + 1
  /\ UNCHANGED <<serial, num, range, done, deleted>>

\* Jq2TakeJob and the call in Jq2ExecuteJob; the serial scheduler calls the
\* function again only when it has returned.
Call ==
  /\ started < num
  /\ Cardinality(running) < (IF serial THEN 1 ELSE NumThreads)
  /\ running' = running \cup {started}
  /\ started' = started + 1
  /\ UNCHANGED <<serial, num, range, done, deleted>>

\* JobFunction of getJobFun: Run on the items, then the destructor.
Return(i) ==
  /\ running' = running \ {i}
  /\ done' = [x \in Items |-> IF x \in ItemsOf(i) THEN done[x] + 1 ELSE done[x]]
  /\ deleted' = IF IsLastJob(i) THEN deleted + 1 ELSE deleted
  /\ UNCHANGED <<serial, num, range, started>>

AllReturned == started = num /\ running = {}

\* Nothing more happens to a job that is done.
Finished == AllReturned /\ UNCHANGED vars

Next == Call \/ (\E i \in running : Return(i)) \/ Finished

Spec == Init /\ [][Next]_vars

-----------------------------------------------------------------------------
TypeOK ==
  /\ serial \in BOOLEAN
  /\ num \in 1 .. MaxSub
  /\ range \in -1 .. MaxSub + MaxRange
  /\ started \in 0 .. num
  /\ running \subseteq 0 .. started - 1
  /\ done \in [Items -> Nat]
  /\ deleted \in Nat

\* No item is processed twice, and no item outside the range is touched,
\* whatever the order in which the sub-jobs return.
EachItemAtMostOnce ==
  \A x \in Items : done[x] <= (IF x < range THEN 1 ELSE 0)

\* When all sub-jobs of a job of the queue have returned, every item of the
\* range has been processed.
QueueMissesNothing ==
  ~serial /\ AllReturned => \A x \in Items : x < range => done[x] = 1

\* The serial scheduler leaves out the items of the remainder, at the end of
\* the range, and no others: it is not a drop-in for the queue unless the
\* sub-jobs divide the range.
SerialMissesRemainder ==
  serial /\ AllReturned =>
    \A x \in Items : x < range => (done[x] = 1 <=> x < range - (range % num))

\* The items are spread evenly: no two sub-jobs differ by more than one item
\* ("splits range evenly to jobs", at Jq2GetRangeStart).
Size(i) == RangeEnd(i) - RangeStart(i)
EvenSplit == \A i, j \in 0 .. num - 1 : Size(i) <= Size(j) + 1

\* The data of a queue's job with at least as many items as sub-jobs is
\* destroyed by exactly one sub-job.
DeletedOnceIfEnoughItems ==
  ~serial /\ AllReturned /\ num <= range => deleted = 1

\* is_last_job is there "for invoking job destructor": the data is destroyed
\* when no sub-job runs on it or is still to be called with it, at least if
\* there are as many items as sub-jobs.
NotUsedAfterDelete == deleted > 0 /\ num <= range => AllReturned
=============================================================================
