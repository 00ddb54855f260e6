------------------------------ MODULE JobSlots ------------------------------
(***************************************************************************)
(* The data of Jq2State that Jq2State.Mutex protects and the functions     *)
(* that change it while the mutex is held (Core/Tasking/JobSystem_Jq.cpp). *)
(* A pool p is a record with one function over the slots per field of      *)
(* Jq2Job; every operator takes a pool and returns the changed pool, so    *)
(* that a critical section is a composition of them.                       *)
(*                                                                         *)
(* The two linked structures are sequences of slots: the doubly linked     *)
(* list of a priority (head first) and the sibling list of a parent (the   *)
(* first child first).  nWaiters is a U8 and wraps.                         *)
(***************************************************************************)
EXTENDS Integers, Sequences, FiniteSets, SequencesExt, FiniteSetsExt

CONSTANTS MaxJobs,   \* JQ2_MAX_JOBS: slot 0 is not used
          NumPrios   \* JQ2_PRIORITY_SIZE

ASSUME MaxJobsAssumption == MaxJobs \in Nat /\ MaxJobs > 1
ASSUME NumPriosAssumption == NumPrios \in Nat /\ NumPrios > 0

Slots == 1 .. MaxJobs - 1
Prios == 0 .. NumPrios - 1
GroupPrio == 7
SlotOf(h) == h % MaxJobs

\* The part of Jq2Start that resets Jq2State (a static object: zero before).
EmptyPool ==
  [nStartedHandle    |-> [s \in Slots |-> 0],
   nFinishedHandle   |-> [s \in Slots |-> 0],
   nNumJobs          |-> [s \in Slots |-> 0],
   nNumStarted       |-> [s \in Slots |-> 0],
   num_finished_jobs |-> [s \in Slots |-> 0],
   nParent           |-> [s \in Slots |-> 0],
   children          |-> [s \in Slots |-> <<>>],
   nPrio             |-> [s \in Slots |-> 0],
   nWaiters          |-> [s \in Slots |-> 0],
   list              |-> [i \in Prios |-> <<>>],
   nFreeJobs         |-> MaxJobs - 1,
   nNextHandle       |-> 1]

IsDone(p, h) == h <= p.nFinishedHandle[SlotOf(h)]
PendingJobs(p, s) == p.nFinishedHandle[s] # p.nStartedHandle[s]
Startable(p, s) == p.nNumStarted[s] < p.nNumJobs[s]

NextHandle(h) == IF (h + 1) % MaxJobs = 0 THEN h + 2 ELSE h + 1

FreeHandleNext(p) == p.nNextHandle  \* mutant: no search for a free slot

\* The second loop of Jq2FindHandle: the first handle from nNextHandle on
\* whose slot is not pending.
FreeHandle(p) ==
  Min({h \in p.nNextHandle .. p.nNextHandle + 2 * MaxJobs :
         h % MaxJobs # 0 /\ ~PendingJobs(p, SlotOf(h))})

-----------------------------------------------------------------------------
\* Jq2AttachChild: the newest child becomes the first one.
AttachChild(p, par, s) ==
  IF par = 0 THEN p ELSE [p EXCEPT !.children[par] = <<s>> \o @]

\* The assignments of Jq2FindHandle and its two callers to the fields of the
\* slot of handle h: n sub-jobs, k of them started, added under slot par.
FillSlot(p, h, n, k, prio, par) ==
  LET s == SlotOf(h)
  IN  [p EXCEPT !.nStartedHandle[s] = h,
                !.nNumJobs[s] = n,
                !.nNumStarted[s] = k,
                !.num_finished_jobs[s] = 0,
                !.nParent[s] = par,
                !.nPrio[s] = prio,
                !.nWaiters[s] = 0,
                !.nNextHandle = NextHandle(h),
                !.nFreeJobs = @ - 1]
Allocate(p, h, n, k, prio, par) ==
  AttachChild(FillSlot(p, h, n, k, prio, par), par, SlotOf(h))

PriorityListPush(p, s) ==  \* mutant: the list is a stack
  [p EXCEPT !.list[p.nPrio[s]] = <<s>> \o @]
PriorityListAdd(p, s) == [p EXCEPT !.list[p.nPrio[s]] = Append(@, s)]

\* Take the node of slot s out of a linked list.
Unlink(list, s) == RemoveAt(list, CHOOSE i \in DOMAIN list : list[i] = s)
PriorityListRemove(p, s) == [p EXCEPT !.list[p.nPrio[s]] = Unlink(@, s)]

AddJob(p, h, n, prio, par) ==
  PriorityListAdd(Allocate(p, h, n, 0, prio, par), SlotOf(h))
AddGroupUnstarted(p, h, par) ==  \* mutant: its sub-job is not started
  Allocate(p, h, 1, 0, GroupPrio, par)
AddGroupUncounted(p, h, par) ==  \* mutant: nFreeJobs is left as it was
  [Allocate(p, h, 1, 1, GroupPrio, par) EXCEPT !.nFreeJobs = p.nFreeJobs]
AddGroup(p, h, par) == Allocate(p, h, 1, 1, GroupPrio, par)

-----------------------------------------------------------------------------
\* Jq2IncrementStarted; the sub-index it returns is the count before.
IncrementStarted(p, s) ==
  LET started == [p EXCEPT !.nNumStarted[s] = @ + 1]
  IN  IF Startable(started, s) THEN started ELSE PriorityListRemove(started, s)

\* The choice of Jq2TakeJob: the head of the first list that has one, or 0.
HeadSlot(p) ==
  LET busy == {i \in Prios : p.list[i] # <<>>}
  IN  IF busy = {} THEN 0 ELSE Head(p.list[Min(busy)])

\* The choice of Jq2TakeChildJob with Jq2TreeIterate: the first slot with a
\* sub-job left in the post-order of the tree under s, s included, or 0.
\* The tree is no deeper than there are slots.
ChildSlot(p, s) ==
  LET found[d \in 0 .. MaxJobs] ==
        [x \in Slots |->
           LET hits == {i \in DOMAIN p.children[x] :
                          d > 0 /\ found[d - 1][p.children[x][i]] # 0}
           IN  IF hits # {} THEN found[d - 1][p.children[x][Min(hits)]]
               ELSE IF Startable(p, x) THEN x ELSE 0]
  IN  found[MaxJobs][s]

-----------------------------------------------------------------------------
AllStarted(p, s) == p.nNumStarted[s] = p.nNumJobs[s]  \* mutant of AllEnded
AllEnded(p, s) == p.num_finished_jobs[s] = p.nNumJobs[s]
LastChild(p, s) == p.nParent[s] # 0 /\ p.children[p.nParent[s]] = <<s>>

CheckFinishedChildless(p, s) ==  \* mutant: nFirstChild is not tested
  IF AllEnded(p, s) THEN {s} ELSE {}
CheckFinishedFlat(p, s) ==  \* mutant: the parents are not climbed
  IF p.children[s] = <<>> /\ AllEnded(p, s) THEN {s} ELSE {}

\* The slots that Jq2CheckFinished completes when it is called for s: s, if
\* nothing of it is left, then its parent if s was the last child of it and
\* all its sub-jobs have ended, and so on up the tree.
Climbs(p, x) == LastChild(p, x) /\ AllEnded(p, p.nParent[x])
ClimbedFrom(p, s, C) == s \in C /\ \A x \in C : Climbs(p, x) => p.nParent[x] \in C
CheckFinished(p, s) ==
  IF p.children[s] = <<>> /\ AllEnded(p, s)
  THEN {x \in Slots : \A C \in SUBSET Slots : ClimbedFrom(p, s, C) => x \in C}
  ELSE {}

DetachNone(p, done) == p.children  \* mutant: Jq2DetachChild is not called

\* Jq2DetachChild of each completed slot that has a parent; no two of them
\* have the same one.
DetachChildren(p, done) ==
  [x \in Slots |-> IF \E c \in done : p.nParent[c] = x
                   THEN Unlink(p.children[x], CHOOSE c \in done : p.nParent[c] = x)
                   ELSE p.children[x]]

\* Jq2IncrementFinished, and whether the call wakes the waiting threads.
Ended(p, s) == [p EXCEPT !.num_finished_jobs[s] = @ + 1]
IncrementFinished(p, s) ==
  LET e    == Ended(p, s)
      done == CheckFinished(e, s)
  IN  [e EXCEPT !.nFinishedHandle =
                     [x \in Slots |-> IF x \in done THEN e.nStartedHandle[x]
                                    ELSE e.nFinishedHandle[x]],
                !.nParent  = [x \in Slots |-> IF x \in done THEN 0 ELSE e.nParent[x]],
                !.nWaiters = [x \in Slots |-> IF x \in done THEN 0 ELSE e.nWaiters[x]],
                !.children = DetachChildren(e, done),
                !.nFreeJobs = @ + Cardinality(done)]
NotifiesOwn(p, s) ==  \* mutant: the waiters of the parents are forgotten
  CheckFinished(Ended(p, s), s) # {} /\ p.nWaiters[s] # 0
Notifies(p, s) == \E x \in CheckFinished(Ended(p, s), s) : p.nWaiters[x] # 0

\* nWaiters++ and nWaiters-- of Jq2Wait.
AddWaiter(p, s) == [p EXCEPT !.nWaiters[s] = (@ + 1) % 256]
DropWaiter(p, s) == [p EXCEPT !.nWaiters[s] = (@ - 1) % 256]
=============================================================================
