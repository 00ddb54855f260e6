------------------------------- MODULE JobPool -------------------------------
(***************************************************************************)
(* The promise of the job pool in Core/Tasking/JobSystem_Jq.cpp, without   *)
(* threads, queues or waiting: what one critical section of Jq2State.Mutex *)
(* does to the slots Jq2State.Jobs[1 .. JQ2_MAX_JOBS-1].                    *)
(*                                                                         *)
(* A handle is a number that is never a multiple of JQ2_MAX_JOBS; it lives *)
(* in the slot `handle % JQ2_MAX_JOBS' from the moment it is issued until  *)
(* all its sub-jobs and all the jobs added under it have finished.  After  *)
(* that the slot may be given to a later handle, and the old one is known  *)
(* to be done because the slot has seen a finished handle at least as big. *)
(*                                                                         *)
(* JobQueue is the detailed specification that implements this one.        *)
(***************************************************************************)
EXTENDS Integers

CONSTANTS MaxJobs,    \* JQ2_MAX_JOBS: slot 0 is not used
          MaxHandle,  \* bound on the handles issued (a U64 in the code)
          MaxSub      \* bound on the sub-jobs of a job (a U16 in the code)

ASSUME MaxJobsAssumption == MaxJobs \in Nat /\ MaxJobs > 1
ASSUME MaxHandleAssumption == MaxHandle \in Nat
ASSUME MaxSubAssumption == MaxSub \in Nat

VARIABLES nStartedHandle,     \* the last handle each slot was given to
          nFinishedHandle,    \* the last handle each slot saw finish
          nNumJobs,           \* sub-jobs of the slot's job
          nNumStarted,        \* those taken by a thread
          num_finished_jobs,  \* those whose function has returned
          nParent,            \* slot of the job it was added under, or 0
          nNextHandle,        \* where the search for a free slot begins
          issued              \* history: every handle returned so far

vars == <<nStartedHandle, nFinishedHandle, nNumJobs, nNumStarted,
          num_finished_jobs, nParent, nNextHandle, issued>>

Slots == 1 .. MaxJobs - 1
Handles == {h \in 1 .. MaxHandle : h % MaxJobs # 0}
SlotOf(h) == h % MaxJobs

NextHandlePlusOne(h) == h + 1  \* mutant: slot 0 is not skipped

\* Jq2NextHandle: the successor of a handle, over the multiples of MaxJobs.
NextHandle(h) == IF (h + 1) % MaxJobs = 0 THEN h + 2 ELSE h + 1

IsDoneStrict(h) == h < nFinishedHandle[SlotOf(h)]  \* mutant
IsDoneEqual(h) == h = nFinishedHandle[SlotOf(h)]   \* mutant

\* Jq2IsDone and Jq2PendingJobs; the 64-bit handles never wrap here.
IsDone(h) == h <= nFinishedHandle[SlotOf(h)]
Pending(s) == nFinishedHandle[s] # nStartedHandle[s]

\* A sub-job of s is held by a thread: taken, and not yet finished.
Running(s) == num_finished_jobs[s] < nNumStarted[s]
Children(s) == {c \in Slots : Pending(c) /\ nParent[c] = s}

-----------------------------------------------------------------------------
Init ==
  /\ nStartedHandle = [s \in Slots |-> 0]
  /\ nFinishedHandle = [s \in Slots |-> 0]
  /\ nNumJobs = [s \in Slots |-> 0]
  /\ nNumStarted = [s \in Slots |-> 0]
  /\ num_finished_jobs = [s \in Slots |-> 0]
  /\ nParent = [s \in Slots |-> 0]
  /\ nNextHandle = 1
  /\ issued = {}

MayIssueTaken(h, par) ==  \* mutant: the slot is not tested
  h >= nNextHandle /\ (par # 0 => Running(par))
MayIssueUnderAny(h, par) ==  \* mutant: the parent is not a running job
  h >= nNextHandle /\ ~Pending(SlotOf(h))

\* Jq2FindHandle returns a handle of a free slot; the parent is the job that
\* the calling thread runs (par = 0 outside any job).
MayIssue(h, par) ==
  /\ h >= nNextHandle
  /\ ~Pending(SlotOf(h))
  /\ par # 0 => Running(par)

\* The assignments of its callers: handle h is issued for n sub-jobs, of which
\* k count as started at once.
Issue(h, n, k, par) ==
  /\ MayIssue(h, par)
  /\ nStartedHandle' = [nStartedHandle EXCEPT ![SlotOf(h)] = h]
  /\ nNumJobs' = [nNumJobs EXCEPT ![SlotOf(h)] = n]
  /\ nNumStarted' = [nNumStarted EXCEPT ![SlotOf(h)] = k]
  /\ num_finished_jobs' = [num_finished_jobs EXCEPT ![SlotOf(h)] = 0]
  /\ nParent' = [nParent EXCEPT ![SlotOf(h)] = par]
  /\ nNextHandle' = NextHandle(h)
  /\ issued' = issued \cup {h}
  /\ UNCHANGED nFinishedHandle

\* Jq2Add: nobody has started the n sub-jobs yet.
Add(h, n, par) == Issue(h, n, 0, par)

\* Jq2GroupBegin: a job of one sub-job that its caller has already started.
GroupBegin(h, par) == Issue(h, 1, 1, par)

\* The jobs that one more finished sub-job of s completes: the least set
\* that holds every pending job with no sub-job left whose children are all
\* in the set.
Finished(s, t) == num_finished_jobs[t] + (IF t = s THEN 1 ELSE 0)
ClosedChildless(s, C) ==  \* mutant: the children are not looked at
  \A t \in Slots : Pending(t) /\ Finished(s, t) = nNumJobs[t] => t \in C
ClosedUnder(s, C) ==
  \A t \in Slots : /\ Pending(t)
                   /\ Finished(s, t) = nNumJobs[t]
                   /\ Children(t) \subseteq C
                   => t \in C
Completed(s) == {t \in Slots : \A C \in SUBSET Slots :
                                  ClosedUnder(s, C) => t \in C}

\* Jq2IncrementFinished and Jq2CheckFinished, up the tree of parents.
FinishSub(s) ==
  LET completed == Completed(s)
  IN  /\ Running(s)
      /\ num_finished_jobs' = [num_finished_jobs EXCEPT ![s] = @ + 1]
      /\ nFinishedHandle' = [t \in Slots |-> IF t \in completed
                                             THEN nStartedHandle[t]
                                             ELSE nFinishedHandle[t]]
      /\ nParent' = [t \in Slots |-> IF t \in completed THEN 0 ELSE nParent[t]]

\* Jq2IncrementStarted.
StartSub(s) ==
  /\ nNumStarted[s] < nNumJobs[s]
  /\ nNumStarted' = [nNumStarted EXCEPT ![s] = @ + 1]

Start(s) == /\ StartSub(s)
            /\ UNCHANGED <<nStartedHandle, nFinishedHandle, nNumJobs,
                           num_finished_jobs, nParent, nNextHandle, issued>>

Finish(s) == /\ FinishSub(s)
             /\ UNCHANGED <<nStartedHandle, nNumJobs, nNumStarted,
                            nNextHandle, issued>>

\* The critical sections of Jq2Worker, Jq2WaitAll, Jq2Wait and
\* Jq2ExecuteChildren that finish one sub-job and take the next.
FinishAndStart(s, t) ==
  /\ FinishSub(s)
  /\ StartSub(t)
  /\ UNCHANGED <<nStartedHandle, nNumJobs, nNextHandle, issued>>

Next ==
  \/ \E h \in Handles, n \in 1 .. MaxSub, par \in Slots \cup {0} : Add(h, n, par)
  \/ \E h \in Handles, par \in Slots \cup {0} : GroupBegin(h, par)
  \/ \E s \in Slots : Start(s)
  \/ \E s \in Slots : Finish(s)
  \/ \E s, t \in Slots : FinishAndStart(s, t)

Spec == Init /\ [][Next]_vars

-----------------------------------------------------------------------------
TypeOK ==
  /\ nStartedHandle \in [Slots -> Nat]
  /\ nFinishedHandle \in [Slots -> Nat]
  /\ nNumJobs \in [Slots -> Nat]
  /\ nNumStarted \in [Slots -> Nat]
  /\ num_finished_jobs \in [Slots -> Nat]
  /\ nParent \in [Slots -> Slots \cup {0}]
  /\ nNextHandle \in Nat /\ nNextHandle % MaxJobs # 0
  /\ issued \subseteq Handles

\* Sub-jobs are finished after they are started, and no job starts more of
\* them than it was added with.
Counted ==
  \A s \in Slots : /\ num_finished_jobs[s] <= nNumStarted[s]
                   /\ nNumStarted[s] <= nNumJobs[s]

\* A slot holds handles of its own residue, older than the next one to be
\* issued: a new handle is never one that was given out before.
OwnHandles ==
  \A s \in Slots :
    /\ nFinishedHandle[s] <= nStartedHandle[s]
    /\ nStartedHandle[s] < nNextHandle
    /\ nStartedHandle[s] # 0 => SlotOf(nStartedHandle[s]) = s

\* A job is pending exactly as long as a sub-job of it has not finished or a
\* job added under it is pending (the test of Jq2CheckFinished): it is never
\* reported done early, and never left pending with nothing to wait for.
PendingExact ==
  \A s \in Slots :
    Pending(s) <=> \/ num_finished_jobs[s] < nNumJobs[s]
                   \/ Children(s) # {}

\* The parent of a pending job is pending and was issued before it, so the
\* tree that Jq2CheckFinished climbs and Jq2TreeIterate walks has no cycle,
\* and the slot in nParent still belongs to the job it was written for.
ParentOlder ==
  \A c \in Slots :
    Pending(c) /\ nParent[c] # 0 =>
      /\ Pending(nParent[c])
      /\ nStartedHandle[nParent[c]] < nStartedHandle[c]

\* A handle that is not done still owns its slot: recycling a slot never
\* makes an older handle of the slot unfinished for ever (Jq2IsDone compares
\* with <= for this reason).
NotDoneOwnsSlot ==
  \A h \in issued : IsDone(h) \/ nStartedHandle[SlotOf(h)] = h

\* Once Jq2IsDone has returned true for an issued handle it never returns
\* false again, through any recycling of the slot.
DoneStable == [][\A h \in issued : IsDone(h) => IsDone(h)']_vars

\* A slot that a thread still runs a sub-job of keeps its handle: the thread
\* re-reads nStartedHandle from the slot after the job function returned
\* (Jq2Worker, Jq2Wait, Jq2WaitAll, Jq2FindHandle).
RunningKeepsHandle ==
  [][\A s \in Slots : Running(s) => nStartedHandle'[s] = nStartedHandle[s]]_vars
=============================================================================
