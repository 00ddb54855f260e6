------------------------------ MODULE JobQueue ------------------------------
(***************************************************************************)
(* The job queue of Core/Tasking/JobSystem_Jq.cpp with its threads: the    *)
(* worker loop, Jq2Add with the signal it sends after unlocking, groups,   *)
(* Jq2Wait with its execute and idle flags, Jq2ExecuteChildren, Jq2WaitAll *)
(* and Jq2Stop, called by the main thread and by job functions.            *)
(*                                                                         *)
(* Every thread has a stack of frames: the user code it runs at the        *)
(* bottom or inside a job function, and the queue functions in between.    *)
(* Jq2Self() is the innermost job or open group on the stack.  A critical  *)
(* section of Jq2State.Mutex is one step; the only one that does not end   *)
(* is the loop of Jq2FindHandle on a full pool, and while a thread is in   *)
(* it the variable mutex names that thread.                                *)
(***************************************************************************)
EXTENDS JobSlots

CONSTANTS Main,          \* the main thread
          Workers,       \* the worker threads
          NoThread,      \* no thread
          MaxStack,      \* JQ2_MAX_JOB_STACK
          SubCounts,     \* sub-job counts the program asks for
          UserPrios,     \* priorities the program uses
          WaitKinds,     \* flags it waits with: see AllWaitKinds
          MaxAdds,       \* bound on the jobs and groups it adds
          PoolMayFill,   \* FALSE: it never adds to a pool without a free slot
          Groups         \* TRUE: it uses groups

\* WAITFLAG_EXECUTE_SUCCESSORS or _ANY; when nothing is found, WAITFLAG_BLOCK,
\* WAITFLAG_SLEEP/SPIN ("poll"), or return as Jq2ExecuteChildren does.
AllWaitKinds == [take : {"succ", "any"}, idle : {"block", "poll", "leave"}]

ASSUME ThreadsAssumption ==
  /\ IsFiniteSet(Workers) /\ Workers # {}
  /\ Main \notin Workers /\ NoThread \notin Workers \cup {Main}
ASSUME ClientAssumption ==
  /\ SubCounts \subseteq 1 .. 2^16 - 1  \* nNumJobs is a U16
  /\ UserPrios \subseteq Prios
  /\ WaitKinds \subseteq AllWaitKinds
  /\ MaxStack \in Nat /\ MaxAdds \in Nat
  /\ PoolMayFill \in BOOLEAN /\ Groups \in BOOLEAN

Threads == {Main} \cup Workers
NumWorkers == Cardinality(Workers)

VARIABLES q,      \* the pool (JobSlots)
          mutex,  \* the thread that loops in Jq2FindHandle, or NoThread
          sem,    \* count of Jq2State.Semaphore
          nStop,
          stack,  \* the frames of each thread, innermost last
          jobs    \* history: what was issued, and how much of it has ended

vars == <<q, mutex, sem, nStop, stack, jobs>>

Top(t) == Last(stack[t])
At(t, pc) == Top(t).at = pc
Free == mutex = NoThread

\* All frames of some kinds, as pairs of a thread and a level.
FramesIn(kinds) == {f \in UNION {{t} \X DOMAIN stack[t] : t \in Threads} :
                      stack[f[1]][f[2]].at \in kinds}

SetTop(st, t, f) == [st EXCEPT ![t] = Append(Front(@), f)]
Push(st, t, f) == [st EXCEPT ![t] = Append(@, f)]
Pop(st, t) == [st EXCEPT ![t] = Front(@)]

\* A frame of user code: a job function, or the main program (handle 0).
\* mine are the handles it got from the queue.
UserFrame(h, sub) ==
  [at |-> "user", job |-> h, sub |-> sub, groups |-> <<>>, mine |-> {}]
BodyOf(p, s) == UserFrame(p.nStartedHandle[s], p.nNumStarted[s])

UserLevels(t) == {i \in DOMAIN stack[t] : stack[t][i].at = "user"}
SelfOf(f) == IF f.groups = <<>> THEN f.job ELSE Last(f.groups)

\* Jq2Self() and Jq2SelfPos.
Self(t) == SelfOf(stack[t][Max(UserLevels(t))])
SelfPos(t) ==
  LET Entries(i) == Len(stack[t][i].groups) + (IF stack[t][i].job = 0 THEN 0 ELSE 1)
  IN  MapThenSumSet(Entries, UserLevels(t))

\* SleepConditionVariableCS returns to every waiting thread (NotifyAll).
WakeAll(st) ==
  [t \in Threads |-> IF Last(st[t]).at = "blocked"
                     THEN Append(Front(st[t]), [Last(st[t]) EXCEPT !.at = "woken"])
                     ELSE st[t]]

-----------------------------------------------------------------------------
(* The parts of a critical section *)

\* The pool, and the stacks, after Jq2IncrementFinished of the work w that
\* the thread brings into the section (0: none).
AfterWork(w) == IF w = 0 THEN q ELSE IncrementFinished(q, w)
Notified(w) == IF w # 0 /\ Notifies(q, w) THEN WakeAll(stack) ELSE stack

\* Take slot s from pool p and run it: the calling frame f remembers s, and
\* the job function gets a frame of its own (Jq2IncrementStarted and
\* Jq2ExecuteJob).
Execute(t, p, s, st, f) ==
  /\ q' = IncrementStarted(p, s)
  /\ stack' = Push(SetTop(st, t, [f EXCEPT !.work = s]), t, BodyOf(p, s))

\* Return from a queue function with pool p.
Return(t, p, st) == q' = p /\ stack' = Pop(st, t)

-----------------------------------------------------------------------------
(* Jq2Add, Jq2GroupBegin, Jq2FindHandle *)

\* Handle h is issued to the user frame under the call (st is the stack
\* without the call): it is noted, a group is opened, a job is queued and the
\* caller goes on to signal the semaphore.
Issued(t, st, want) ==
  LET h    == FreeHandle(q)
      self == Self(t)
      user == [Last(st[t]) EXCEPT !.mine = @ \cup {h}]
  IN  /\ jobs' = [x \in DOMAIN jobs \cup {h} |->
                    IF x = h THEN [num |-> want.num, ended |-> 0, under |-> self]
                    ELSE jobs[x]]
      /\ IF want.group
         THEN /\ q' = AddGroup(q, h, SlotOf(self))
              /\ stack' = SetTop(st, t, [user EXCEPT !.groups = Append(@, h)])
         ELSE /\ q' = AddJob(q, h, want.num, want.prio, SlotOf(self))
              /\ stack' = Push(SetTop(st, t, user), t,
                               [at |-> "signal", num |-> want.num])

\* One pass of the loop of Jq2FindHandle, with the mutex held.  On a full
\* pool the thread takes a queued job and runs it, with the mutex released;
\* if there is none it goes round again, still holding the mutex.
FindHandle(t, st, want) ==
  LET s == IF SelfPos(t) < MaxStack THEN HeadSlot(q) ELSE 0
      f == [at |-> "full", want |-> want, work |-> 0]
  IN  IF q.nFreeJobs > 0
      THEN Issued(t, st, want) /\ mutex' = NoThread
      ELSE /\ UNCHANGED jobs
           /\ IF s # 0
              THEN Execute(t, q, s, Push(st, t, f), f) /\ mutex' = NoThread
              ELSE mutex' = t /\ stack' = Push(st, t, f) /\ UNCHANGED q

MayAdd == /\ Cardinality(DOMAIN jobs) + Cardinality(FramesIn({"full"})) < MaxAdds
          /\ PoolMayFill \/ q.nFreeJobs > 0

Add(t, prio, num) ==
  /\ At(t, "user") /\ Free /\ MayAdd
  /\ FindHandle(t, stack, [group |-> FALSE, prio |-> prio, num |-> num])
  /\ UNCHANGED <<sem, nStop>>

GroupBegin(t) ==
  /\ At(t, "user") /\ Free /\ MayAdd /\ Groups
  /\ FindHandle(t, stack, [group |-> TRUE, prio |-> GroupPrio, num |-> 1])
  /\ UNCHANGED <<sem, nStop>>

\* Back from the job it ran, the thread locks the mutex again and counts the
\* sub-job as finished, then goes round the loop.
FindFinish(t) ==
  /\ At(t, "full") /\ Top(t).work # 0 /\ Free
  /\ mutex' = t
  /\ q' = AfterWork(Top(t).work)
  /\ stack' = SetTop(Notified(Top(t).work), t, [Top(t) EXCEPT !.work = 0])
  /\ UNCHANGED <<sem, nStop, jobs>>

FindAgain(t) ==
  /\ At(t, "full") /\ mutex = t
  /\ FindHandle(t, Pop(stack, t), Top(t).want)
  /\ UNCHANGED <<sem, nStop>>

SignalUnlimited(n) == sem' = sem + n  \* mutant: neither clamped nor refused
SignalTight(n) ==  \* mutant: the maximum is the number of workers
  LET k == Min({n, NumWorkers})
  IN  sem' = IF sem + k > NumWorkers THEN sem ELSE sem + k
SignalOneLess(n) ==  \* mutant: the caller counts itself in
  LET k == Min({n, NumWorkers}) - 1
  IN  sem' = IF sem + k > 2 * NumWorkers THEN sem ELSE sem + k

\* Semaphore.Signal after the mutex is released.  The count is clamped to
\* the number of workers, and ReleaseSemaphore adds nothing at all when the
\* maximum of twice that number would be exceeded.
SignalSemaphore(n) ==
  LET k == Min({n, NumWorkers})
  IN  sem' = IF sem + k > 2 * NumWorkers THEN sem ELSE sem + k

AddSignal(t) ==
  /\ At(t, "signal")
  /\ SignalSemaphore(Top(t).num)
  /\ stack' = Pop(stack, t)
  /\ UNCHANGED <<q, mutex, nStop, jobs>>

\* Jq2GroupEnd: pop the group off the self stack, then finish its only
\* sub-job.
GroupEnd(t) ==
  /\ At(t, "user") /\ Top(t).groups # <<>> /\ Free
  /\ LET g == Last(Top(t).groups)
     IN  /\ q' = IncrementFinished(q, SlotOf(g))
         /\ stack' = SetTop(Notified(SlotOf(g)), t,
                            [Top(t) EXCEPT !.groups = Front(@)])
         /\ jobs' = [jobs EXCEPT ![g].ended = @ + 1]
  /\ UNCHANGED <<mutex, sem, nStop>>

\* A job function returns to Jq2ExecuteJob (every group it opened is closed);
\* its caller still has to count the sub-job as finished.
UserReturn(t) ==
  /\ At(t, "user") /\ Top(t).job # 0 /\ Top(t).groups = <<>>
  /\ jobs' = [jobs EXCEPT ![Top(t).job].ended = @ + 1]
  /\ stack' = Pop(stack, t)
  /\ UNCHANGED <<q, mutex, sem, nStop>>

-----------------------------------------------------------------------------
(* Jq2Worker *)

WorkerTest(t) ==
  /\ At(t, "test")
  /\ stack' = SetTop(stack, t, [at |-> IF nStop = 0 THEN "scan" ELSE "exit", work |-> 0])
  /\ UNCHANGED <<q, mutex, sem, nStop, jobs>>

WorkerScan(t) ==
  /\ At(t, "scan") /\ Free
  /\ LET p == AfterWork(Top(t).work)
         st == Notified(Top(t).work)
     IN  IF HeadSlot(p) # 0
         THEN Execute(t, p, HeadSlot(p), st, Top(t))
         ELSE /\ q' = p
              /\ stack' = SetTop(st, t, [at |-> "sleep", work |-> 0])
  /\ UNCHANGED <<mutex, sem, nStop, jobs>>

WorkerWake(t) ==
  /\ At(t, "sleep") /\ sem > 0
  /\ sem' = sem - 1
  /\ stack' = SetTop(stack, t, [at |-> "test", work |-> 0])
  /\ UNCHANGED <<q, mutex, nStop, jobs>>

-----------------------------------------------------------------------------
(* Jq2Wait and Jq2ExecuteChildren *)

\* The program waits for a job it added itself, not for a group it has not
\* closed.  The first test of Jq2IsDone takes no lock.
Wait(t, h, k) ==
  /\ At(t, "user") /\ h \in Top(t).mine
  /\ \A i \in DOMAIN Top(t).groups : Top(t).groups[i] # h
  /\ ~IsDone(q, h)
  /\ stack' = Push(stack, t, [at |-> "wait", for |-> h, kind |-> k, work |-> 0])
  /\ UNCHANGED <<q, mutex, sem, nStop, jobs>>

\* `while(!Jq2IsDone)' ends without a lock, with no work to hand back.
WaitDone(t) ==
  /\ At(t, "wait") /\ Top(t).work = 0 /\ IsDone(q, Top(t).for)
  /\ Return(t, q, stack)
  /\ UNCHANGED <<mutex, sem, nStop, jobs>>

\* What the locked part of the loop takes next: any job, or one of the tree.
WaitChoice(p, f) ==
  IF f.kind.take = "any" THEN HeadSlot(p) ELSE ChildSlot(p, SlotOf(f.for))

\* It returns when the job is done (the section after the loop has the same
\* effect); Jq2ExecuteChildren also when it has found nothing to take.
WaitReturns(p, f) ==
  \/ IsDone(p, f.for)
  \/ f.kind.idle = "leave" /\ WaitChoice(p, f) = 0

\* Finish the work of the last round, then return, or run what was chosen, or
\* go on to sleep or to block.
WaitTake(t) ==
  /\ At(t, "wait") /\ Free
  /\ LET f == Top(t)
         p == AfterWork(f.work)
         st == Notified(f.work)
         next == IF f.kind.idle = "block" THEN "block" ELSE "wait"
     IN  IF WaitReturns(p, f)
         THEN Return(t, p, st)
         ELSE IF WaitChoice(p, f) # 0
              THEN Execute(t, p, WaitChoice(p, f), st, f)
              ELSE /\ q' = p
                   /\ stack' = SetTop(st, t, [f EXCEPT !.at = next, !.work = 0])
  /\ UNCHANGED <<mutex, sem, nStop, jobs>>

\* The section around WaitCond.Wait: test again, count the waiter, block.
WaitBlock(t) ==
  /\ At(t, "block") /\ Free
  /\ IF IsDone(q, Top(t).for)
     THEN Return(t, q, stack)
     ELSE /\ q' = AddWaiter(q, SlotOf(Top(t).for))
          /\ stack' = SetTop(stack, t, [Top(t) EXCEPT !.at = "blocked"])
  /\ UNCHANGED <<mutex, sem, nStop, jobs>>

\* SleepConditionVariableCS may return without a notification.
SpuriousWake(t) ==
  /\ At(t, "blocked")
  /\ stack' = SetTop(stack, t, [Top(t) EXCEPT !.at = "woken"])
  /\ UNCHANGED <<q, mutex, sem, nStop, jobs>>

WaitWoken(t) ==
  /\ At(t, "woken") /\ Free
  /\ q' = DropWaiter(q, SlotOf(Top(t).for))
  /\ stack' = SetTop(stack, t, [Top(t) EXCEPT !.at = "wait"])
  /\ UNCHANGED <<mutex, sem, nStop, jobs>>

-----------------------------------------------------------------------------
(* Jq2WaitAll and Jq2Stop, on the main thread outside any job *)

WaitAll(stop) ==
  /\ At(Main, "user") /\ Top(Main).job = 0 /\ Top(Main).groups = <<>>
  /\ stack' = Push(stack, Main, [at |-> "waitall", stop |-> stop, work |-> 0])
  /\ UNCHANGED <<q, mutex, sem, nStop, jobs>>

WaitAllEmpty ==  \* mutant: it returns when the queue is empty
  /\ At(Main, "waitall") /\ Top(Main).work = 0
  /\ HeadSlot(q) = 0
  /\ stack' = IF Top(Main).stop THEN SetTop(stack, Main, [at |-> "stop"])
              ELSE Pop(stack, Main)
  /\ UNCHANGED <<q, mutex, sem, nStop, jobs>>

\* nFreeJobs is read without the mutex.
WaitAllDone ==
  /\ At(Main, "waitall") /\ Top(Main).work = 0
  /\ q.nFreeJobs = MaxJobs - 1
  /\ stack' = IF Top(Main).stop THEN SetTop(stack, Main, [at |-> "stop"])
              ELSE Pop(stack, Main)
  /\ UNCHANGED <<q, mutex, sem, nStop, jobs>>

WaitAllTake ==
  /\ At(Main, "waitall") /\ Free
  /\ Top(Main).work # 0 \/ q.nFreeJobs # MaxJobs - 1
  /\ LET f == Top(Main)
         p == AfterWork(f.work)
         st == Notified(f.work)
     IN  IF HeadSlot(p) # 0
         THEN Execute(Main, p, HeadSlot(p), st, f)
         ELSE q' = p /\ stack' = SetTop(st, Main, [f EXCEPT !.work = 0])
  /\ UNCHANGED <<mutex, sem, nStop, jobs>>

StopSet ==
  /\ At(Main, "stop") /\ nStop = 0
  /\ nStop' = 1
  /\ UNCHANGED <<q, mutex, sem, stack, jobs>>

StopSignalOne ==  \* mutant: one signal for all the workers
  /\ At(Main, "stop") /\ nStop = 1
  /\ SignalSemaphore(1)
  /\ stack' = SetTop(stack, Main, [at |-> "join"])
  /\ UNCHANGED <<q, mutex, nStop, jobs>>

StopSignal ==
  /\ At(Main, "stop") /\ nStop = 1
  /\ SignalSemaphore(NumWorkers)
  /\ stack' = SetTop(stack, Main, [at |-> "join"])
  /\ UNCHANGED <<q, mutex, nStop, jobs>>

StopJoin ==
  /\ At(Main, "join") /\ \A w \in Workers : At(w, "exit")
  /\ stack' = SetTop(stack, Main, [at |-> "stopped"])
  /\ UNCHANGED <<q, mutex, sem, nStop, jobs>>

\* Nothing more happens after Jq2Stop.
Stopped == At(Main, "stopped") /\ UNCHANGED vars

-----------------------------------------------------------------------------
Init ==
  /\ q = EmptyPool
  /\ mutex = NoThread
  /\ sem = 0
  /\ nStop = 0
  /\ stack = [t \in Threads |-> <<IF t = Main THEN UserFrame(0, 0)
                                  ELSE [at |-> "test", work |-> 0]>>]
  /\ jobs = << >>

\* The steps inside queue functions, as opposed to those of user code.
CallStep(t) ==
  \/ FindFinish(t) \/ FindAgain(t) \/ AddSignal(t)
  \/ WorkerTest(t) \/ WorkerScan(t) \/ WorkerWake(t)
  \/ WaitDone(t) \/ WaitTake(t) \/ WaitBlock(t) \/ WaitWoken(t)

MainStep == WaitAllDone \/ WaitAllTake \/ StopSet \/ StopSignal \/ StopJoin

UserStep(t) ==
  \/ \E prio \in UserPrios, num \in SubCounts : Add(t, prio, num)
  \/ GroupBegin(t)
  \/ GroupEnd(t)
  \/ UserReturn(t)
  \/ \E h \in DOMAIN jobs, k \in WaitKinds : Wait(t, h, k)

Next ==
  \/ \E t \in Threads : \/ CallStep(t)
                        \/ UserStep(t)
                        \/ SpuriousWake(t)
  \/ \E stop \in BOOLEAN : WaitAll(stop)
  \/ MainStep
  \/ Stopped

Spec == Init /\ [][Next]_vars

\* The operating system runs every thread that can run and gives it the
\* mutex in the end; a job function returns, and a group is closed.  Nothing
\* makes the main program add, wait or stop.
Fairness ==
  /\ \A t \in Threads : /\ WF_vars(CallStep(t))
                        /\ WF_vars(UserReturn(t))
                        /\ WF_vars(GroupEnd(t))
  /\ WF_vars(MainStep)

FairSpec == Spec /\ Fairness
-----------------------------------------------------------------------------
(* What is checked *)

\* What is asked of Jq2FindHandle: a job, or a group.
Wants == [group : {FALSE}, prio : UserPrios, num : SubCounts]
         \cup [group : {TRUE}, prio : {GroupPrio}, num : {1}]

FrameOf(issued) ==
  [at : {"test", "scan", "sleep", "exit"}, work : Slots \cup {0}]
  \cup [at : {"user"}, job : Nat, sub : Nat, groups : Seq(Nat), mine : SUBSET issued]
  \cup [at : {"full"}, work : Slots \cup {0}, want : Wants]
  \cup [at : {"signal"}, num : SubCounts]
  \cup [at : {"wait", "block", "blocked", "woken"}, for : issued,
        kind : WaitKinds, work : Slots \cup {0}]
  \cup [at : {"waitall"}, stop : BOOLEAN, work : Slots \cup {0}]
  \cup [at : {"stop", "join", "stopped"}]

TypeOK ==
  /\ mutex \in Threads \cup {NoThread}
  /\ sem \in 0 .. 2 * NumWorkers
  /\ nStop \in 0 .. 1
  /\ DOMAIN stack = Threads
  /\ \A t \in Threads : \A i \in DOMAIN stack[t] : stack[t][i] \in FrameOf(DOMAIN jobs)
  /\ \A h \in DOMAIN jobs :
       jobs[h] \in [num : SubCounts \cup {1}, ended : 0 .. Max(SubCounts \cup {1}),
                    under : DOMAIN jobs \cup {0}]
  /\ \A s \in Slots :
       /\ q.nStartedHandle[s] \in DOMAIN jobs \cup {0}
       /\ q.nFinishedHandle[s] \in DOMAIN jobs \cup {0}
       /\ q.nParent[s] \in Slots \cup {0}
       /\ q.nWaiters[s] \in 0 .. 255
  /\ q.nFreeJobs \in 0 .. MaxJobs - 1

\* Jq2IsDone(h) answers true only after every sub-job of h has returned and
\* every job added under h is done: a waiter that sees a job done may use
\* what the job and its children wrote.
DoneMeansEnded ==
  \A h \in DOMAIN jobs :
    IsDone(q, h) => /\ jobs[h].ended = jobs[h].num
                    /\ \A c \in DOMAIN jobs : jobs[c].under = h => IsDone(q, c)

\* A slot stays with the job whose sub-job a thread runs or has run and not
\* counted yet, although the thread reads the handle from the slot again, and
\* no sub-job runs twice.
FrameAt(f) == stack[f[1]][f[2]]
Bodies == {f \in FramesIn({"user"}) : FrameAt(f).job # 0}
SlotPinned ==
  /\ \A f \in Bodies :
       /\ q.nStartedHandle[SlotOf(FrameAt(f).job)] = FrameAt(f).job
       /\ ~IsDone(q, FrameAt(f).job)
       /\ stack[f[1]][f[2] - 1].work = SlotOf(FrameAt(f).job)
       /\ FrameAt(f).sub < jobs[FrameAt(f).job].num
  /\ \A f, g \in Bodies :
       f # g => \/ FrameAt(f).job # FrameAt(g).job
                \/ FrameAt(f).sub # FrameAt(g).sub

\* The started sub-jobs that are not finished are exactly those some frame
\* still has to count (work) and the open groups: no finish is lost and none
\* is counted twice.
WorkFrames(s) == {f \in FramesIn({"scan", "full", "wait", "waitall"}) : FrameAt(f).work = s}
OpenGroups(s) == {g \in UNION {{f} \X DOMAIN FrameAt(f).groups : f \in FramesIn({"user"})} :
                    SlotOf(FrameAt(g[1]).groups[g[2]]) = s}
HeldBy(s) == Cardinality(WorkFrames(s)) + Cardinality(OpenGroups(s))
WorkAccounted ==
  \A s \in Slots : HeldBy(s) = q.nNumStarted[s] - q.num_finished_jobs[s]

\* nFreeJobs counts the slots that are not pending: Jq2FindHandle finds a
\* slot whenever it leaves its first loop, and Jq2WaitAll returns only when
\* nothing is pending.
FreeExact == q.nFreeJobs = Cardinality({s \in Slots : ~PendingJobs(q, s)})

\* A priority list holds exactly the slots of its priority with a sub-job
\* that nobody has taken, once each and in the order they were added.
QueueExact ==
  /\ \A i \in Prios :
       /\ ToSet(q.list[i]) = {s \in Slots : PendingJobs(q, s) /\ q.nPrio[s] = i /\ Startable(q, s)}
       /\ \A a, b \in DOMAIN q.list[i] :
            a < b => q.nStartedHandle[q.list[i][a]] < q.nStartedHandle[q.list[i][b]]
  /\ \A s \in Slots : Startable(q, s) => PendingJobs(q, s) /\ q.nPrio[s] \in Prios

\* The sibling lists and the parent links describe the same tree, and every
\* child in it is pending.
TreeExact ==
  \A s \in Slots :
    /\ ToSet(q.children[s]) = {c \in Slots : PendingJobs(q, c) /\ q.nParent[c] = s}
    /\ Cardinality(ToSet(q.children[s])) = Len(q.children[s])

\* Signals are sent after the mutex is released, are clamped, and can be
\* refused by a full semaphore; yet the workers that are awake or about to be
\* woken are enough for the sub-jobs left in the queue.  So no worker sleeps
\* for good while there is work that no other thread is coming for.
Left == Cardinality(UNION {{s} \X (q.nNumStarted[s] + 1 .. q.nNumJobs[s]) : s \in Slots})
Looking == {w \in Workers : At(w, "test") \/ (At(w, "scan") /\ Top(w).work = 0)}
Sleeping == {w \in Workers : At(w, "sleep")}
Signals == Cardinality(UNION {{f} \X (1 .. Min({FrameAt(f).num, NumWorkers}))
                              : f \in FramesIn({"signal"})})
EnoughAwake ==
  nStop = 0 => sem + Cardinality(Looking) + Signals
                 >= Min({Left, Cardinality(Looking) + Cardinality(Sleeping)})

\* A thread blocked in Jq2Wait waits for a job that is not done, so that a
\* notification is still to come (Jq2CheckFinished notifies when nWaiters of
\* the completed job is not zero).
NoLostWakeup == \A t \in Threads : At(t, "blocked") => ~IsDone(q, Top(t).for)

\* Jq2Stop joins with nothing left: no job is pending when it sets nStop.
StopFindsNothing == nStop = 1 => q.nFreeJobs = MaxJobs - 1

\* Every job and group that is added is done in the end.
MaxHandle == MaxAdds * MaxJobs + 1
JobsDone == \A h \in 1 .. MaxHandle : (h \in DOMAIN jobs) ~> (h \in DOMAIN jobs /\ IsDone(q, h))

\* A thread that asks for a handle gets one in the end, whatever it has to run
\* itself first ("If the job queue is full, the job is run").
AddsReturn == \A t \in Threads : At(t, "full") ~> ~At(t, "full")

\* Every call of Jq2Wait returns: a thread with calls on its stack gets rid
\* of the outermost one.
WaitsOf(t) == {i \in DOMAIN stack[t] : stack[t][i].at \in {"wait", "block", "blocked", "woken"}}
WaitsReturn == \A t \in Threads : (WaitsOf(t) # {}) ~> (WaitsOf(t) = {})

\* Jq2Stop, once it has set nStop, joins all the workers.
StopCompletes == (nStop = 1) ~> At(Main, "stopped")

\* The abstract specification: the pool alone (module JobPool).
Pool == INSTANCE JobPool WITH
  MaxHandle <- MaxHandle, MaxSub <- Max(SubCounts \cup {1}),
  nStartedHandle <- q.nStartedHandle, nFinishedHandle <- q.nFinishedHandle,
  nNumJobs <- q.nNumJobs, nNumStarted <- q.nNumStarted,
  num_finished_jobs <- q.num_finished_jobs, nParent <- q.nParent,
  nNextHandle <- q.nNextHandle, issued <- DOMAIN jobs
PoolSpec == Pool!Spec
=============================================================================
