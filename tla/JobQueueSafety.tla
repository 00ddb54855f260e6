--------------------------- MODULE JobQueueSafety ---------------------------
(***************************************************************************)
(* Theorems about the specification JobQueue!Spec.  Each action is put     *)
(* together from the changes of JobQueueProofs, which shows that it keeps  *)
(* the inductive invariant IInv; the safety properties of the runs follow  *)
(* from it.                                                                *)
(***************************************************************************)
EXTENDS JobQueueProofs

-----------------------------------------------------------------------------
(* The inductive invariant *)

StopKinds == {"stop", "join", "stopped"}

\* The thread that holds the mutex loops in Jq2FindHandle.
Held(m, st) ==
  /\ m \in Threads \cup {NoThread}
  /\ m # NoThread => Last(st[m]).at = "full" /\ Last(st[m]).work = 0

\* Jq2Stop has begun only on the main thread and after Jq2WaitAll.
Stopping(p, st, n) ==
  /\ n \in {0, 1}
  /\ n = 1 => Last(st[Main]).at \in StopKinds
  /\ Last(st[Main]).at \in StopKinds => p.nFreeJobs = MaxJobs - 1

IInv ==
  /\ Inv(q, stack, jobs)
  /\ Held(mutex, stack)
  /\ Stopping(q, stack, nStop)
  /\ sem \in 0 .. 2 * NumWorkers

\* The number of workers is the size of a finite set.
LEMMA WorkersFinite == NumWorkers \in Nat /\ NumWorkers > 0
<1>1. IsFiniteSet(Workers) /\ Workers # {}
  BY ThreadsAssumption
<1>2. Cardinality(Workers) \in Nat /\ Cardinality(Workers) # 0
  BY <1>1, FS_CardinalityType, FS_EmptySet
<1> QED
  BY <1>2 DEF NumWorkers

\* What the program asks for is what the queue can do.
LEMMA ClientFacts ==
  /\ SubCounts \subseteq Nat \ {0} /\ UserPrios \subseteq Prios
  /\ \A n \in SubCounts : n <= 2^16 - 1 /\ 2^16 - 1 \in Nat
<1>1. SubCounts \subseteq 1 .. 2^16 - 1 /\ UserPrios \subseteq Prios
  BY ClientAssumption
<1>2. 2^16 - 1 \in Int
  OBVIOUS
<1>3. ASSUME NEW b \in Int
      PROVE  1 .. b \subseteq Nat \ {0} /\ \A n \in 1 .. b : n <= b /\ b \in Nat
  OBVIOUS
<1> QED
  BY <1>1, <1>2, <1>3

-----------------------------------------------------------------------------
(* What a step of one thread leaves alone *)

\* The stacks of the other threads are the same, but that a blocked thread
\* may have been woken.
Others(st, r, t) ==
  \A u \in Threads : u # t => \/ r[u] = st[u]
                              \/ Last(st[u]).at = "blocked" /\ Last(r[u]).at = "woken"

\* A change of the stack of t leaves the others alone, and puts a frame on top.
LEMMA OthersSame ==
  ASSUME NEW st, NEW r \in Stacks(Frames), NEW t \in Threads, NEW f \in Frames, Others(st, r, t)
  PROVE  /\ Others(st, SetTop(r, t, f), t) /\ Last(SetTop(r, t, f)[t]) = f
         /\ Others(st, Push(r, t, f), t) /\ Last(Push(r, t, f)[t]) = f
         /\ Others(st, Pop(r, t), t)
<1>1. /\ SetTop(r, t, f) \in Stacks(Frames) /\ Retopped(r, SetTop(r, t, f), t, f)
      /\ Push(r, t, f) \in Stacks(Frames) /\ Pushed(r, Push(r, t, f), t, f)
      /\ Popped(r, Pop(r, t), t) /\ Depth(r, t) \in Nat \ {0}
  BY StackFacts
<1>2. ASSUME NEW v, \A u \in Threads : u # t => v[u] = r[u] PROVE Others(st, v, t)
  BY <1>2 DEF Others
<1>3. Last(SetTop(r, t, f)[t]) = f
  BY <1>1 DEF Retopped, Depth, Last
<1>4. Last(Push(r, t, f)[t]) = f
  BY <1>1 DEF Pushed, Depth, Last
<1>5. Others(st, SetTop(r, t, f), t)
  BY <1>1, <1>2 DEF Retopped
<1>6. Others(st, Push(r, t, f), t)
  BY <1>1, <1>2 DEF Pushed
<1>7. Others(st, Pop(r, t), t)
  BY <1>1, <1>2 DEF Popped
<1> QED
  BY <1>3, <1>4, <1>5, <1>6, <1>7

\* NotifyAll wakes the blocked threads.
LEMMA WakeOthers ==
  ASSUME NEW st \in Stacks(Frames), NEW t \in Threads
  PROVE  Others(st, WakeAll(st), t)
<1> SUFFICES ASSUME NEW u \in Threads
             PROVE  \/ WakeAll(st)[u] = st[u]
                    \/ Last(st[u]).at = "blocked" /\ Last(WakeAll(st)[u]).at = "woken"
  BY DEF Others
<1>1. CASE Last(st[u]).at # "blocked"
  BY <1>1 DEF WakeAll
<1>2. CASE Last(st[u]).at = "blocked"
  <2> DEFINE g == [Last(st[u]) EXCEPT !.at = "woken"]
             row == Front(st[u])
  <2>1. WakeAll(st)[u] = Append(row, g)
    BY <1>2 DEF WakeAll
  <2>2. st[u] \in Seq(Frames) /\ Len(st[u]) >= 1
    BY DEF Stacks
  <2>3. row \in Seq(Frames) /\ Last(st[u]) \in Frames
    <3>1. Last(st[u]) = st[u][Len(st[u])] /\ Len(st[u]) \in Nat
      BY <2>2, LenProperties DEF Last
    <3>2. Last(st[u]) \in Frames
      BY <2>2, <3>1, ElementOfSeq
    <3> QED
      BY <2>2, <3>2, TopFacts
  <2>4. g \in Frames /\ g.at = "woken"
    BY <1>2, <2>3, FrameWait DEF WaitFrames
  <2> HIDE DEF g, row
  <2>5. Last(Append(row, g)) = g
    BY <2>3, <2>4, AppendFacts
  <2> QED
    BY <1>2, <2>1, <2>4, <2>5
<1> QED
  BY <1>1, <1>2

\* With no job pending nothing is on the stacks but the idle loops of the
\* workers and the calls of the main program.
LEMMA Quiet ==
  ASSUME NEW p, NEW st, NEW js, Inv(p, st, js), p.nFreeJobs = MaxJobs - 1,
         NEW t \in Threads
  PROVE  /\ \A s \in Slots : ~PendingJobs(p, s) /\ ~Startable(p, s)
         /\ t # Main => Last(st[t]).at \in BaseKinds
         /\ Last(st[t]).at \in WorkKinds => Last(st[t]).work = 0
<1>1. PoolInv(p) /\ Shape(st) /\ Accounted(p, st)
  BY DEF Inv
<1>2. \A s \in Slots : ~PendingJobs(p, s)
  <2>1. FreeSlots(p) \in SUBSET Slots /\ Cardinality(FreeSlots(p)) = MaxJobs - 1
    BY <1>1 DEF PoolInv, FreeJobs, FreeSlots
  <2>2. FreeSlots(p) = Slots
    BY <2>1, SlotsFinite
  <2> QED
    BY <2>2 DEF FreeSlots
<1>3. \A s \in Slots : ~Startable(p, s) /\ ~(p.num_finished_jobs[s] < p.nNumStarted[s])
  BY <1>1, <1>2, BusyIsPending
<1>4. /\ Depth(st, t) \in Nat /\ Depth(st, t) > 0 /\ st \in Stacks(Frames)
      /\ <<t, Depth(st, t)>> \in Positions(st)
      /\ On(st, <<t, Depth(st, t)>>) = Last(st[t]) /\ Last(st[t]) = st[t][Depth(st, t)]
      /\ Last(st[t]) \in Frames /\ Level(st, t, Depth(st, t))
  BY TopFrame
<1> DEFINE n == Depth(st, t)
           f == Last(st[t])
<1>5. ASSUME NEW i \in 1 .. n, st[t][i].at = "user" PROVE st[t][i].job = 0
  <2> SUFFICES ASSUME st[t][i].job # 0 PROVE FALSE
    OBVIOUS
  <2>1. <<t, i>> \in Positions(st) /\ On(st, <<t, i>>) = st[t][i]
    BY <1>4 DEF Positions, On
  <2>2. Runs(On(st, <<t, i>>), st[t][i].job)
    BY <1>5, <2>1 DEF Runs
  <2> QED
    BY <1>2, <2>1, <2>2, InUse
<1>6. ASSUME t # Main PROVE n = 1 /\ f.at \in BaseKinds
  <2>1. CASE n = 1
    BY <1>4, <1>6, <2>1 DEF Level
  <2>2. CASE n # 1 /\ f.at = "user"
    <3>1. f.job # 0 /\ n \in 1 .. n
      BY <1>4, <2>2 DEF Level
    <3> QED
      BY <1>4, <1>5, <2>2, <3>1
  <2>3. CASE n # 1 /\ f.at # "user"
    <3>1. st[t][n - 1].at = "user" /\ n - 1 \in 1 .. n
      BY <1>4, <2>3 DEF Level
    <3>2. <<t, n - 1>> \in Positions(st)
      BY <1>4, <3>1 DEF Positions
    <3>3. Level(st, t, n - 1)
      BY <1>1, <3>2 DEF Shape
    <3>4. n - 1 # 1
      BY <1>4, <1>6, <3>1, <3>3 DEF Level, BaseKinds
    <3>5. st[t][n - 1].job # 0
      BY <3>1, <3>3, <3>4 DEF Level
    <3> QED
      BY <1>5, <3>1, <3>5
  <2> QED
    BY <2>1, <2>2, <2>3
<1>7. ASSUME f.at \in WorkKinds PROVE f.work = 0
  <2> SUFFICES ASSUME f.work # 0 PROVE FALSE
    OBVIOUS
  <2>1. f.work \in Slots
    BY <1>4, <1>7, FrameFacts
  <2>2. <<t, n>> \in Work(st, f.work)
    BY <1>4, <1>7 DEF Work
  <2> QED
    BY <1>1, <1>3, <2>1, <2>2, HeldFacts
<1> QED
  BY <1>2, <1>3, <1>6, <1>7

\* While Jq2Stop runs no job is pending, and no thread is where one is added,
\* taken or counted.
LEMMA NotStopping ==
  ASSUME IInv, NEW t \in Threads,
         \/ Top(t).at \notin BaseKinds \cup StopKinds
         \/ Top(t).at \in WorkKinds /\ Top(t).work # 0
         \/ \E s \in Slots : PendingJobs(q, s) \/ Startable(q, s)
  PROVE  Top(Main).at \notin StopKinds
<1> SUFFICES ASSUME Top(Main).at \in StopKinds PROVE FALSE
  OBVIOUS
<1>1. Inv(q, stack, jobs) /\ q.nFreeJobs = MaxJobs - 1
  BY DEF IInv, Stopping, Top
<1>2. /\ \A s \in Slots : ~PendingJobs(q, s) /\ ~Startable(q, s)
      /\ t # Main => Top(t).at \in BaseKinds
      /\ Top(t).at \in WorkKinds => Top(t).work = 0
  BY <1>1, Quiet DEF Top
<1> QED
  BY <1>2

\* The parts of the invariant besides Inv, after a step of thread t.
LEMMA StepSafe ==
  ASSUME IInv, NEW t \in Threads, Inv(q', stack', jobs'), Others(stack, stack', t),
         UNCHANGED nStop, sem' \in 0 .. 2 * NumWorkers,
         \/ UNCHANGED mutex /\ mutex # t
         \/ mutex' = NoThread
         \/ mutex' = t /\ Last(stack'[t]).at = "full" /\ Last(stack'[t]).work = 0,
         Top(Main).at \notin StopKinds, Last(stack'[t]).at \notin StopKinds
  PROVE  IInv'
<1>1. Held(mutex', stack')
  <2>1. CASE mutex' = mutex /\ mutex # t /\ mutex # NoThread
    <3>1. mutex \in Threads /\ Last(stack[mutex]).at = "full" /\ Last(stack[mutex]).work = 0
      BY <2>1 DEF IInv, Held
    <3>2. stack'[mutex] = stack[mutex]
      BY <2>1, <3>1 DEF Others
    <3> QED
      BY <2>1, <3>1, <3>2 DEF Held
  <2>2. CASE mutex' = NoThread
    BY <2>2 DEF Held
  <2>3. CASE mutex' = t /\ Last(stack'[t]).at = "full" /\ Last(stack'[t]).work = 0
    BY <2>3 DEF Held
  <2> QED
    BY <2>1, <2>2, <2>3
<1>2. Last(stack'[Main]).at \notin StopKinds
  <2>1. CASE t = Main
    BY <2>1
  <2>2. CASE t # Main
    <3>1. Main \in Threads
      BY DEF Threads
    <3>2. stack'[Main] = stack[Main] \/ Last(stack'[Main]).at = "woken"
      BY <2>2, <3>1 DEF Others
    <3> QED
      BY <3>2 DEF Top, StopKinds
  <2> QED
    BY <2>1, <2>2
<1>3. nStop = 0
  BY DEF IInv, Stopping, Top
<1>4. Stopping(q', stack', nStop')
  BY <1>2, <1>3 DEF Stopping
<1> QED
  BY <1>1, <1>4 DEF IInv

-----------------------------------------------------------------------------
(* The parts of a critical section *)

\* The last slot that is written to a frame counts.
LEMMA FrameAgain ==
  ASSUME NEW f \in Frames, f.at \in WorkKinds, NEW s \in Slots \cup {0}
  PROVE  /\ [[f EXCEPT !.work = 0] EXCEPT !.work = s] = [f EXCEPT !.work = s]
         /\ f.work = 0 => [f EXCEPT !.work = 0] = f
<1>1. CASE f \in [at : {"test", "scan", "sleep", "exit"}, work : Slots \cup {0}]
  BY <1>1
<1>2. CASE f \in [at : {"full"}, work : Slots \cup {0}, want : Wants]
  BY <1>2
<1>3. CASE f \in [at : {"wait", "block", "blocked", "woken"}, for : Nat,
                  kind : WaitKinds, work : Slots \cup {0}]
  BY <1>3
<1>4. CASE f \in [at : {"waitall"}, stop : BOOLEAN, work : Slots \cup {0}]
  BY <1>4
<1>5. CASE f \in [at : {"user"}, job : Nat, sub : Nat, groups : Seq(Nat), mine : SUBSET Nat]
  BY <1>5 DEF WorkKinds
<1>6. CASE f \in [at : {"signal"}, num : SubCounts]
  BY <1>6 DEF WorkKinds
<1>7. CASE f \in [at : {"stop", "join", "stopped"}]
  BY <1>7 DEF WorkKinds
<1> QED
  BY <1>1, <1>2, <1>3, <1>4, <1>5, <1>6, <1>7 DEF Frames, FrameOf

\* The pool p and the stacks st after thread t has counted the sub-job that
\* it brought into the section; js is the table of jobs.
Counted(t, p, st, js) ==
  /\ Inv(p, SetTop(st, t, [Top(t) EXCEPT !.work = 0]), js)
  /\ st \in Stacks(Frames) /\ st[t] = stack[t] /\ Others(stack, st, t)

\* Jq2IncrementFinished at the start of a section.
LEMMA CountedInv ==
  ASSUME Inv(q, stack, jobs), NEW t \in Threads, Top(t).at \in WorkKinds,
         NEW w, w = Top(t).work
  PROVE  Counted(t, AfterWork(w), Notified(w), jobs)
<1> DEFINE f == Top(t)
           st == Notified(w)
           g == [f EXCEPT !.work = 0]
<1>1. f \in Frames /\ f = Last(stack[t]) /\ stack \in Stacks(Frames) /\ Idle(f)
  BY TopFrame DEF Top
<1>2. w \in Slots \cup {0} /\ f.at \in WorkKinds /\ f.work = w
  BY <1>1, FrameFacts
<1>3. f.at # "user" /\ f.at # "blocked"
  BY DEF WorkKinds
<1>4. g \in Frames /\ g.at = f.at /\ g.work = 0 /\ (f.at \in WaitFrames => g.for = f.for)
  BY <1>1, <1>2, FrameWork
<1> HIDE DEF g
<1>5. /\ Inv(q, st, jobs) /\ st[t] = stack[t] /\ Others(stack, st, t) /\ st \in Stacks(Frames)
  <2>1. CASE st = stack
    BY <1>1, <2>1 DEF Others
  <2>2. CASE st = WakeAll(stack)
    <3>1. Inv(q, WakeAll(stack), jobs)
      BY WakeInv
    <3>2. WakeAll(stack)[t] = stack[t]
      BY <1>1, <1>3, WakeInv
    <3>3. Others(stack, WakeAll(stack), t)
      BY <1>1, WakeOthers
    <3>4. WakeAll(stack) \in Stacks(Frames)
      BY <3>1 DEF Inv, Shape
    <3> QED
      BY <2>2, <3>1, <3>2, <3>3, <3>4
  <2> QED
    BY <2>1, <2>2 DEF Notified
<1>6. Inv(AfterWork(w), SetTop(st, t, g), jobs)
  <2>1. CASE w = 0
    <3>1. Alike(f, g)
      <4>1. \A s \in Slots : ~(f.work = s) /\ ~(g.work = s)
        BY <1>2, <1>4, <2>1 DEF Slots
      <4> HIDE DEF f
      <4> QED
        BY <1>3, <1>4, <4>1 DEF Alike, Idle
    <3>2. AfterWork(w) = q
      BY <2>1 DEF AfterWork
    <3>3. Last(st[t]) = f
      BY <1>1, <1>5
    <3> HIDE DEF f, st
    <3> QED
      BY <1>4, <1>5, <3>1, <3>2, <3>3, RetopInv
  <2>2. CASE w # 0
    <3>1. AfterWork(w) = IncrementFinished(q, w)
      BY <2>2 DEF AfterWork
    <3>2. Last(st[t]) = f
      BY <1>1, <1>5
    <3>3. w = Last(st[t]).work /\ Last(st[t]).at \in WorkKinds
      BY <1>2, <3>2
    <3> HIDE DEF st
    <3>4. Inv(IncrementFinished(q, w), SetTop(st, t, [Last(st[t]) EXCEPT !.work = 0]), jobs)
      BY <1>5, <2>2, <3>3, FinishInv
    <3> QED
      BY <3>1, <3>2, <3>4 DEF g
  <2> QED
    BY <2>1, <2>2
<1> QED
  BY <1>5, <1>6 DEF Counted, g

\* Jq2IncrementStarted and Jq2ExecuteJob at the end of one.
LEMMA ExecuteInv ==
  ASSUME NEW p, NEW st \in Stacks(Frames), NEW t \in Threads, NEW f \in Frames,
         f.at \in WorkKinds, NEW js, Inv(p, SetTop(st, t, [f EXCEPT !.work = 0]), js),
         NEW s \in Slots, Startable(p, s), Execute(t, p, s, st, f), Others(stack, st, t)
  PROVE  Inv(q', stack', js) /\ Others(stack, stack', t) /\ Last(stack'[t]).at = "user"
<1> DEFINE g == [f EXCEPT !.work = 0]
           h == [f EXCEPT !.work = s]
           v == SetTop(st, t, g)
           b == BodyOf(p, s)
<1>1. g \in Frames /\ g.at = f.at /\ g.work = 0 /\ h \in Frames
  BY FrameWork
<1>2. [g EXCEPT !.work = s] = h
  BY FrameAgain
<1> HIDE DEF g, h
<1>3. Last(v[t]) = g
  <2>1. Last(SetTop(st, t, g)[t]) = g
    BY <1>1, OthersSame
  <2> QED
    BY <2>1
<1>4. SetTop(v, t, h) = SetTop(st, t, h)
  BY <1>1, Collapse
<1>5. Inv(p, v, js)
  BY DEF g
<1> HIDE DEF v
<1>6. Inv(IncrementStarted(p, s), Push(SetTop(v, t, [Last(v[t]) EXCEPT !.work = s]), t, b), js)
  BY <1>1, <1>3, <1>5, StartInv
<1>7. q' = IncrementStarted(p, s) /\ stack' = Push(SetTop(st, t, h), t, b)
  BY DEF Execute, h
<1>8. Inv(q', stack', js)
  BY <1>2, <1>3, <1>4, <1>6, <1>7
<1>9. b \in Frames /\ b.at = "user"
  <2>1. p.nStartedHandle[s] \in Nat /\ p.nNumStarted[s] \in Nat
    BY <1>5, CountFacts DEF Inv
  <2>2. <<>> \in Seq(Nat)
    BY EmptySeq
  <2> QED
    BY <2>1, <2>2 DEF BodyOf, UserFrame, Frames, FrameOf
<1> HIDE DEF b
<1>10. SetTop(st, t, h) \in Stacks(Frames) /\ Others(stack, SetTop(st, t, h), t)
  BY <1>1, StackFacts, OthersSame
<1>11. Others(stack, stack', t) /\ Last(stack'[t]) = b
  BY <1>7, <1>9, <1>10, OthersSame
<1> QED
  BY <1>8, <1>9, <1>11

-----------------------------------------------------------------------------
(* Jq2Add, Jq2GroupBegin and Jq2FindHandle *)

\* Jq2Self() is that of the innermost user frame.
LEMMA SelfIs ==
  ASSUME NEW t \in Threads, NEW n \in Nat, n = Depth(stack, t), stack \in Stacks(Frames),
         NEW m \in Nat, m > 0, stack[t][m].at = "user",
         m = n \/ (m + 1 = n /\ stack[t][n].at # "user")
  PROVE  Self(t) = SelfOf(stack[t][m])
<1>1. DOMAIN stack[t] = 1 .. n
  <2>1. stack[t] \in Seq(Frames) /\ Len(stack[t]) = n
    BY DEF Stacks, Depth
  <2> QED
    BY <2>1, LenProperties
<1>2. m \in UserLevels(t) /\ UserLevels(t) \subseteq 1 .. n /\ \A i \in UserLevels(t) : i <= m
  <2>1. \A i : i \in UserLevels(t) <=> i \in 1 .. n /\ stack[t][i].at = "user"
    BY <1>1 DEF UserLevels
  <2>2. m \in 1 .. n
    OBVIOUS
  <2>3. ASSUME NEW i \in 1 .. n, stack[t][i].at = "user" PROVE i <= m
    <3>1. i \in Nat /\ i <= n /\ (m # n => i # n)
      BY <2>3
    <3> QED
      BY <3>1
  <2> QED
    BY <2>1, <2>2, <2>3
<1> DEFINE U == UserLevels(t)
<1> HIDE DEF U
<1>3. U \subseteq 1 .. n /\ m \in U /\ \A i \in U : i <= m
  BY <1>2 DEF U
<1>4. \A i \in U : i \in Nat
  BY <1>3
<1>5. Max(U) \in U /\ \A i \in U : Max(U) >= i
  <2>1. m \in U /\ \A i \in U : m >= i
    BY <1>3, <1>4
  <2> QED
    BY <2>1 DEF Max
<1>6. Max(U) = m
  <2> DEFINE k == Max(U)
  <2>1. k \in U /\ k >= m
    BY <1>3, <1>5
  <2> HIDE DEF k
  <2>2. k \in Nat /\ k <= m
    BY <1>3, <1>4, <2>1
  <2>3. k = m
    BY <2>1, <2>2
  <2> QED
    BY <2>3 DEF k
<1>7. Self(t) = SelfOf(stack[t][Max(U)])
  BY DEF Self, U
<1> QED
  BY <1>6, <1>7

\* Handle h, of n sub-jobs of which k are started, is issued to the user code
\* that is on top of thread t in st, under slot par; the thread is about to
\* signal, unless h is that of a group (k = 1).
Issuing(t, st, h, n, k, par) ==
  /\ h \in Nat /\ h >= q.nNextHandle /\ SlotOf(h) \in Slots /\ ~PendingJobs(q, SlotOf(h))
  /\ h < q.nNextHandle + MaxJobs /\ NextHandle(h) <= q.nNextHandle + MaxJobs
  /\ par \in Slots \cup {0}
  /\ par # 0 => q.num_finished_jobs[par] < q.nNumStarted[par]
  /\ Issues(q, q', h, SlotOf(h), n, k, par)
  /\ DOMAIN jobs' = DOMAIN jobs \cup {h}
  /\ \E g \in Frames :
       /\ g.at = "user"
       /\ IF k = 1 THEN stack' = SetTop(st, t, g)
          ELSE \E z \in Frames : /\ z.at = "signal" /\ z.num = n
                                /\ stack' = Push(SetTop(st, t, g), t, z)

\* A handle is issued to the user code under the call.
LEMMA IssuedInv ==
  ASSUME NEW st, NEW t \in Threads, Inv(q, st, jobs), Last(st[t]).at = "user",
         Self(t) = SelfOf(Last(st[t])), q.nFreeJobs > 0, NEW want \in Wants,
         Issued(t, st, want), Others(stack, st, t)
  PROVE  /\ Inv(q', stack', jobs') /\ Others(stack, stack', t)
         /\ Last(stack'[t]).at \in {"user", "signal"}
         /\ \E h, par : Issuing(t, st, h, want.num, IF want.group THEN 1 ELSE 0, par)
<1> DEFINE h == FreeHandle(q)
           s == SlotOf(h)
           self == Self(t)
           par == SlotOf(self)
           f == Last(st[t])
           user == [f EXCEPT !.mine = @ \cup {h}]
           gr == [user EXCEPT !.groups = Append(@, h)]
<1>1. PoolInv(q)
  BY DEF Inv
<1>2. /\ h \in Nat /\ h >= q.nNextHandle /\ s \in Slots /\ ~PendingJobs(q, s)
      /\ h <= q.nNextHandle + MaxJobs - 1 /\ NextHandle(h) <= q.nNextHandle + MaxJobs
  BY <1>1, FreeHandleFacts
<1>3. /\ self \in DOMAIN jobs \cup {0} /\ par \in Slots \cup {0} /\ (par = 0 <=> self = 0)
      /\ par # 0 => PendingJobs(q, par)
      /\ par # 0 => q.num_finished_jobs[par] < q.nNumStarted[par]
  BY SelfFacts
<1>4. h < q.nNextHandle + MaxJobs
  BY <1>1, <1>2, MaxJobsAssumption DEF PoolInv, Pools
<1>5. f \in Frames /\ f.at = "user" /\ st \in Stacks(Frames)
  BY TopFrame
<1>6. f.groups \in Seq(Nat) /\ f.mine \in SUBSET Nat
  BY <1>5, FrameFacts
<1>7. user = WithMine(f, f.mine \cup {h}) /\ gr = WithGroups(user, Append(user.groups, h))
  BY DEF WithMine, WithGroups
<1>8. /\ user \in Frames /\ user.at = "user" /\ user.mine = f.mine \cup {h}
      /\ user.job = f.job /\ user.sub = f.sub /\ user.groups = f.groups
  <2>1. \A x \in f.mine \cup {h} : x \in Nat
    BY <1>2, <1>6
  <2> HIDE DEF f, h, user
  <2> QED
    BY <1>5, <1>7, <2>1, FrameMine
<1>9. /\ jobs' = [x \in DOMAIN jobs \cup {h} |->
                    IF x = h THEN [num |-> want.num, ended |-> 0, under |-> self] ELSE jobs[x]]
      /\ IF want.group
         THEN /\ q' = AddGroup(q, h, par)
              /\ stack' = SetTop(st, t, gr)
         ELSE /\ q' = AddJob(q, h, want.num, want.prio, par)
              /\ stack' = Push(SetTop(st, t, user), t, [at |-> "signal", num |-> want.num])
  BY DEF Issued
<1> HIDE DEF user, gr
<1>10. Append(user.groups, h) \in Seq(Nat)
  BY <1>2, <1>6, <1>8, AppendProperties
<1>11. /\ gr \in Frames /\ gr.at = "user" /\ gr.mine = f.mine \cup {h}
       /\ gr.job = f.job /\ gr.sub = f.sub /\ gr.groups = Append(f.groups, h)
  <2> DEFINE G == Append(user.groups, h)
  <2>1. G \in Seq(Nat) /\ gr = WithGroups(user, G)
    BY <1>7, <1>10
  <2> HIDE DEF G
  <2>2. /\ gr \in Frames /\ gr.at = "user" /\ gr.mine = user.mine
        /\ gr.job = user.job /\ gr.sub = user.sub /\ gr.groups = G
    BY <1>8, <2>1, FrameGroups
  <2> QED
    BY <1>8, <2>2 DEF G
<1>12. Enters(jobs, jobs', h, want.num, self)
  BY <1>9 DEF Enters
<1>13. Receives(f, user, h, 0) /\ Receives(f, gr, h, 1)
  BY <1>8, <1>11 DEF Receives
<1>14. CASE want.group
  <2>1. want.num = 1 /\ want.group = TRUE
    BY <1>14 DEF Wants
  <2>2. PoolInv(q') /\ Issues(q, q', h, s, want.num, 1, par)
    BY <1>1, <1>2, <1>3, <1>9, <1>14, <2>1, AddGroupInv
  <2>3. stack' = SetTop(st, t, gr)
    BY <1>9, <1>14
  <2> HIDE DEF h, self, f, s
  <2>4. Inv(q', SetTop(st, t, gr), jobs')
    <3>1. want.num \in SubCounts \cup {1} /\ 1 \in {0, 1} /\ s = SlotOf(h) /\ self = SelfOf(f)
      BY <2>1 DEF s, self, f
    <3>2. Issues(q, q', h, s, want.num, 1, SlotOf(self))
      BY <2>2
    <3>3. Inv(q, st, jobs) /\ Last(st[t]).at = "user" /\ self = SelfOf(Last(st[t]))
      BY <3>1 DEF f
    <3>4. Receives(Last(st[t]), gr, h, 1)
      BY <1>13 DEF f
    <3> QED
      BY <1>2, <1>12, <2>2, <3>1, <3>2, <3>3, <3>4, IssueInv
  <2>5. Others(stack, SetTop(st, t, gr), t) /\ Last(SetTop(st, t, gr)[t]) = gr
    BY <1>5, <1>11, OthersSame
  <2>6. Issuing(t, st, h, want.num, 1, par)
    <3>1. DOMAIN jobs' = DOMAIN jobs \cup {h}
      BY <1>12 DEF Enters
    <3>2. Issues(q, q', h, SlotOf(h), want.num, 1, par)
      BY <2>2 DEF s
    <3> QED
      BY <1>2, <1>3, <1>11, <1>4, <2>3, <3>1, <3>2 DEF Issuing, s
  <2>7. Issuing(t, st, h, want.num, IF want.group THEN 1 ELSE 0, par)
    BY <1>14, <2>6
  <2> QED
    BY <1>11, <2>3, <2>4, <2>5, <2>7
<1>15. CASE ~want.group
  <2> DEFINE v == SetTop(st, t, user)
             g == [at |-> "signal", num |-> want.num]
  <2>1. /\ want.num \in SubCounts /\ want.num \in Nat /\ want.num > 0 /\ want.prio \in Prios
        /\ want.group = FALSE
    <3>1. want \in [group : {FALSE}, prio : UserPrios, num : SubCounts]
      BY <1>15 DEF Wants
    <3>2. want.num \in SubCounts /\ want.prio \in UserPrios /\ want.group = FALSE
      BY <3>1
    <3> QED
      <4>1. want.num \in Nat \ {0} /\ want.prio \in Prios
        BY <3>2, ClientFacts
      <4> HIDE DEF g, v
      <4> QED
        BY <3>2, <4>1
  <2>2. /\ PoolInv(AddJob(q, h, want.num, want.prio, par))
        /\ Issues(q, AddJob(q, h, want.num, want.prio, par), h, s, want.num, 0, par)
    BY <1>1, <1>2, <1>3, <2>1, AddJobInv
  <2>3. /\ PoolInv(q') /\ Issues(q, q', h, s, want.num, 0, par)
        /\ stack' = Push(v, t, g)
    BY <1>9, <1>15, <2>2
  <2>4. g \in Frames /\ g.at = "signal" /\ g.num = want.num
    BY <2>1 DEF Frames, FrameOf
  <2> HIDE DEF h, self, f, s, v, g
  <2>5. Inv(q', v, jobs')
    <3>1. want.num \in SubCounts \cup {1} /\ 0 \in {0, 1} /\ s = SlotOf(h) /\ self = SelfOf(f)
      BY <2>1 DEF s, self, f
    <3>2. Issues(q, q', h, s, want.num, 0, SlotOf(self))
      BY <2>3
    <3>3. Inv(q, st, jobs) /\ Last(st[t]).at = "user" /\ self = SelfOf(Last(st[t]))
      BY <3>1 DEF f
    <3>4. Receives(Last(st[t]), user, h, 0)
      BY <1>13 DEF f
    <3> QED
      BY <1>2, <1>12, <2>3, <3>1, <3>2, <3>3, <3>4, IssueInv DEF v
  <2>6. Others(stack, v, t) /\ Last(v[t]) = user
    BY <1>5, <1>8, OthersSame DEF v
  <2>7. v \in Stacks(Frames)
    BY <2>5 DEF Inv, Shape
  <2>8. Others(stack, stack', t) /\ Last(stack'[t]) = g
    BY <2>3, <2>4, <2>6, <2>7, OthersSame
  <2>9. Inv(q', Push(v, t, g), jobs')
    <3>1. Last(v[t]).at = "user"
      BY <1>8, <2>6
    <3>2. /\ g.at \in CallKinds /\ g.at \notin WorkKinds /\ Idle(g) /\ g.at \notin MainKinds
          /\ g.at \notin WaitFrames
      BY <2>4 DEF CallKinds, WorkKinds, Idle, IdleKinds, MainKinds, WaitFrames
    <3> QED
      BY <2>4, <2>5, <3>1, <3>2, CallInv
  <2>10. Issuing(t, st, h, want.num, 0, par)
    <3>1. DOMAIN jobs' = DOMAIN jobs \cup {h}
      BY <1>12 DEF Enters
    <3>2. Issues(q, q', h, SlotOf(h), want.num, 0, par)
      BY <2>3 DEF s
    <3>3. stack' = Push(SetTop(st, t, user), t, g)
      BY <2>3 DEF v
    <3> QED
      BY <1>2, <1>3, <1>8, <1>4, <2>4, <3>1, <3>2, <3>3 DEF Issuing, s
  <2>11. Issuing(t, st, h, want.num, IF want.group THEN 1 ELSE 0, par)
    BY <1>15, <2>10
  <2> QED
    BY <2>3, <2>4, <2>8, <2>9, <2>11
<1> QED
  BY <1>14, <1>15

\* One pass of the loop of Jq2FindHandle.
LEMMA FindInv ==
  ASSUME NEW st, NEW t \in Threads, Inv(q, st, jobs), Last(st[t]).at = "user",
         Self(t) = SelfOf(Last(st[t])), NEW want \in Wants,
         FindHandle(t, st, want), Others(stack, st, t)
  PROVE  /\ Inv(q', stack', jobs') /\ Others(stack, stack', t)
         /\ Last(stack'[t]).at \in {"user", "signal", "full"}
         /\ \/ mutex' = NoThread
            \/ mutex' = t /\ Last(stack'[t]).at = "full" /\ Last(stack'[t]).work = 0
<1> DEFINE f == [at |-> "full", want |-> want, work |-> 0]
           s == IF SelfPos(t) < MaxStack THEN HeadSlot(q) ELSE 0
           v == Push(st, t, f)
<1>1. IF q.nFreeJobs > 0
      THEN Issued(t, st, want) /\ mutex' = NoThread
      ELSE /\ UNCHANGED jobs
           /\ IF s # 0
              THEN Execute(t, q, s, v, f) /\ mutex' = NoThread
              ELSE mutex' = t /\ stack' = v /\ UNCHANGED q
  BY DEF FindHandle
<1>2. CASE q.nFreeJobs > 0
  <2>1. Issued(t, st, want) /\ mutex' = NoThread
    BY <1>1, <1>2
  <2> QED
    BY <1>2, <2>1, IssuedInv
<1>3. CASE ~(q.nFreeJobs > 0)
  <2>1. /\ f \in Frames /\ f.at = "full" /\ f.work = 0
    BY DEF Frames, FrameOf
  <2>2. st \in Stacks(Frames)
    BY DEF Inv, Shape
  <2>3. s # 0 => s \in Slots /\ Startable(q, s)
    BY HeadSlotFacts DEF Inv
  <2> HIDE DEF f, s
  <2>4. Inv(q, v, jobs)
    <3>1. f.at \in CallKinds /\ Idle(f) /\ f.at \notin MainKinds /\ f.at \notin WaitFrames
      BY <2>1 DEF CallKinds, Idle, IdleKinds, MainKinds, WaitFrames
    <3> QED
      BY <2>1, <3>1, CallInv
  <2>5. Others(stack, v, t) /\ Last(v[t]) = f /\ v \in Stacks(Frames)
    BY <2>1, <2>2, <2>4, OthersSame DEF Inv, Shape
  <2>6. CASE s = 0
    <3>1. mutex' = t /\ stack' = v /\ q' = q /\ jobs' = jobs
      BY <1>1, <1>3, <2>6
    <3> QED
      BY <2>1, <2>4, <2>5, <3>1
  <2>7. CASE s # 0
    <3>1. Execute(t, q, s, v, f) /\ mutex' = NoThread /\ jobs' = jobs
      BY <1>1, <1>3, <2>7
    <3>2. f.at \in WorkKinds /\ [f EXCEPT !.work = 0] = f
      BY <2>1, FrameAgain DEF WorkKinds
    <3>3. SetTop(v, t, f) = v
      BY <2>1, <2>2, Collapse
    <3>4. Inv(q, SetTop(v, t, [f EXCEPT !.work = 0]), jobs)
      BY <2>4, <3>2, <3>3
    <3> HIDE DEF v
    <3>5. Inv(q', stack', jobs) /\ Others(stack, stack', t) /\ Last(stack'[t]).at = "user"
      BY <2>1, <2>3, <2>5, <2>7, <3>1, <3>2, <3>4, ExecuteInv
    <3> QED
      BY <3>1, <3>5
  <2> QED
    BY <2>6, <2>7
<1> QED
  BY <1>2, <1>3

-----------------------------------------------------------------------------
(* The steps of Jq2Add, Jq2GroupBegin, Jq2GroupEnd and of job functions *)

\* The facts about the thread that takes a step.
LEMMA Acting ==
  ASSUME IInv, NEW t \in Threads
  PROVE  /\ Inv(q, stack, jobs) /\ stack \in Stacks(Frames) /\ PoolInv(q)
         /\ Top(t) = Last(stack[t]) /\ Top(t) \in Frames /\ Idle(Top(t))
         /\ Depth(stack, t) \in Nat /\ Depth(stack, t) > 0
         /\ Top(t) = stack[t][Depth(stack, t)]
         /\ sem \in 0 .. 2 * NumWorkers
         /\ Others(stack, stack, t)
         /\ Top(t).at # "full" \/ Top(t).work # 0 => mutex # t
         /\ t # NoThread
<1>1. Inv(q, stack, jobs) /\ sem \in 0 .. 2 * NumWorkers /\ Held(mutex, stack)
  BY DEF IInv
<1>2. t # NoThread
  BY ThreadsAssumption DEF Threads
<1> QED
  BY <1>1, <1>2, TopFrame DEF Inv, Top, Others, Held

\* Jq2Add and Jq2GroupBegin.
LEMMA CallFind ==
  ASSUME IInv, NEW t \in Threads, At(t, "user"), Free, NEW want \in Wants,
         FindHandle(t, stack, want), UNCHANGED <<sem, nStop>>
  PROVE  IInv'
<1>1. /\ Inv(q, stack, jobs) /\ stack \in Stacks(Frames)
      /\ Top(t) = Last(stack[t]) /\ Top(t) = stack[t][Depth(stack, t)]
      /\ Depth(stack, t) \in Nat /\ Depth(stack, t) > 0 /\ sem \in 0 .. 2 * NumWorkers
      /\ Others(stack, stack, t)
  BY Acting
<1>2. Last(stack[t]).at = "user" /\ Top(t).at = "user"
  BY <1>1 DEF At
<1>3. Self(t) = SelfOf(Last(stack[t]))
  BY <1>1, <1>2, SelfIs
<1>4. /\ Inv(q', stack', jobs') /\ Others(stack, stack', t)
      /\ Last(stack'[t]).at \in {"user", "signal", "full"}
      /\ \/ mutex' = NoThread
         \/ mutex' = t /\ Last(stack'[t]).at = "full" /\ Last(stack'[t]).work = 0
  BY <1>1, <1>2, <1>3, FindInv
<1>5. Top(Main).at \notin StopKinds
  BY <1>2, NotStopping DEF BaseKinds, StopKinds
<1> QED
  BY <1>1, <1>4, <1>5, StepSafe DEF StopKinds

\* Jq2Add.
LEMMA AddInv ==
  ASSUME IInv, NEW t \in Threads, NEW prio \in UserPrios, NEW num \in SubCounts,
         Add(t, prio, num)
  PROVE  IInv'
<1>1. [group |-> FALSE, prio |-> prio, num |-> num] \in Wants
  BY DEF Wants
<1> QED
  BY <1>1, CallFind DEF Add

\* Jq2GroupBegin.
LEMMA GroupBeginInv ==
  ASSUME IInv, NEW t \in Threads, GroupBegin(t)
  PROVE  IInv'
<1>1. [group |-> TRUE, prio |-> GroupPrio, num |-> 1] \in Wants
  BY DEF Wants
<1> QED
  BY <1>1, CallFind DEF GroupBegin

\* The finished sub-job is counted in Jq2FindHandle.
LEMMA FindFinishInv ==
  ASSUME IInv, NEW t \in Threads, FindFinish(t)
  PROVE  IInv'
<1> DEFINE f == Top(t)
           w == f.work
           st == Notified(w)
           g == [f EXCEPT !.work = 0]
<1>1. Inv(q, stack, jobs) /\ f \in Frames /\ sem \in 0 .. 2 * NumWorkers
  BY Acting
<1>2. /\ f.at = "full" /\ w # 0 /\ mutex' = t /\ q' = AfterWork(w)
      /\ stack' = SetTop(st, t, g)
      /\ sem' = sem /\ nStop' = nStop /\ jobs' = jobs
  BY DEF FindFinish, At
<1>3. f.at \in WorkKinds
  BY <1>2 DEF WorkKinds
<1>4. g \in Frames /\ g.at = "full" /\ g.work = 0
  BY <1>1, <1>2, <1>3, FrameWork
<1>5. Counted(t, AfterWork(w), st, jobs)
  BY <1>1, <1>3, CountedInv
<1>6. Inv(q', stack', jobs') /\ st \in Stacks(Frames) /\ Others(stack, st, t)
  BY <1>2, <1>5 DEF Counted
<1> HIDE DEF g, st, w, f
<1>7. Others(stack, stack', t) /\ Last(stack'[t]) = g
  BY <1>2, <1>4, <1>6, OthersSame
<1>8. Top(Main).at \notin StopKinds
  BY <1>2, NotStopping DEF BaseKinds, StopKinds, f
<1> QED
  BY <1>1, <1>2, <1>4, <1>6, <1>7, <1>8, StepSafe DEF StopKinds

\* The next pass of the loop of Jq2FindHandle.
LEMMA FindAgainInv ==
  ASSUME IInv, NEW t \in Threads, FindAgain(t)
  PROVE  IInv'
<1> DEFINE f == Top(t)
           n == Depth(stack, t)
           st == Pop(stack, t)
<1>1. /\ Inv(q, stack, jobs) /\ f \in Frames /\ sem \in 0 .. 2 * NumWorkers
      /\ f = Last(stack[t]) /\ f = stack[t][n] /\ n \in Nat /\ stack \in Stacks(Frames)
      /\ Others(stack, stack, t) /\ t # NoThread
  BY Acting
<1>2. /\ f.at = "full" /\ mutex = t /\ FindHandle(t, st, f.want)
      /\ sem' = sem /\ nStop' = nStop
  BY DEF FindAgain, At
<1>3. f.work = 0
  BY <1>1, <1>2 DEF IInv, Held, Top
<1>4. f.want \in Wants
  BY <1>1, <1>2, FrameFacts
<1>5. f.at \in CallKinds
  BY <1>2 DEF CallKinds
<1>6. /\ Inv(q, st, jobs) /\ Last(st[t]).at = "user" /\ n > 1
      /\ Depth(st, t) = n - 1
  BY <1>1, <1>3, <1>5, ReturnInv
<1>7. Self(t) = SelfOf(Last(st[t]))
  <2> DEFINE m == n - 1
  <2>1. Popped(stack, st, t)
    BY <1>1, StackFacts
  <2>2. Last(st[t]) = st[t][n - 1]
    BY <1>6, TopFrame
  <2>3. Last(st[t]) = stack[t][m] /\ m \in Nat /\ m > 0 /\ m + 1 = n
    BY <1>1, <1>6, <2>1, <2>2 DEF Popped
  <2>4. stack[t][m].at = "user" /\ stack[t][n].at # "user"
    BY <1>1, <1>2, <1>6, <2>3
  <2> HIDE DEF m, st, f
  <2>5. Self(t) = SelfOf(stack[t][m])
    BY <1>1, <2>3, <2>4, SelfIs
  <2> QED
    BY <2>3, <2>5
<1>8. Others(stack, st, t)
  BY <1>1, OthersSame
<1> HIDE DEF st, n
<1>9. /\ Inv(q', stack', jobs') /\ Others(stack, stack', t)
      /\ Last(stack'[t]).at \in {"user", "signal", "full"}
      /\ \/ mutex' = NoThread
         \/ mutex' = t /\ Last(stack'[t]).at = "full" /\ Last(stack'[t]).work = 0
  BY <1>2, <1>4, <1>6, <1>7, <1>8, FindInv
<1>10. Top(Main).at \notin StopKinds
  BY <1>2, NotStopping DEF BaseKinds, StopKinds
<1> QED
  BY <1>1, <1>2, <1>9, <1>10, StepSafe DEF StopKinds

\* Semaphore.Signal keeps the count of the semaphore in its range.
LEMMA SignalInv ==
  ASSUME sem \in 0 .. 2 * NumWorkers, NEW n \in Nat, SignalSemaphore(n)
  PROVE  sem' \in 0 .. 2 * NumWorkers
<1> DEFINE k == Min({n, NumWorkers})
<1>1. NumWorkers \in Nat
  BY WorkersFinite
<1>2. k \in {n, NumWorkers}
  <2>1. {n, NumWorkers} \in SUBSET Nat /\ {n, NumWorkers} # {}
    BY <1>1
  <2> QED
    BY <2>1, LeastNatural
<1>3. k \in Nat
  BY <1>1, <1>2
<1>4. sem' = IF sem + k > 2 * NumWorkers THEN sem ELSE sem + k
  BY DEF SignalSemaphore
<1> HIDE DEF k
<1> QED
  BY <1>1, <1>3, <1>4

\* The signal after Jq2Add.
LEMMA AddSignalInv ==
  ASSUME IInv, NEW t \in Threads, AddSignal(t)
  PROVE  IInv'
<1> DEFINE f == Top(t)
<1>1. /\ Inv(q, stack, jobs) /\ f \in Frames /\ sem \in 0 .. 2 * NumWorkers
      /\ f = Last(stack[t]) /\ stack \in Stacks(Frames) /\ Others(stack, stack, t)
      /\ f.at # "full" => mutex # t
  BY Acting
<1>2. /\ f.at = "signal" /\ SignalSemaphore(f.num) /\ stack' = Pop(stack, t)
      /\ q' = q /\ mutex' = mutex /\ nStop' = nStop /\ jobs' = jobs
  BY DEF AddSignal, At
<1>3. f.num \in Nat
  BY <1>1, <1>2, FrameFacts, ClientFacts
<1>4. sem' \in 0 .. 2 * NumWorkers
  BY <1>1, <1>2, <1>3, SignalInv
<1>5. f.at \in CallKinds /\ f.at \notin WorkKinds
  BY <1>2 DEF CallKinds, WorkKinds
<1>6. Inv(q, Pop(stack, t), jobs) /\ Last(Pop(stack, t)[t]).at = "user"
  BY <1>1, <1>5, ReturnInv
<1>7. Others(stack, Pop(stack, t), t)
  BY <1>1, OthersSame
<1>8. Top(Main).at \notin StopKinds
  BY <1>2, NotStopping DEF BaseKinds, StopKinds
<1> QED
  BY <1>1, <1>2, <1>4, <1>6, <1>7, <1>8, StepSafe DEF StopKinds

\* Jq2GroupEnd.
LEMMA GroupEndStep ==
  ASSUME IInv, NEW t \in Threads, GroupEnd(t)
  PROVE  IInv'
<1> DEFINE f == Top(t)
           h == Last(f.groups)
           st == Notified(SlotOf(h))
           g == [f EXCEPT !.groups = Front(@)]
<1>1. /\ Inv(q, stack, jobs) /\ f \in Frames /\ sem \in 0 .. 2 * NumWorkers
      /\ f = Last(stack[t]) /\ stack \in Stacks(Frames) /\ Others(stack, stack, t)
      /\ f.at # "full" => mutex # t
  BY Acting
<1>2. /\ f.at = "user" /\ f.groups # <<>> /\ q' = IncrementFinished(q, SlotOf(h))
      /\ stack' = SetTop(st, t, g) /\ jobs' = [jobs EXCEPT ![h].ended = @ + 1]
      /\ mutex' = mutex /\ sem' = sem /\ nStop' = nStop
  BY DEF GroupEnd, At
<1>3. g \in Frames /\ g.at = "user"
  <2> DEFINE G == Front(f.groups)
  <2>1. f.groups \in Seq(Nat) /\ {} \in SUBSET Nat
    BY <1>1, <1>2, FrameFacts
  <2>2. G \in Seq(Nat)
    <3>1. Len(f.groups) >= 1
      BY <1>2, <2>1, EmptySeq
    <3>2. f.groups[1] \in Nat
      BY <2>1, <3>1, ElementOfSeq
    <3> QED
      BY <2>1, <3>1, <3>2, TopFacts
  <2>3. g = [f EXCEPT !.groups = G]
    OBVIOUS
  <2> HIDE DEF G, g, f
  <2> QED
    BY <1>1, <1>2, <2>1, <2>2, <2>3, FrameUser
<1>4. /\ Inv(q, st, jobs) /\ st[t] = stack[t] /\ Others(stack, st, t) /\ st \in Stacks(Frames)
  <2>1. CASE st = stack
    BY <1>1, <2>1
  <2>2. CASE st = WakeAll(stack)
    <3>1. Inv(q, WakeAll(stack), jobs) /\ WakeAll(stack)[t] = stack[t]
      BY <1>1, <1>2, WakeInv
    <3>2. Others(stack, WakeAll(stack), t)
      BY <1>1, WakeOthers
    <3>3. WakeAll(stack) \in Stacks(Frames)
      BY <3>1 DEF Inv, Shape
    <3> QED
      BY <2>2, <3>1, <3>2, <3>3
  <2> QED
    BY <2>1, <2>2 DEF Notified
<1>5. Last(st[t]) = f
  BY <1>1, <1>4
<1> HIDE DEF st
<1>6. Inv(IncrementFinished(q, SlotOf(h)),
          SetTop(st, t, [Last(st[t]) EXCEPT !.groups = Front(@)]),
          [jobs EXCEPT ![h].ended = @ + 1])
  <2>1. Last(st[t]).at = "user" /\ Last(st[t]).groups # <<>> /\ h = Last(Last(st[t]).groups)
    BY <1>2, <1>5
  <2> HIDE DEF h
  <2> QED
    BY <1>4, <2>1, GroupEndInv
<1>7. Inv(q', stack', jobs')
  BY <1>2, <1>5, <1>6
<1> HIDE DEF g, h, f
<1>8. Others(stack, stack', t) /\ Last(stack'[t]) = g
  BY <1>2, <1>3, <1>4, OthersSame
<1>9. Top(Main).at \notin StopKinds
  BY <1>2, NotStopping DEF BaseKinds, StopKinds, f
<1> QED
  BY <1>1, <1>2, <1>3, <1>7, <1>8, <1>9, StepSafe DEF StopKinds

\* A job function returns.
LEMMA UserReturnInv ==
  ASSUME IInv, NEW t \in Threads, UserReturn(t)
  PROVE  IInv'
<1> DEFINE f == Top(t)
           h == f.job
<1>1. /\ Inv(q, stack, jobs) /\ f \in Frames /\ sem \in 0 .. 2 * NumWorkers
      /\ f = Last(stack[t]) /\ stack \in Stacks(Frames) /\ Others(stack, stack, t)
      /\ f.at # "full" => mutex # t
  BY Acting
<1>2. /\ f.at = "user" /\ h # 0 /\ f.groups = <<>> /\ stack' = Pop(stack, t)
      /\ jobs' = [jobs EXCEPT ![h].ended = @ + 1]
      /\ q' = q /\ mutex' = mutex /\ sem' = sem /\ nStop' = nStop
  BY DEF UserReturn, At
<1>3. /\ Last(stack[t]).at = "user" /\ h = Last(stack[t]).job /\ Last(stack[t]).groups = <<>>
  BY <1>1, <1>2
<1>4. Top(Main).at \notin StopKinds
  BY <1>2, NotStopping DEF BaseKinds, StopKinds
<1> HIDE DEF h, f
<1>5. /\ Inv(q, Pop(stack, t), [jobs EXCEPT ![h].ended = @ + 1])
      /\ Last(Pop(stack, t)[t]).at \in WorkKinds
  BY <1>1, <1>2, <1>3, BodyReturnInv
<1>6. Others(stack, Pop(stack, t), t)
  BY <1>1, OthersSame
<1>7. Last(stack'[t]).at \notin StopKinds
  BY <1>2, <1>5 DEF WorkKinds, StopKinds
<1> QED
  BY <1>1, <1>2, <1>4, <1>5, <1>6, <1>7, StepSafe

-----------------------------------------------------------------------------
(* Jq2Worker *)

\* A step between the parts of the loop of a worker.
LEMMA BaseStep ==
  ASSUME IInv, NEW t \in Threads, Top(t).at \in BaseKinds, Top(t).work = 0, NEW at \in BaseKinds,
         stack' = SetTop(stack, t, [at |-> at, work |-> 0]),
         UNCHANGED <<q, mutex, nStop, jobs>>, sem' \in 0 .. 2 * NumWorkers
  PROVE  IInv'
<1> DEFINE f == Top(t)
           g == [at |-> at, work |-> 0]
<1>1. /\ Inv(q, stack, jobs) /\ f \in Frames
      /\ f = Last(stack[t]) /\ stack \in Stacks(Frames) /\ Others(stack, stack, t)
      /\ f.at # "full" => mutex # t
  BY Acting
<1>2. g \in Frames /\ g.at = at /\ g.work = 0
  BY DEF Frames, FrameOf, BaseKinds
<1> HIDE DEF g
<1>3. Alike(f, g)
  <2>1. \A s \in Slots : ~(f.work = s) /\ ~(g.work = s)
    BY <1>2 DEF Slots
  <2> HIDE DEF f
  <2> QED
    BY <1>2, <2>1 DEF Alike, Idle, BaseKinds, CallKinds, WaitFrames, MainKinds, f
<1>4. Inv(q', stack', jobs')
  BY <1>1, <1>2, <1>3, RetopInv DEF g
<1>5. Others(stack, stack', t) /\ Last(stack'[t]) = g
  BY <1>1, <1>2, OthersSame DEF g
<1>6. t # Main /\ Main \in Threads
  <2>1. Level(stack, t, Depth(stack, t)) /\ f = stack[t][Depth(stack, t)]
    BY <1>1, TopFrame
  <2>2. f.at \notin CallKinds /\ f.at # "user"
    BY DEF BaseKinds, CallKinds, WaitFrames, MainKinds
  <2> QED
    BY <2>1, <2>2 DEF Level, Threads
<1>7. \/ Last(stack'[Main]) = Last(stack[Main])
      \/ Last(stack[Main]).at = "blocked" /\ Last(stack'[Main]).at = "woken"
  BY <1>5, <1>6 DEF Others
<1>8. Stopping(q', stack', nStop')
  BY <1>7 DEF IInv, Stopping, StopKinds
<1>9. Held(mutex', stack')
  <2>1. f.at # "full"
    BY DEF BaseKinds
  <2>2. mutex # NoThread => stack'[mutex] = stack[mutex]
    BY <1>1, <1>5, <2>1 DEF IInv, Held, Others
  <2> QED
    BY <2>2 DEF IInv, Held
<1> QED
  BY <1>4, <1>8, <1>9 DEF IInv

\* A worker tests nStop.
LEMMA WorkerTestInv ==
  ASSUME IInv, NEW t \in Threads, WorkerTest(t)
  PROVE  IInv'
<1> DEFINE at == IF nStop = 0 THEN "scan" ELSE "exit"
<1>1. /\ Top(t).at = "test" /\ stack' = SetTop(stack, t, [at |-> at, work |-> 0])
      /\ UNCHANGED <<q, mutex, sem, nStop, jobs>>
  BY DEF WorkerTest, At
<1>2. Top(t).work = 0 /\ sem \in 0 .. 2 * NumWorkers
  BY <1>1, Acting DEF Idle, IdleKinds
<1>3. at \in BaseKinds /\ Top(t).at \in BaseKinds
  BY <1>1 DEF BaseKinds
<1> QED
  BY <1>1, <1>2, <1>3, BaseStep

\* A worker is woken by the semaphore.
LEMMA WorkerWakeInv ==
  ASSUME IInv, NEW t \in Threads, WorkerWake(t)
  PROVE  IInv'
<1>1. /\ Top(t).at = "sleep" /\ stack' = SetTop(stack, t, [at |-> "test", work |-> 0])
      /\ UNCHANGED <<q, mutex, nStop, jobs>> /\ sem > 0 /\ sem' = sem - 1
  BY DEF WorkerWake, At
<1>2. Top(t).work = 0 /\ sem \in 0 .. 2 * NumWorkers
  BY <1>1, Acting DEF Idle, IdleKinds
<1>3. "test" \in BaseKinds /\ Top(t).at \in BaseKinds
  BY <1>1 DEF BaseKinds
<1>4. sem' \in 0 .. 2 * NumWorkers
  BY <1>1, <1>2, WorkersFinite
<1> QED
  BY <1>1, <1>2, <1>3, <1>4, BaseStep

\* A worker counts the sub-job it has run and takes another one, or goes to
\* sleep.
LEMMA WorkerScanInv ==
  ASSUME IInv, NEW t \in Threads, WorkerScan(t)
  PROVE  IInv'
<1> DEFINE f == Top(t)
           w == f.work
           p == AfterWork(w)
           st == Notified(w)
           g == [f EXCEPT !.work = 0]
           z == [at |-> "sleep", work |-> 0]
<1>1. /\ Inv(q, stack, jobs) /\ f \in Frames /\ sem \in 0 .. 2 * NumWorkers
      /\ f = Last(stack[t]) /\ stack \in Stacks(Frames) /\ Others(stack, stack, t)
      /\ f.at # "full" => mutex # t
  BY Acting
<1>2. /\ f.at = "scan"
      /\ IF HeadSlot(p) # 0
         THEN Execute(t, p, HeadSlot(p), st, f)
         ELSE q' = p /\ stack' = SetTop(st, t, z)
      /\ mutex' = mutex /\ sem' = sem /\ nStop' = nStop /\ jobs' = jobs
  BY DEF WorkerScan, At
<1>3. f.at \in WorkKinds
  BY <1>2 DEF WorkKinds
<1>4. Counted(t, p, st, jobs)
  BY <1>1, <1>3, CountedInv
<1>5. /\ Inv(p, SetTop(st, t, g), jobs) /\ st \in Stacks(Frames) /\ Others(stack, st, t)
  BY <1>4 DEF Counted
<1>6. PoolInv(p)
  BY <1>5 DEF Inv
<1>7. CASE HeadSlot(p) # 0
  <2>1. HeadSlot(p) \in Slots /\ Startable(p, HeadSlot(p))
    BY <1>6, <1>7, HeadSlotFacts
  <2>2. Top(Main).at \notin StopKinds
    <3>1. w = 0 => p = q
      BY DEF AfterWork
    <3> QED
      BY <1>3, <2>1, <3>1, NotStopping
  <2>3. Execute(t, p, HeadSlot(p), st, f)
    BY <1>2, <1>7
  <2> DEFINE s == HeadSlot(p)
  <2> HIDE DEF f, w, p, st, s
  <2>4. Inv(q', stack', jobs) /\ Others(stack, stack', t) /\ Last(stack'[t]).at = "user"
    BY <1>1, <1>3, <1>5, <2>1, <2>3, ExecuteInv DEF s
  <2> QED
    BY <1>1, <1>2, <2>2, <2>4, StepSafe DEF StopKinds
<1>8. CASE HeadSlot(p) = 0
  <2>1. q' = p /\ stack' = SetTop(st, t, z)
    BY <1>2, <1>8
  <2>2. CASE w = 0
    <3>1. p = q /\ st = stack
      BY <2>2 DEF AfterWork, Notified
    <3>2. "sleep" \in BaseKinds /\ Top(t).at \in BaseKinds /\ Top(t).work = 0
      BY <1>2, <2>2 DEF BaseKinds
    <3> QED
      BY <1>1, <1>2, <2>1, <3>1, <3>2, BaseStep
  <2>3. CASE w # 0
    <3>1. Top(Main).at \notin StopKinds
      BY <1>3, <2>3, NotStopping
    <3>2. g \in Frames /\ g.at = "scan" /\ g.work = 0
      BY <1>1, <1>2, <1>3, FrameWork
    <3>3. z \in Frames /\ z.at = "sleep" /\ z.work = 0
      BY DEF Frames, FrameOf
    <3> HIDE DEF g, z, f, w, p, st
    <3>4. Alike(g, z)
      <4>1. \A s \in Slots : ~(z.work = s) /\ ~(g.work = s)
        BY <3>2, <3>3 DEF Slots
      <4> QED
        BY <3>2, <3>3, <4>1 DEF Alike, Idle, BaseKinds, CallKinds, WaitFrames, MainKinds
    <3>5. Last(SetTop(st, t, g)[t]) = g /\ SetTop(SetTop(st, t, g), t, z) = SetTop(st, t, z)
      <4>1. Last(SetTop(st, t, g)[t]) = g
        BY <1>5, <3>2, OthersSame
      <4>2. SetTop(SetTop(st, t, g), t, z) = SetTop(st, t, z)
        BY <1>5, <3>2, <3>3, Collapse
      <4> QED
        BY <4>1, <4>2
    <3>6. Inv(p, SetTop(SetTop(st, t, g), t, z), jobs)
      <4> DEFINE v == SetTop(st, t, g)
      <4>1. Inv(p, v, jobs) /\ Last(v[t]) = g
        BY <1>5, <3>5 DEF g
      <4> HIDE DEF v
      <4>2. Inv(p, SetTop(v, t, z), jobs)
        BY <3>3, <3>4, <4>1, RetopInv
      <4> QED
        BY <4>2 DEF v
    <3>7. Others(stack, stack', t) /\ Last(stack'[t]) = z
      BY <1>5, <2>1, <3>3, OthersSame
    <3>8. Inv(q', stack', jobs')
      BY <1>2, <2>1, <3>5, <3>6
    <3> QED
      BY <1>1, <1>2, <3>1, <3>3, <3>7, <3>8, StepSafe DEF StopKinds
  <2> QED
    BY <2>2, <2>3
<1> QED
  BY <1>7, <1>8

-----------------------------------------------------------------------------
(* Jq2Wait and Jq2ExecuteChildren *)

\* A function of the queue returns to user code with the mutex free.
LEMMA ReturnStep ==
  ASSUME IInv, NEW t \in Threads, Top(t).at \in WaitFrames \cup {"waitall"}, Top(t).work = 0,
         stack' = Pop(stack, t), UNCHANGED <<q, mutex, sem, nStop, jobs>>
  PROVE  IInv'
<1> DEFINE f == Top(t)
<1>1. /\ Inv(q, stack, jobs) /\ f \in Frames /\ sem \in 0 .. 2 * NumWorkers
      /\ f = Last(stack[t]) /\ stack \in Stacks(Frames) /\ Others(stack, stack, t)
      /\ f.at # "full" => mutex # t
  BY Acting
<1>2. f.at \in CallKinds /\ f.at \notin BaseKinds \cup StopKinds /\ f.at # "full"
  BY DEF CallKinds, WaitFrames, MainKinds, BaseKinds, StopKinds
<1>3. Inv(q, Pop(stack, t), jobs) /\ Last(Pop(stack, t)[t]).at = "user"
  BY <1>1, <1>2, ReturnInv
<1>4. Others(stack, Pop(stack, t), t)
  BY <1>1, OthersSame
<1>5. Top(Main).at \notin StopKinds
  BY <1>2, NotStopping
<1> QED
  BY <1>1, <1>2, <1>3, <1>4, <1>5, StepSafe DEF StopKinds

\* A frame that stays in Jq2Wait, with a pool that differs in the counts of
\* waiters only.
LEMMA SamePoolInv ==
  ASSUME NEW p, NEW r, NEW st, NEW js, Inv(p, st, js), PoolInv(r), SamePool(p, r)
  PROVE  Inv(r, st, js)
<1>1. /\ r.nStartedHandle = p.nStartedHandle /\ r.nFinishedHandle = p.nFinishedHandle
      /\ r.nNumJobs = p.nNumJobs /\ r.nNumStarted = p.nNumStarted
      /\ r.num_finished_jobs = p.num_finished_jobs /\ r.nParent = p.nParent
      /\ r.nNextHandle = p.nNextHandle
  BY DEF SamePool
<1>2. Shape(st) /\ Apart(st)
  BY DEF Inv
<1>3. Accounted(r, st)
  BY <1>1 DEF Inv, Accounted
<1>4. AllPinned(r, st, DOMAIN js)
  BY <1>1 DEF Inv, AllPinned, Pinned, Owns
<1>5. Table(r, js)
  BY <1>1 DEF Inv, Table
<1>6. EndedOf(r, st, js)
  BY <1>1 DEF Inv, EndedOf
<1>7. UnderOf(r, js)
  BY <1>1 DEF Inv, UnderOf, IsDone
<1> QED
  BY <1>2, <1>3, <1>4, <1>5, <1>6, <1>7 DEF Inv

\* The steps between the parts of Jq2Wait.
LEMMA WaitStep ==
  ASSUME IInv, NEW t \in Threads, Top(t).at \in WaitFrames, Top(t).work = 0,
         NEW at \in WaitFrames, stack' = SetTop(stack, t, [Top(t) EXCEPT !.at = at]),
         UNCHANGED <<mutex, sem, nStop, jobs>>, PoolInv(q'), SamePool(q, q')
  PROVE  IInv'
<1> DEFINE f == Top(t)
           g == [f EXCEPT !.at = at]
<1>1. /\ Inv(q, stack, jobs) /\ f \in Frames /\ sem \in 0 .. 2 * NumWorkers
      /\ f = Last(stack[t]) /\ stack \in Stacks(Frames) /\ Others(stack, stack, t)
      /\ f.at # "full" => mutex # t
  BY Acting
<1>2. /\ f.at \in CallKinds /\ f.at \notin BaseKinds \cup StopKinds /\ f.at # "full"
      /\ f.at # "user" /\ f.at \notin MainKinds
  BY DEF CallKinds, WaitFrames, MainKinds, BaseKinds, StopKinds
<1>3. g \in Frames /\ g.at = at /\ g.work = 0 /\ g.for = f.for
  BY <1>1, FrameWait
<1> HIDE DEF g, f
<1>4. Alike(f, g)
  <2>1. \A s \in Slots : ~(f.work = s) /\ ~(g.work = s)
    BY <1>3 DEF Slots, f
  <2>2. /\ g.at \in CallKinds /\ g.at \notin BaseKinds /\ g.at # "user" /\ g.at \notin MainKinds
    BY <1>3 DEF CallKinds, WaitFrames, MainKinds, BaseKinds
  <2> QED
    BY <1>2, <1>3, <2>1, <2>2 DEF Alike, Idle, f
<1>5. Inv(q, SetTop(stack, t, g), jobs)
  BY <1>1, <1>3, <1>4, RetopInv
<1>6. Inv(q', stack', jobs')
  BY <1>5, SamePoolInv DEF g, f
<1>7. Others(stack, stack', t) /\ Last(stack'[t]) = g
  BY <1>1, <1>3, OthersSame DEF g, f
<1>8. Top(Main).at \notin StopKinds
  BY <1>2, NotStopping DEF f
<1>9. g.at \notin StopKinds
  BY <1>3 DEF WaitFrames, StopKinds
<1> QED
  BY <1>1, <1>2, <1>6, <1>7, <1>8, <1>9, StepSafe

\* A pool is the same as itself.
LEMMA SameAsItself ==
  ASSUME IInv
  PROVE  PoolInv(q) /\ SamePool(q, q)
BY DEF IInv, Inv, SamePool

\* The test outside of the lock.
LEMMA WaitDoneInv ==
  ASSUME IInv, NEW t \in Threads, WaitDone(t)
  PROVE  IInv'
<1>1. /\ Top(t).at = "wait" /\ Top(t).work = 0 /\ q' = q /\ stack' = Pop(stack, t)
      /\ UNCHANGED <<mutex, sem, nStop, jobs>>
  BY DEF WaitDone, Return, At
<1>2. Top(t).at \in WaitFrames \cup {"waitall"}
  BY <1>1 DEF WaitFrames
<1> QED
  BY <1>1, <1>2, ReturnStep

\* User code calls Jq2Wait or Jq2ExecuteChildren.
LEMMA WaitCallInv ==
  ASSUME IInv, NEW t \in Threads, NEW h \in DOMAIN jobs, NEW k \in WaitKinds, Wait(t, h, k)
  PROVE  IInv'
<1> DEFINE f == Top(t)
           g == [at |-> "wait", for |-> h, kind |-> k, work |-> 0]
<1>1. /\ Inv(q, stack, jobs) /\ f \in Frames /\ sem \in 0 .. 2 * NumWorkers
      /\ f = Last(stack[t]) /\ stack \in Stacks(Frames) /\ Others(stack, stack, t)
      /\ f.at # "full" => mutex # t
  BY Acting
<1>2. /\ f.at = "user" /\ stack' = Push(stack, t, g)
      /\ UNCHANGED <<q, mutex, sem, nStop, jobs>>
  BY DEF Wait, At
<1>3. g \in Frames /\ g.at = "wait" /\ g.work = 0 /\ g.for = h
  <2>1. h \in Nat
    BY <1>1 DEF Inv, Table
  <2> QED
    BY <2>1 DEF Frames, FrameOf
<1> HIDE DEF g
<1>4. Inv(q, Push(stack, t, g), jobs)
  <2>1. g.at \in CallKinds /\ Idle(g) /\ g.at \notin MainKinds
    BY <1>3 DEF CallKinds, WaitFrames, Idle, IdleKinds, MainKinds
  <2>2. Last(stack[t]).at = "user"
    BY <1>1, <1>2
  <2> QED
    BY <1>1, <1>3, <2>1, <2>2, CallInv
<1>5. Others(stack, stack', t) /\ Last(stack'[t]) = g
  BY <1>1, <1>2, <1>3, OthersSame
<1>6. Top(Main).at \notin StopKinds
  BY <1>2, NotStopping DEF BaseKinds, StopKinds
<1> QED
  BY <1>1, <1>2, <1>3, <1>4, <1>5, <1>6, StepSafe DEF StopKinds

\* The section around the wait for the condition variable.
LEMMA WaitBlockInv ==
  ASSUME IInv, NEW t \in Threads, WaitBlock(t)
  PROVE  IInv'
<1> DEFINE f == Top(t)
           s == SlotOf(f.for)
<1>1. /\ f.at = "block"
      /\ IF IsDone(q, f.for)
         THEN q' = q /\ stack' = Pop(stack, t)
         ELSE /\ q' = AddWaiter(q, s)
              /\ stack' = SetTop(stack, t, [f EXCEPT !.at = "blocked"])
      /\ UNCHANGED <<mutex, sem, nStop, jobs>>
  BY DEF WaitBlock, At, Return
<1>2. f.work = 0
  BY <1>1, Acting DEF Idle, IdleKinds
<1>3. f.at \in WaitFrames /\ "blocked" \in WaitFrames
  BY <1>1 DEF WaitFrames
<1>4. CASE IsDone(q, f.for)
  BY <1>1, <1>2, <1>3, <1>4, ReturnStep
<1>5. CASE ~IsDone(q, f.for)
  <2>1. s \in Slots
    <3>1. Inv(q, stack, jobs) /\ f = Last(stack[t])
      BY Acting
    <3>2. Pinned(q, DOMAIN jobs, f)
      BY <3>1, TopFrame
    <3>3. f.for \in DOMAIN jobs
      BY <1>3, <3>2 DEF Pinned
    <3> QED
      BY <3>1, <3>3 DEF Inv, Table
  <2>2. PoolInv(AddWaiter(q, s)) /\ SamePool(q, AddWaiter(q, s))
    BY <2>1, SameAsItself, WaitersInv
  <2>3. /\ PoolInv(q') /\ SamePool(q, q')
        /\ stack' = SetTop(stack, t, [f EXCEPT !.at = "blocked"])
    BY <1>1, <1>5, <2>2
  <2> QED
    BY <1>1, <1>2, <1>3, <2>3, WaitStep
<1> QED
  BY <1>4, <1>5

\* SleepConditionVariableCS returns.
LEMMA SpuriousWakeInv ==
  ASSUME IInv, NEW t \in Threads, SpuriousWake(t)
  PROVE  IInv'
<1>1. /\ Top(t).at = "blocked" /\ UNCHANGED <<q, mutex, sem, nStop, jobs>>
      /\ stack' = SetTop(stack, t, [Top(t) EXCEPT !.at = "woken"])
  BY DEF SpuriousWake, At
<1>2. Top(t).work = 0
  BY <1>1, Acting DEF Idle, IdleKinds
<1>3. Top(t).at \in WaitFrames /\ "woken" \in WaitFrames
  BY <1>1 DEF WaitFrames
<1>4. PoolInv(q') /\ SamePool(q, q')
  BY <1>1, SameAsItself
<1> QED
  BY <1>1, <1>2, <1>3, <1>4, WaitStep

\* The waiter is counted out.
LEMMA WaitWokenInv ==
  ASSUME IInv, NEW t \in Threads, WaitWoken(t)
  PROVE  IInv'
<1> DEFINE f == Top(t)
           s == SlotOf(f.for)
<1>1. /\ f.at = "woken" /\ q' = DropWaiter(q, s) /\ UNCHANGED <<mutex, sem, nStop, jobs>>
      /\ stack' = SetTop(stack, t, [f EXCEPT !.at = "wait"])
  BY DEF WaitWoken, At
<1>2. f.work = 0
  BY <1>1, Acting DEF Idle, IdleKinds
<1>3. f.at \in WaitFrames /\ "wait" \in WaitFrames
  BY <1>1 DEF WaitFrames
<1>4. s \in Slots
  <2>1. Inv(q, stack, jobs) /\ f = Last(stack[t])
    BY Acting
  <2>2. Pinned(q, DOMAIN jobs, f)
    BY <2>1, TopFrame
  <2>3. f.for \in DOMAIN jobs
    BY <1>3, <2>2 DEF Pinned
  <2> QED
    BY <2>1, <2>3 DEF Inv, Table
<1>5. PoolInv(DropWaiter(q, s)) /\ SamePool(q, DropWaiter(q, s))
  BY <1>4, SameAsItself, WaitersInv
<1> QED
  BY <1>1, <1>2, <1>3, <1>5, WaitStep

\* A round of the loop of Jq2Wait.
LEMMA WaitTakeInv ==
  ASSUME IInv, NEW t \in Threads, WaitTake(t)
  PROVE  IInv'
<1> DEFINE f == Top(t)
           w == f.work
           p == AfterWork(w)
           st == Notified(w)
           g == [f EXCEPT !.work = 0]
           next == IF f.kind.idle = "block" THEN "block" ELSE "wait"
           z == [f EXCEPT !.at = next, !.work = 0]
           v == SetTop(st, t, g)
           s == WaitChoice(p, f)
<1>1. /\ Inv(q, stack, jobs) /\ f \in Frames /\ sem \in 0 .. 2 * NumWorkers
      /\ f = Last(stack[t]) /\ stack \in Stacks(Frames) /\ Others(stack, stack, t)
      /\ f.at # "full" => mutex # t
  BY Acting
<1>2. /\ f.at = "wait"
      /\ IF WaitReturns(p, f)
         THEN q' = p /\ stack' = Pop(st, t)
         ELSE IF s # 0
              THEN Execute(t, p, s, st, f)
              ELSE q' = p /\ stack' = SetTop(st, t, z)
      /\ mutex' = mutex /\ sem' = sem /\ nStop' = nStop /\ jobs' = jobs
  BY DEF WaitTake, At, Return
<1>3. f.at \in WorkKinds /\ f.at \in WaitFrames
  BY <1>2 DEF WorkKinds, WaitFrames
<1>4. Counted(t, p, st, jobs)
  BY <1>1, <1>3, CountedInv
<1>5. /\ Inv(p, v, jobs) /\ st \in Stacks(Frames) /\ Others(stack, st, t)
  BY <1>4 DEF Counted
<1>6. PoolInv(p)
  BY <1>5 DEF Inv
<1>7. g \in Frames /\ g.at = "wait" /\ g.work = 0 /\ g.for = f.for
  BY <1>1, <1>2, <1>3, FrameWork
<1>8. next \in WaitFrames /\ next \notin StopKinds
  BY DEF WaitFrames, StopKinds
<1>9. z = [g EXCEPT !.at = next]
  <2>1. f \in [at : {"wait", "block", "blocked", "woken"}, for : Nat,
               kind : WaitKinds, work : Slots \cup {0}]
    BY <1>1, <1>2 DEF Frames, FrameOf
  <2> HIDE DEF f, next
  <2> QED
    BY <2>1
<1>10. Top(Main).at \notin StopKinds
  BY <1>2, NotStopping DEF BaseKinds, StopKinds
<1>11. s # 0 => s \in Slots /\ Startable(p, s)
  <2>1. SlotOf(f.for) \in Slots
    <3>1. Pinned(q, DOMAIN jobs, f)
      BY <1>1, TopFrame
    <3>2. f.for \in DOMAIN jobs
      BY <1>3, <3>1 DEF Pinned
    <3> QED
      BY <1>1, <3>2 DEF Inv, Table
  <2>2. CASE f.kind.take = "any"
    BY <1>6, <2>2, HeadSlotFacts DEF WaitChoice
  <2>3. CASE f.kind.take # "any"
    BY <1>6, <2>1, <2>3, ChildSlotFacts DEF WaitChoice
  <2> QED
    BY <2>2, <2>3
<1> HIDE DEF f, w, p, st, g, z, s, next
<1>12. Last(v[t]) = g
  BY <1>5, <1>7, OthersSame
<1>13. CASE WaitReturns(p, f)
  <2>1. q' = p /\ stack' = Pop(st, t)
    BY <1>2, <1>13
  <2>2. Pop(v, t) = Pop(st, t)
    BY <1>5, <1>7, Collapse
  <2> HIDE DEF v
  <2>3. Last(v[t]).at \in CallKinds /\ Last(v[t]).work = 0
    BY <1>7, <1>12 DEF CallKinds, WaitFrames
  <2>4. Inv(p, Pop(v, t), jobs) /\ Last(Pop(v, t)[t]).at = "user"
    BY <1>5, <2>3, ReturnInv
  <2>5. Inv(q', stack', jobs') /\ Last(stack'[t]).at = "user"
    BY <1>2, <2>1, <2>2, <2>4
  <2>6. Others(stack, stack', t)
    BY <1>5, <1>7, <2>1, OthersSame
  <2> QED
    BY <1>1, <1>2, <1>10, <2>5, <2>6, StepSafe DEF StopKinds, f
<1>14. CASE ~WaitReturns(p, f) /\ s # 0
  <2>1. Execute(t, p, s, st, f) /\ s \in Slots /\ Startable(p, s)
    BY <1>2, <1>11, <1>14
  <2>2. Inv(q', stack', jobs) /\ Others(stack, stack', t) /\ Last(stack'[t]).at = "user"
    BY <1>1, <1>3, <1>5, <2>1, ExecuteInv DEF g
  <2> QED
    BY <1>1, <1>2, <1>10, <2>2, StepSafe DEF StopKinds, f
<1>15. CASE ~WaitReturns(p, f) /\ s = 0
  <2>1. q' = p /\ stack' = SetTop(st, t, z)
    BY <1>2, <1>15
  <2>2. z \in Frames /\ z.at = next /\ z.work = 0 /\ z.for = g.for
    BY <1>3, <1>2, <1>7, <1>8, <1>9, FrameWait
  <2>3. Alike(g, z)
    <3>1. \A x \in Slots : ~(z.work = x) /\ ~(g.work = x)
      BY <1>7, <2>2 DEF Slots
    <3> QED
      BY <1>7, <1>8, <2>2, <3>1
      DEF Alike, Idle, BaseKinds, CallKinds, WaitFrames, MainKinds
  <2>4. SetTop(v, t, z) = SetTop(st, t, z)
    BY <1>5, <1>7, <2>2, Collapse
  <2> HIDE DEF v
  <2>5. Inv(p, SetTop(v, t, z), jobs)
    BY <1>5, <1>12, <2>2, <2>3, RetopInv
  <2>6. Inv(q', stack', jobs')
    BY <1>2, <2>1, <2>4, <2>5
  <2>7. Others(stack, stack', t) /\ Last(stack'[t]) = z
    BY <1>5, <2>1, <2>2, OthersSame
  <2> QED
    BY <1>1, <1>2, <1>8, <1>10, <2>2, <2>6, <2>7, StepSafe DEF f
<1> QED
  BY <1>13, <1>14, <1>15

-----------------------------------------------------------------------------
(* Jq2WaitAll and Jq2Stop *)

\* The main program calls Jq2WaitAll or Jq2Stop.
LEMMA WaitAllInv ==
  ASSUME IInv, NEW stop \in BOOLEAN, WaitAll(stop)
  PROVE  IInv'
<1> DEFINE f == Top(Main)
           g == [at |-> "waitall", stop |-> stop, work |-> 0]
<1>1. Main \in Threads
  BY DEF Threads
<1>2. /\ Inv(q, stack, jobs) /\ f \in Frames /\ sem \in 0 .. 2 * NumWorkers
      /\ f = Last(stack[Main]) /\ stack \in Stacks(Frames) /\ Others(stack, stack, Main)
      /\ f.at # "full" => mutex # Main
  BY <1>1, Acting
<1>3. /\ f.at = "user" /\ f.job = 0 /\ stack' = Push(stack, Main, g)
      /\ UNCHANGED <<q, mutex, sem, nStop, jobs>>
  BY DEF WaitAll, At
<1>4. g \in Frames /\ g.at = "waitall" /\ g.work = 0
  BY DEF Frames, FrameOf
<1>5. Depth(stack, Main) = 1
  <2>1. Level(stack, Main, Depth(stack, Main)) /\ f = stack[Main][Depth(stack, Main)]
    BY <1>1, <1>2, TopFrame
  <2> HIDE DEF f
  <2> QED
    BY <1>3, <2>1 DEF Level
<1> HIDE DEF g
<1>6. Inv(q, Push(stack, Main, g), jobs)
  <2>1. g.at \in CallKinds /\ Idle(g) /\ g.at \notin WaitFrames
    BY <1>4 DEF CallKinds, WaitFrames, Idle, IdleKinds, MainKinds
  <2>2. Last(stack[Main]).at = "user"
    BY <1>2, <1>3
  <2> QED
    BY <1>1, <1>2, <1>4, <1>5, <2>1, <2>2, CallInv
<1>7. Others(stack, stack', Main) /\ Last(stack'[Main]) = g
  BY <1>1, <1>2, <1>3, <1>4, OthersSame
<1>8. Top(Main).at \notin StopKinds
  BY <1>3 DEF StopKinds
<1> QED
  BY <1>1, <1>2, <1>3, <1>4, <1>6, <1>7, <1>8, StepSafe DEF StopKinds

\* The main thread goes on from one part of Jq2Stop to the next, with no job
\* pending.
LEMMA StopStep ==
  ASSUME IInv, Top(Main).at \in {"waitall", "stop", "join"},
         Top(Main).at = "waitall" => Top(Main).work = 0, q.nFreeJobs = MaxJobs - 1,
         NEW at \in StopKinds, stack' = SetTop(stack, Main, [at |-> at]),
         UNCHANGED <<q, mutex, nStop, jobs>>, sem' \in 0 .. 2 * NumWorkers
  PROVE  IInv'
<1> DEFINE f == Top(Main)
           g == [at |-> at]
<1>1. Main \in Threads
  BY DEF Threads
<1>2. /\ Inv(q, stack, jobs) /\ f \in Frames
      /\ f = Last(stack[Main]) /\ stack \in Stacks(Frames) /\ Others(stack, stack, Main)
      /\ f.at # "full" => mutex # Main
  BY <1>1, Acting
<1>3. g \in Frames /\ g.at = at
  BY DEF Frames, FrameOf, StopKinds
<1> HIDE DEF g, f
<1>4. Alike(f, g)
  <2>1. f.at \in MainKinds /\ g.at \in StopKinds
    BY <1>3 DEF MainKinds, f
  <2>2. ~(\E s \in Slots : f.at \in WorkKinds /\ f.work = s)
    BY DEF f, WorkKinds, Slots
  <2>3. g.at \notin WorkKinds /\ g.at \notin IdleKinds
    BY <2>1 DEF StopKinds, WorkKinds, IdleKinds
  <2> QED
    BY <2>1, <2>2, <2>3 DEF Alike, Idle, BaseKinds, CallKinds, WaitFrames, MainKinds, StopKinds
<1>5. Inv(q', stack', jobs')
  BY <1>1, <1>2, <1>3, <1>4, RetopInv DEF g
<1>6. Others(stack, stack', Main) /\ Last(stack'[Main]) = g
  BY <1>1, <1>2, <1>3, OthersSame DEF g
<1>7. Held(mutex', stack')
  <2>1. mutex # Main
    BY <1>2 DEF f
  <2>2. mutex # NoThread => stack'[mutex] = stack[mutex]
    BY <1>6, <2>1 DEF IInv, Held, Others
  <2> QED
    BY <2>2 DEF IInv, Held
<1>8. Stopping(q', stack', nStop')
  BY <1>3, <1>6 DEF IInv, Stopping
<1> QED
  BY <1>5, <1>7, <1>8 DEF IInv

\* Jq2WaitAll reads nFreeJobs and returns, or Jq2Stop goes on.
LEMMA WaitAllDoneInv ==
  ASSUME IInv, WaitAllDone
  PROVE  IInv'
<1>1. /\ Top(Main).at = "waitall" /\ Top(Main).work = 0 /\ q.nFreeJobs = MaxJobs - 1
      /\ stack' = IF Top(Main).stop THEN SetTop(stack, Main, [at |-> "stop"])
                  ELSE Pop(stack, Main)
      /\ UNCHANGED <<q, mutex, sem, nStop, jobs>>
  BY DEF WaitAllDone, At
<1>2. Main \in Threads /\ sem \in 0 .. 2 * NumWorkers
  BY DEF Threads, IInv
<1>3. CASE Top(Main).stop
  <2>1. stack' = SetTop(stack, Main, [at |-> "stop"]) /\ "stop" \in StopKinds
    BY <1>1, <1>3 DEF StopKinds
  <2> QED
    BY <1>1, <1>2, <2>1, StopStep
<1>4. CASE ~Top(Main).stop
  BY <1>1, <1>2, <1>4, ReturnStep
<1> QED
  BY <1>3, <1>4

\* Jq2WaitAll counts the sub-job it has run, and takes another one.
LEMMA WaitAllTakeInv ==
  ASSUME IInv, WaitAllTake
  PROVE  IInv'
<1> DEFINE t == Main
           f == Top(t)
           w == f.work
           p == AfterWork(w)
           st == Notified(w)
           g == [f EXCEPT !.work = 0]
           s == HeadSlot(p)
<1>1. t \in Threads
  BY DEF Threads
<1> HIDE DEF t
<1>2. /\ Inv(q, stack, jobs) /\ f \in Frames /\ sem \in 0 .. 2 * NumWorkers
      /\ f = Last(stack[t]) /\ stack \in Stacks(Frames) /\ Others(stack, stack, t)
      /\ f.at # "full" => mutex # t
  BY <1>1, Acting
<1>3. /\ f.at = "waitall"
      /\ IF s # 0
         THEN Execute(t, p, s, st, f)
         ELSE q' = p /\ stack' = SetTop(st, t, g)
      /\ mutex' = mutex /\ sem' = sem /\ nStop' = nStop /\ jobs' = jobs
  BY DEF WaitAllTake, At, t
<1>4. f.at \in WorkKinds
  BY <1>3 DEF WorkKinds
<1>5. Counted(t, p, st, jobs)
  BY <1>1, <1>2, <1>4, CountedInv
<1>6. Inv(p, SetTop(st, t, g), jobs) /\ st \in Stacks(Frames) /\ Others(stack, st, t)
  BY <1>5 DEF Counted
<1>7. s # 0 => s \in Slots /\ Startable(p, s)
  BY <1>6, HeadSlotFacts DEF Inv
<1>8. g \in Frames /\ g.at = "waitall" /\ g.work = 0
  BY <1>2, <1>3, <1>4, FrameWork
<1>9. Top(Main).at \notin StopKinds
  BY <1>3 DEF StopKinds, t
<1> HIDE DEF f, w, p, st, g, s
<1>10. CASE s # 0
  <2>1. Execute(t, p, s, st, f) /\ s \in Slots /\ Startable(p, s)
    BY <1>3, <1>7, <1>10
  <2>2. Inv(q', stack', jobs) /\ Others(stack, stack', t) /\ Last(stack'[t]).at = "user"
    BY <1>1, <1>2, <1>4, <1>6, <2>1, ExecuteInv DEF g
  <2> QED
    BY <1>1, <1>2, <1>3, <1>9, <2>2, StepSafe DEF StopKinds
<1>11. CASE s = 0
  <2>1. q' = p /\ stack' = SetTop(st, t, g)
    BY <1>3, <1>11
  <2>2. Others(stack, stack', t) /\ Last(stack'[t]) = g
    BY <1>1, <1>6, <1>8, <2>1, OthersSame
  <2>3. Inv(q', stack', jobs')
    BY <1>3, <1>6, <2>1
  <2> QED
    BY <1>1, <1>2, <1>3, <1>8, <1>9, <2>2, <2>3, StepSafe DEF StopKinds
<1> QED
  BY <1>10, <1>11

\* Jq2Stop sets nStop, signals the workers and joins them.
LEMMA StopSetInv ==
  ASSUME IInv, StopSet \/ StopSignal \/ StopJoin
  PROVE  IInv'
<1>1. Main \in Threads /\ NumWorkers \in Nat
  BY WorkersFinite DEF Threads
<1>2. CASE StopSet
  <2>1. At(Main, "stop") /\ nStop' = 1 /\ UNCHANGED <<q, mutex, sem, stack, jobs>>
    BY <1>2 DEF StopSet
  <2> QED
    BY <2>1 DEF IInv, Stopping, StopKinds, At, Top, Inv, Held
<1>3. ASSUME Top(Main).at \in {"stop", "join"} PROVE q.nFreeJobs = MaxJobs - 1
  BY <1>3 DEF IInv, Stopping, StopKinds, Top
<1>4. CASE StopSignal
  <2>1. /\ Top(Main).at = "stop" /\ SignalSemaphore(NumWorkers)
        /\ stack' = SetTop(stack, Main, [at |-> "join"])
        /\ UNCHANGED <<q, mutex, nStop, jobs>>
    BY <1>4 DEF StopSignal, At
  <2>2. sem' \in 0 .. 2 * NumWorkers
    BY <1>1, <2>1, SignalInv DEF IInv
  <2>3. "join" \in StopKinds
    BY DEF StopKinds
  <2> QED
    BY <1>3, <2>1, <2>2, <2>3, StopStep
<1>5. CASE StopJoin
  <2>1. /\ Top(Main).at = "join" /\ stack' = SetTop(stack, Main, [at |-> "stopped"])
        /\ UNCHANGED <<q, mutex, sem, nStop, jobs>>
    BY <1>5 DEF StopJoin, At
  <2>2. sem' \in 0 .. 2 * NumWorkers
    BY <2>1 DEF IInv
  <2>3. "stopped" \in StopKinds
    BY DEF StopKinds
  <2> QED
    BY <1>3, <2>1, <2>2, <2>3, StopStep
<1> QED
  BY <1>2, <1>4, <1>5

-----------------------------------------------------------------------------
(* The specification *)

\* A stack of one frame.
LEMMA OneFrame ==
  ASSUME NEW S, NEW f \in S
  PROVE  /\ <<f>> \in Seq(S) /\ Len(<<f>>) = 1 /\ <<f>>[1] = f
         /\ Last(<<f>>) = f
BY DEF Last

\* The initial stacks.
StartFrame(t) == IF t = Main THEN UserFrame(0, 0) ELSE [at |-> "test", work |-> 0]
LEMMA InitStacks ==
  ASSUME NEW st, st = [t \in Threads |-> <<StartFrame(t)>>]
  PROVE  /\ Shape(st)
         /\ \A x \in Positions(st) : x[1] \in Threads /\ x[2] = 1 /\ On(st, x) = StartFrame(x[1])
         /\ \A t \in Threads : /\ StartFrame(t).at \in {"user", "test"}
                               /\ StartFrame(t).at = "user" => /\ StartFrame(t).groups = <<>>
                                                               /\ StartFrame(t).job = 0
                                                               /\ StartFrame(t).mine = {}
         /\ Main \in Threads /\ Last(st[Main]).at = "user"
<1>1. ASSUME NEW t \in Threads
      PROVE  /\ StartFrame(t) \in Frames
             /\ StartFrame(t).at = IF t = Main THEN "user" ELSE "test"
             /\ t = Main => /\ StartFrame(t).groups = <<>> /\ StartFrame(t).job = 0
                            /\ StartFrame(t).mine = {}
             /\ t # Main => StartFrame(t).work = 0
  <2>1. CASE t = Main
    <3>1. StartFrame(t) = [at |-> "user", job |-> 0, sub |-> 0, groups |-> <<>>, mine |-> {}]
      BY <2>1 DEF StartFrame, UserFrame
    <3>2. <<>> \in Seq(Nat) /\ {} \in SUBSET Nat /\ 0 \in Nat
      OBVIOUS
    <3> QED
      BY <2>1, <3>1, <3>2 DEF Frames, FrameOf
  <2>2. CASE t # Main
    BY <2>2 DEF StartFrame, Frames, FrameOf
  <2> QED
    BY <2>1, <2>2
<1> DEFINE f(t) == StartFrame(t)
<1>2. ASSUME NEW t \in Threads
      PROVE  /\ st[t] = <<f(t)>> /\ st[t] \in Seq(Frames) /\ Len(st[t]) = 1
             /\ st[t][1] = f(t) /\ Last(st[t]) = f(t)
  <2>1. st[t] = <<f(t)>>
    OBVIOUS
  <2> HIDE DEF f
  <2>2. f(t) \in Frames
    BY <1>1 DEF f
  <2> QED
    BY <2>1, <2>2, OneFrame
<1>3. st \in Stacks(Frames)
  <2>1. st \in [Threads -> Seq(Frames)]
    <3> HIDE DEF f
    <3>1. DOMAIN st = Threads /\ st = [t \in Threads |-> st[t]]
      OBVIOUS
    <3> QED
      BY <1>2, <3>1
  <2>2. \A t \in Threads : Len(st[t]) = 1
    BY <1>2
  <2>3. \A t \in Threads : Len(st[t]) \in Nat /\ Len(st[t]) >= 1
    BY <2>2
  <2> QED
    BY <2>1, <2>3, Zenon DEF Stacks
<1>4. ASSUME NEW x \in Positions(st)
      PROVE  x[1] \in Threads /\ x[2] = 1 /\ On(st, x) = f(x[1])
  <2>1. x[1] \in Threads /\ x[2] \in Nat /\ 1 <= x[2] /\ x[2] <= Len(st[x[1]])
    BY <1>4 DEF Positions, Depth
  <2>2. x[2] = 1
    BY <1>2, <2>1
  <2> QED
    BY <1>2, <2>1, <2>2 DEF On
<1>5. ASSUME NEW x \in Positions(st)
      PROVE  Level(st, x[1], x[2]) /\ Idle(On(st, x))
  <2>1. x[1] \in Threads /\ x[2] = 1 /\ On(st, x) = f(x[1])
    BY <1>4
  <2>2. st[x[1]][x[2]] = f(x[1])
    BY <2>1 DEF On
  <2> QED
    BY <1>1, <2>1, <2>2 DEF Level, Idle, BaseKinds, IdleKinds
<1>6. Main \in Threads
  BY DEF Threads
<1> QED
  BY <1>1, <1>2, <1>3, <1>4, <1>5, <1>6 DEF Shape

\* The initial states.
LEMMA InitInv ==
  ASSUME Init
  PROVE  IInv
<1>1. /\ q = EmptyPool /\ mutex = NoThread /\ sem = 0 /\ nStop = 0 /\ jobs = << >>
      /\ stack = [t \in Threads |-> <<StartFrame(t)>>]
  BY DEF Init, StartFrame
<1>2. PoolInv(q) /\ q.nNextHandle = 1
  BY <1>1, EmptyPoolInv
<1>3. \A s \in Slots : /\ q.nStartedHandle[s] = 0 /\ q.nFinishedHandle[s] = 0
                       /\ q.nNumStarted[s] = 0 /\ q.num_finished_jobs[s] = 0
  BY <1>1, EmptyPoolInv
<1>4. DOMAIN jobs = {}
  BY <1>1
<1>5. Shape(stack)
  BY <1>1, InitStacks
<1>6. \A x \in Positions(stack) :
        /\ On(stack, x).at \in {"user", "test"}
        /\ On(stack, x).at = "user" => /\ On(stack, x).groups = <<>> /\ On(stack, x).job = 0
                                       /\ On(stack, x).mine = {}
  BY <1>1, InitStacks
<1>7. Accounted(q, stack)
  <2> SUFFICES ASSUME NEW s \in Slots
               PROVE  /\ IsFiniteSet(Work(stack, s)) /\ IsFiniteSet(Open(stack, s))
                      /\ Cardinality(Work(stack, s)) + Cardinality(Open(stack, s))
                           = q.nNumStarted[s] - q.num_finished_jobs[s]
    BY DEF Accounted
  <2>1. Work(stack, s) = {}
    BY <1>6 DEF Work, WorkKinds
  <2>2. Open(stack, s) = {}
    <3> SUFFICES ASSUME NEW g \in Open(stack, s) PROVE FALSE
      OBVIOUS
    <3>1. g[1] \in Positions(stack) /\ On(stack, g[1]).at = "user"
          /\ g[2] \in 1 .. Len(On(stack, g[1]).groups)
      BY DEF Open
    <3>2. Len(<<>>) = 0
      OBVIOUS
    <3> QED
      BY <1>6, <3>1, <3>2
  <2>3. IsFiniteSet({}) /\ Cardinality({}) = 0
    BY FS_EmptySet
  <2> QED
    BY <1>3, <2>1, <2>2, <2>3
<1>8. AllPinned(q, stack, DOMAIN jobs)
  <2> SUFFICES ASSUME NEW x \in Positions(stack)
               PROVE  Pinned(q, DOMAIN jobs, On(stack, x))
    BY DEF AllPinned
  <2>1. Len(<<>>) = 0
    OBVIOUS
  <2> QED
    BY <1>6, <2>1 DEF Pinned, WaitFrames
<1>9. Apart(stack)
  BY <1>6 DEF Apart
<1>10. Table(q, jobs)
  BY <1>3, <1>4 DEF Table
<1>11. EndedOf(q, stack, jobs) /\ UnderOf(q, jobs)
  BY <1>4 DEF EndedOf, UnderOf
<1>12. Inv(q, stack, jobs)
  BY <1>2, <1>5, <1>7, <1>8, <1>9, <1>10, <1>11 DEF Inv
<1>13. Held(mutex, stack)
  BY <1>1 DEF Held
<1>14. Stopping(q, stack, nStop)
  <2>1. Last(stack[Main]).at = "user"
    BY <1>1, InitStacks
  <2> QED
    BY <1>1, <2>1 DEF Stopping, StopKinds
<1>15. sem \in 0 .. 2 * NumWorkers
  BY <1>1, WorkersFinite
<1> QED
  BY <1>12, <1>13, <1>14, <1>15 DEF IInv

\* Every step keeps the inductive invariant.
LEMMA NextInv ==
  ASSUME IInv, [Next]_vars
  PROVE  IInv'
<1>1. ASSUME NEW t \in Threads, CallStep(t)
      PROVE  IInv'
  BY <1>1, FindFinishInv, FindAgainInv, AddSignalInv, WorkerTestInv, WorkerScanInv,
     WorkerWakeInv, WaitDoneInv, WaitTakeInv, WaitBlockInv, WaitWokenInv DEF CallStep
<1>2. ASSUME NEW t \in Threads, UserStep(t)
      PROVE  IInv'
  BY <1>2, AddInv, GroupBeginInv, GroupEndStep, UserReturnInv, WaitCallInv DEF UserStep
<1>3. ASSUME NEW t \in Threads, SpuriousWake(t)
      PROVE  IInv'
  BY <1>3, SpuriousWakeInv
<1>4. ASSUME NEW stop \in BOOLEAN, WaitAll(stop)
      PROVE  IInv'
  BY <1>4, WaitAllInv
<1>5. CASE MainStep
  BY <1>5, WaitAllDoneInv, WaitAllTakeInv, StopSetInv DEF MainStep
<1>6. CASE UNCHANGED vars
  <2>1. UNCHANGED q /\ UNCHANGED mutex /\ UNCHANGED sem /\ UNCHANGED nStop
        /\ UNCHANGED stack /\ UNCHANGED jobs
    BY <1>6 DEF vars
  <2> QED
    BY <2>1 DEF IInv
<1> QED
  BY <1>1, <1>2, <1>3, <1>4, <1>5, <1>6 DEF Next, Stopped

\* The inductive invariant holds in every reachable state.
THEOREM Invariance == Spec => []IInv
BY InitInv, NextInv, PTL DEF Spec

-----------------------------------------------------------------------------
(* The safety properties *)

\* The positions of the property are those of the invariant.
LEMMA FramesAre ==
  ASSUME stack \in Stacks(Frames), NEW kinds
  PROVE  /\ FramesIn(kinds) = {x \in Positions(stack) : On(stack, x).at \in kinds}
         /\ \A t \in Threads : \A i \in DOMAIN stack[t] : <<t, i>> \in Positions(stack)
<1> DEFINE All == UNION {{t} \X DOMAIN stack[t] : t \in Threads}
<1>1. ASSUME NEW t \in Threads
      PROVE  DOMAIN stack[t] = 1 .. Depth(stack, t) /\ Depth(stack, t) \in Nat
  <2>1. stack[t] \in Seq(Frames)
    BY DEF Stacks
  <2> QED
    BY <2>1, LenProperties DEF Depth
<1>2. ASSUME NEW x \in All PROVE x \in Positions(stack)
  <2>1. PICK t \in Threads : x \in {t} \X DOMAIN stack[t]
    BY <1>2
  <2>2. x = <<t, x[2]>> /\ x[2] \in DOMAIN stack[t]
    BY <2>1
  <2>3. x[1] = t /\ x[2] \in 1 .. Depth(stack, t) /\ Depth(stack, t) \in Nat
    BY <1>1, <2>2
  <2>4. x[2] \in Nat /\ 1 <= x[2] /\ x[2] <= Depth(stack, x[1])
    BY <2>3
  <2>5. x \in Threads \X Nat
    BY <2>2, <2>4
  <2> QED
    BY <2>4, <2>5 DEF Positions
<1>3. ASSUME NEW x \in Positions(stack) PROVE x \in All
  <2>1. x \in Threads \X Nat /\ 1 <= x[2] /\ x[2] <= Depth(stack, x[1])
    BY DEF Positions
  <2>2. x[1] \in Threads /\ x[2] \in Nat /\ x = <<x[1], x[2]>>
    BY <2>1
  <2>3. x[2] \in DOMAIN stack[x[1]]
    BY <1>1, <2>1, <2>2
  <2> QED
    BY <2>2, <2>3
<1>4. All = Positions(stack)
  <2> HIDE DEF All
  <2> QED
    BY <1>2, <1>3
<1>5. FramesIn(kinds) = {x \in All : stack[x[1]][x[2]].at \in kinds}
  BY DEF FramesIn
<1>6. ASSUME NEW t \in Threads, NEW i \in DOMAIN stack[t] PROVE <<t, i>> \in All
  OBVIOUS
<1> HIDE DEF All
<1> QED
  BY <1>4, <1>5, <1>6 DEF On

\* A frame whose handles were issued.
LEMMA FrameIssued ==
  ASSUME NEW f \in Frames, NEW J,
         f.at = "user" => f.mine \subseteq J, f.at \in WaitFrames => f.for \in J
  PROVE  f \in FrameOf(J)
<1>1. CASE f \in [at : {"test", "scan", "sleep", "exit"}, work : Slots \cup {0}]
  BY <1>1, Zenon DEF FrameOf
<1>2. CASE f \in [at : {"user"}, job : Nat, sub : Nat, groups : Seq(Nat), mine : SUBSET Nat]
  <2>1. f.at = "user"
    BY <1>2
  <2>2. f.mine \in SUBSET J
    BY <2>1
  <2>3. f \in [at : {"user"}, job : Nat, sub : Nat, groups : Seq(Nat), mine : SUBSET J]
    BY <1>2, <2>2
  <2> QED
    BY <2>3, Zenon DEF FrameOf
<1>3. CASE f \in [at : {"full"}, work : Slots \cup {0}, want : Wants]
  BY <1>3, Zenon DEF FrameOf
<1>4. CASE f \in [at : {"signal"}, num : SubCounts]
  BY <1>4, Zenon DEF FrameOf
<1>5. CASE f \in [at : {"wait", "block", "blocked", "woken"}, for : Nat,
                  kind : WaitKinds, work : Slots \cup {0}]
  <2>1. f.at \in WaitFrames
    BY <1>5 DEF WaitFrames
  <2>2. f \in [at : {"wait", "block", "blocked", "woken"}, for : J,
               kind : WaitKinds, work : Slots \cup {0}]
    BY <1>5, <2>1
  <2> QED
    BY <2>2, Zenon DEF FrameOf
<1>6. CASE f \in [at : {"waitall"}, stop : BOOLEAN, work : Slots \cup {0}]
  BY <1>6, Zenon DEF FrameOf
<1>7. CASE f \in [at : {"stop", "join", "stopped"}]
  BY <1>7, Zenon DEF FrameOf
<1> QED
  BY <1>1, <1>2, <1>3, <1>4, <1>5, <1>6, <1>7 DEF Frames, FrameOf

\* The largest number of sub-jobs that the program asks for.
LEMMA MostSubJobs ==
  /\ Max(SubCounts \cup {1}) \in Nat
  /\ \A n \in SubCounts \cup {1} : n \in Nat /\ n > 0 /\ n <= Max(SubCounts \cup {1})
<1> DEFINE D == SubCounts \cup {1}
           k == 2^16 - 1
           E == {b \in Nat : \A d \in D : d <= b}
           m == Min(E)
<1>1. k \in Nat /\ k >= 1
  <2>1. 2^16 \in Nat /\ 2^16 > 1
    BY SMT
  <2> QED
    BY <2>1
<1>2. ASSUME NEW d \in D PROVE d \in Nat /\ d > 0 /\ d <= k
  <2>1. CASE d \in SubCounts
    BY <2>1, ClientFacts
  <2>2. CASE d = 1
    BY <1>1, <2>2
  <2> QED
    BY <2>1, <2>2
<1> HIDE DEF k
<1>3. E \in SUBSET Nat /\ E # {}
  BY <1>1, <1>2
<1>4. m \in E /\ \A b \in E : m <= b
  <2> HIDE DEF E
  <2> QED
    BY <1>3, LeastNatural
<1> HIDE DEF m
<1>5. m \in Nat /\ \A d \in D : d <= m
  BY <1>4
<1>6. 1 \in D
  OBVIOUS
<1>7. m \in D
  <2> SUFFICES ASSUME m \notin D PROVE FALSE
    OBVIOUS
  <2>1. \A d \in D : d \in Nat /\ d # m
    BY <1>2
  <2>2. m \in Nat /\ m >= 1 /\ 1 \in D
    BY <1>5, <1>6
  <2>3. \A d \in D : d <= m - 1
    <3> HIDE DEF D
    <3> QED
      BY <1>5, <2>1
  <2>4. m - 1 \in E
    <3> HIDE DEF D
    <3> QED
      BY <2>2, <2>3
  <2> QED
    BY <1>4, <2>2, <2>4
<1>8. Max(D) \in D /\ \A d \in D : d <= Max(D)
  <2>1. \E x \in D : \A y \in D : x >= y
    <3> HIDE DEF D
    <3>1. \A y \in D : y \in Nat /\ y <= m
      BY <1>2, <1>5
    <3>2. \A y \in D : m >= y
      BY <1>5, <3>1
    <3> QED
      BY <1>7, <3>2
  <2>2. Max(D) \in D /\ \A y \in D : Max(D) >= y
    <3> HIDE DEF D
    <3> QED
      BY <2>1, Zenon DEF Max
  <2> DEFINE x == Max(D)
  <2> HIDE DEF x, D
  <2>3. x \in D /\ \A y \in D : x >= y
    BY <2>2 DEF x
  <2>4. \A y \in D : y <= x
    BY <1>2, <2>3
  <2> QED
    BY <2>3, <2>4 DEF x
<1> QED
  BY <1>2, <1>8

\* No more sub-jobs of a job end than it has.
LEMMA EndedAtMost ==
  ASSUME NEW p, NEW st, NEW js, Inv(p, st, js), NEW h \in DOMAIN js
  PROVE  /\ js[h].ended \in Nat /\ js[h].num \in SubCounts \cup {1}
         /\ js[h].ended <= js[h].num /\ js[h].under \in DOMAIN js \cup {0}
         /\ js[h] = [num |-> js[h].num, ended |-> js[h].ended, under |-> js[h].under]
         /\ h \in Nat /\ SlotOf(h) \in Slots
<1> DEFINE s == SlotOf(h)
           r == js[h]
<1>1. /\ r \in [num : SubCounts \cup {1}, ended : Nat, under : DOMAIN js \cup {0}]
      /\ h \in Nat /\ s \in Slots
  BY DEF Inv, Table
<1> HIDE DEF r
<1>2. /\ r.num \in SubCounts \cup {1} /\ r.ended \in Nat /\ r.under \in DOMAIN js \cup {0}
      /\ r = [num |-> r.num, ended |-> r.ended, under |-> r.under]
  BY <1>1
<1>3. r.num \in Nat
  BY <1>2, MostSubJobs
<1>4. PoolInv(p) /\ Accounted(p, st)
  BY DEF Inv
<1>5. r.ended <= r.num
  <2>1. CASE p.nStartedHandle[s] = h
    <3> DEFINE R == Cardinality(Returned(st, s))
               W == Cardinality(Work(st, s))
               O == Cardinality(Open(st, s))
    <3>1. r.num = p.nNumJobs[s] /\ r.ended = p.num_finished_jobs[s] + R
      BY <2>1 DEF Inv, EndedOf, r
    <3>2. W + O = p.nNumStarted[s] - p.num_finished_jobs[s]
      BY <1>1, <1>4 DEF Accounted
    <3>3. R \in Nat /\ W \in Nat /\ O \in Nat /\ R <= W
      BY <1>1, <1>4, HeldFacts
    <3>4. /\ p.num_finished_jobs[s] \in Nat /\ p.nNumStarted[s] \in Nat /\ p.nNumJobs[s] \in Nat
          /\ p.nNumStarted[s] <= p.nNumJobs[s]
      BY <1>1, <1>4, CountFacts
    <3> HIDE DEF R, W, O
    <3> QED
      BY <3>1, <3>2, <3>3, <3>4
  <2>2. CASE p.nStartedHandle[s] # h
    <3>1. r.ended = r.num
      BY <2>2 DEF Inv, EndedOf, r
    <3> QED
      BY <1>3, <3>1
  <2> QED
    BY <2>1, <2>2
<1> QED
  BY <1>1, <1>2, <1>5 DEF r

\* The fields of the state have their types.
LEMMA InvTypes ==
  ASSUME IInv
  PROVE  TypeOK
<1> DEFINE J == DOMAIN jobs
<1>1. Inv(q, stack, jobs) /\ PoolInv(q) /\ stack \in Stacks(Frames)
  BY DEF IInv, Inv, Shape
<1>2. mutex \in Threads \cup {NoThread} /\ sem \in 0 .. 2 * NumWorkers /\ nStop \in 0 .. 1
  BY DEF IInv, Held, Stopping
<1>3. DOMAIN stack = Threads
  BY <1>1 DEF Stacks
<1>4. ASSUME NEW t \in Threads, NEW i \in DOMAIN stack[t]
      PROVE  stack[t][i] \in FrameOf(J)
  <2> DEFINE x == <<t, i>>
  <2>1. x \in Positions(stack)
    BY <1>1, FramesAre
  <2>2. On(stack, x) = stack[t][i]
    BY DEF On
  <2>3. stack[t] \in Seq(Frames)
    BY <1>1 DEF Stacks
  <2>4. stack[t][i] \in Frames
    BY <2>3
  <2> HIDE DEF x
  <2>5. Pinned(q, J, On(stack, x))
    BY <1>1, <2>1 DEF Inv, AllPinned
  <2> DEFINE f == stack[t][i]
  <2>6. Pinned(q, J, f)
    BY <2>2, <2>5
  <2> HIDE DEF f, J
  <2>7. f.at = "user" => f.mine \subseteq J
    BY <2>6 DEF Pinned
  <2>8. f.at \in WaitFrames => f.for \in J
    BY <2>6 DEF Pinned
  <2>9. f \in Frames
    BY <2>4 DEF f
  <2>10. f \in FrameOf(J)
    BY <2>7, <2>8, <2>9, FrameIssued
  <2> QED
    BY <2>10 DEF f
<1>5. ASSUME NEW h \in J
      PROVE  jobs[h] \in [num : SubCounts \cup {1}, ended : 0 .. Max(SubCounts \cup {1}),
                          under : J \cup {0}]
  <2> DEFINE r == jobs[h]
             m == Max(SubCounts \cup {1})
  <2>1. /\ r.ended \in Nat /\ r.num \in SubCounts \cup {1}
        /\ r.ended <= r.num /\ r.under \in J \cup {0}
        /\ r = [num |-> r.num, ended |-> r.ended, under |-> r.under]
    BY <1>1, EndedAtMost
  <2>2. m \in Nat /\ r.num \in Nat /\ r.num <= m
    BY <2>1, MostSubJobs
  <2> HIDE DEF r, m, J
  <2>3. r.ended \in 0 .. m
    BY <2>1, <2>2
  <2>4. r \in [num : SubCounts \cup {1}, ended : 0 .. m, under : J \cup {0}]
    BY <2>1, <2>3
  <2> QED
    BY <2>4 DEF r, m
<1>6. ASSUME NEW s \in Slots
      PROVE  /\ q.nStartedHandle[s] \in J \cup {0} /\ q.nFinishedHandle[s] \in J \cup {0}
             /\ q.nParent[s] \in Slots \cup {0} /\ q.nWaiters[s] \in 0 .. 255
  <2>1. Table(q, jobs) /\ q \in Pools
    BY <1>1 DEF Inv, PoolInv
  <2>2. q.nParent \in [Slots -> Slots \cup {0}] /\ q.nWaiters \in [Slots -> 0 .. 255]
    BY <2>1, PoolTypes
  <2> QED
    BY <2>1, <2>2 DEF Table
<1>7. q.nFreeJobs \in 0 .. MaxJobs - 1
  <2>1. q.nFreeJobs = Cardinality(FreeSlots(q)) /\ FreeSlots(q) \in SUBSET Slots
    BY <1>1 DEF PoolInv, FreeJobs, FreeSlots
  <2>2. q.nFreeJobs \in Nat /\ q.nFreeJobs <= MaxJobs - 1
    BY <2>1, SlotsFinite
  <2> QED
    BY <2>2, MaxJobsAssumption
<1> QED
  BY <1>2, <1>3, <1>4, <1>5, <1>6, <1>7 DEF TypeOK

\* A job that is not done owns its slot, and is pending.
LEMMA NotDone ==
  ASSUME NEW p, NEW st, NEW js, Inv(p, st, js), NEW h \in DOMAIN js, ~IsDone(p, h)
  PROVE  p.nStartedHandle[SlotOf(h)] = h /\ PendingJobs(p, SlotOf(h))
<1>1. h \in Nat /\ SlotOf(h) \in Slots /\ PoolInv(p)
  BY EndedAtMost DEF Inv
<1>2. p.nFinishedHandle[SlotOf(h)] \in Nat /\ ~(h <= p.nFinishedHandle[SlotOf(h)])
  BY <1>1, CountFacts DEF IsDone
<1>3. p.nStartedHandle[SlotOf(h)] = h
  BY <1>2 DEF Inv, EndedOf
<1> QED
  BY <1>1, <1>2, <1>3 DEF PendingJobs

\* A job that is done has nothing left, nor have its children.
LEMMA InvDone ==
  ASSUME IInv
  PROVE  DoneMeansEnded
<1> SUFFICES ASSUME NEW h \in DOMAIN jobs, IsDone(q, h)
             PROVE  /\ jobs[h].ended = jobs[h].num
                    /\ \A c \in DOMAIN jobs : jobs[c].under = h => IsDone(q, c)
  BY DEF DoneMeansEnded
<1> DEFINE s == SlotOf(h)
<1>1. Inv(q, stack, jobs) /\ PoolInv(q) /\ Accounted(q, stack)
  BY DEF IInv, Inv
<1>2. h \in Nat /\ s \in Slots
  BY <1>1, EndedAtMost
<1>3. h # 0
  BY <1>2, MaxJobsAssumption DEF SlotOf, Slots
<1>4. /\ q.num_finished_jobs[s] \in Nat /\ q.nNumStarted[s] \in Nat /\ q.nNumJobs[s] \in Nat
      /\ q.num_finished_jobs[s] <= q.nNumStarted[s] /\ q.nNumStarted[s] <= q.nNumJobs[s]
      /\ q.nStartedHandle[s] \in Nat /\ q.nFinishedHandle[s] \in Nat
      /\ q.nFinishedHandle[s] <= q.nStartedHandle[s]
  BY <1>1, <1>2, CountFacts
<1>5. h <= q.nFinishedHandle[s]
  BY DEF IsDone
<1>6. ASSUME q.nStartedHandle[s] = h
      PROVE  /\ q.num_finished_jobs[s] = q.nNumStarted[s] /\ q.nNumStarted[s] = q.nNumJobs[s]
             /\ \A c : ~Has(q.children[s], c)
  <2>1. q.nFinishedHandle[s] = q.nStartedHandle[s]
    BY <1>4, <1>5, <1>6
  <2>2. PendingIff(q) /\ Tree(q)
    BY <1>1 DEF PoolInv
  <2>3. ~(q.num_finished_jobs[s] < q.nNumJobs[s]) /\ \A c \in Slots : ~Has(q.children[s], c)
    BY <1>2, <2>1, <2>2 DEF PendingIff, PendingJobs
  <2>4. \A c : Has(q.children[s], c) => c \in Slots
    BY <1>2, <2>2 DEF Tree
  <2> QED
    BY <1>4, <2>3, <2>4
<1>7. jobs[h].ended = jobs[h].num
  <2>1. CASE q.nStartedHandle[s] = h
    <3>1. /\ jobs[h].num = q.nNumJobs[s]
          /\ jobs[h].ended = q.num_finished_jobs[s] + Cardinality(Returned(stack, s))
      BY <1>1, <2>1 DEF Inv, EndedOf
    <3>2. Returned(stack, s) = {}
      BY <1>1, <1>2, <1>6, <2>1, HeldFacts
    <3>3. Cardinality(Returned(stack, s)) = 0
      BY <3>2, FS_EmptySet
    <3> QED
      BY <1>4, <1>6, <2>1, <3>1, <3>3
  <2>2. CASE q.nStartedHandle[s] # h
    BY <1>1, <2>2 DEF Inv, EndedOf
  <2> QED
    BY <2>1, <2>2
<1>8. ASSUME NEW c \in DOMAIN jobs, jobs[c].under = h, ~IsDone(q, c)
      PROVE  FALSE
  <2>1. q.nParent[SlotOf(c)] = s /\ q.nStartedHandle[s] = h
    BY <1>1, <1>3, <1>8 DEF Inv, UnderOf
  <2>2. PendingJobs(q, SlotOf(c)) /\ SlotOf(c) \in Slots
    BY <1>1, <1>8, NotDone, EndedAtMost
  <2>3. Has(q.children[s], SlotOf(c))
    BY <1>1, <1>2, <2>1, <2>2 DEF PoolInv, Tree
  <2> QED
    BY <1>6, <2>1, <2>3
<1> QED
  BY <1>7, <1>8

\* A slot stays with the job of a sub-job that runs.
LEMMA InvPinned ==
  ASSUME IInv
  PROVE  SlotPinned
<1>1. Inv(q, stack, jobs) /\ PoolInv(q) /\ stack \in Stacks(Frames)
  BY DEF IInv, Inv, Shape
<1>2. \A f : FrameAt(f) = On(stack, f)
  BY DEF FrameAt, On
<1>3. Bodies = {x \in Positions(stack) : On(stack, x).at = "user" /\ On(stack, x).job # 0}
  <2>1. FramesIn({"user"}) = {x \in Positions(stack) : On(stack, x).at \in {"user"}}
    BY <1>1, FramesAre
  <2> QED
    BY <1>2, <2>1 DEF Bodies
<1>4. ASSUME NEW f \in Bodies, NEW h, h = FrameAt(f).job
      PROVE  /\ q.nStartedHandle[SlotOf(h)] = h /\ ~IsDone(q, h)
             /\ stack[f[1]][f[2] - 1].work = SlotOf(h)
             /\ FrameAt(f).sub < jobs[h].num
  <2>1. f \in Positions(stack) /\ Runs(On(stack, f), h) /\ h = On(stack, f).job
    BY <1>2, <1>3, <1>4 DEF Runs
  <2>2. /\ h \in DOMAIN jobs /\ SlotOf(h) \in Slots
        /\ q.nStartedHandle[SlotOf(h)] = h /\ ~IsDone(q, h)
        /\ RunsAt(q, stack, f, h)
    BY <1>1, <2>1, InUse
  <2>3. On(stack, <<f[1], f[2] - 1>>).work = SlotOf(h)
    BY <2>2 DEF RunsAt, Work
  <2>4. On(stack, f).sub < q.nNumStarted[SlotOf(h)] /\ q.nNumStarted[SlotOf(h)] <= q.nNumJobs[SlotOf(h)]
        /\ q.nNumStarted[SlotOf(h)] \in Nat /\ q.nNumJobs[SlotOf(h)] \in Nat
    BY <1>1, <2>2, CountFacts DEF RunsAt
  <2>5. jobs[h].num = q.nNumJobs[SlotOf(h)]
    BY <1>1, <2>2 DEF Inv, EndedOf
  <2>6. On(stack, f).sub \in Nat
    BY <1>1, <2>1, FrameSub DEF Inv, Runs
  <2>7. On(stack, f).sub < jobs[h].num
    BY <2>4, <2>5, <2>6
  <2>8. stack[f[1]][f[2] - 1].work = SlotOf(h)
    BY <2>3 DEF On
  <2> QED
    BY <1>2, <2>2, <2>7, <2>8
<1>5. ASSUME NEW f \in Bodies, NEW g \in Bodies, f # g
      PROVE  FrameAt(f).job # FrameAt(g).job \/ FrameAt(f).sub # FrameAt(g).sub
  BY <1>1, <1>2, <1>3, <1>5 DEF Inv, Apart
<1> QED
  BY <1>4, <1>5 DEF SlotPinned

\* The sets of the property are those of the invariant.
LEMMA InvAccounted ==
  ASSUME IInv
  PROVE  WorkAccounted
<1>1. Inv(q, stack, jobs) /\ stack \in Stacks(Frames) /\ Accounted(q, stack)
  BY DEF IInv, Inv, Shape
<1>2. \A f : FrameAt(f) = On(stack, f)
  BY DEF FrameAt, On
<1>3. ASSUME NEW s \in Slots
      PROVE  WorkFrames(s) = Work(stack, s)
  <2>1. FramesIn(WorkKinds) = {x \in Positions(stack) : On(stack, x).at \in WorkKinds}
    BY <1>1, FramesAre
  <2>2. WorkFrames(s) = {x \in FramesIn(WorkKinds) : FrameAt(x).work = s}
    BY DEF WorkFrames, WorkKinds
  <2> QED
    BY <1>2, <2>1, <2>2 DEF Work
<1>4. ASSUME NEW s \in Slots
      PROVE  OpenGroups(s) = Open(stack, s)
  <2> DEFINE U == FramesIn({"user"})
             All == UNION {{f} \X DOMAIN FrameAt(f).groups : f \in U}
  <2>1. U = {x \in Positions(stack) : On(stack, x).at \in {"user"}}
    BY <1>1, FramesAre
  <2>2. ASSUME NEW f \in U
        PROVE  DOMAIN FrameAt(f).groups = 1 .. Len(On(stack, f).groups)
               /\ Len(On(stack, f).groups) \in Nat
    <3>1. f \in Positions(stack) /\ On(stack, f).at = "user" /\ Shape(stack)
      BY <1>1, <2>1 DEF Inv
    <3>2. On(stack, f) \in Frames
      BY <3>1, FrameSub
    <3>3. On(stack, f).groups \in Seq(Nat)
      BY <3>1, <3>2, FrameFacts
    <3> QED
      BY <1>2, <3>3, LenProperties
  <2> HIDE DEF U
  <2>3. ASSUME NEW g \in All
        PROVE  /\ g[1] \in U /\ g[2] \in 1 .. Len(On(stack, g[1]).groups)
               /\ g = <<g[1], g[2]>> /\ g[2] \in Nat
    <3>1. PICK f \in U : g \in {f} \X DOMAIN FrameAt(f).groups
      BY <2>3
    <3>2. g = <<g[1], g[2]>> /\ g[1] = f /\ g[2] \in DOMAIN FrameAt(f).groups
      BY <3>1
    <3> QED
      BY <2>2, <3>2
  <2>4. ASSUME NEW f \in U, NEW k \in 1 .. Len(On(stack, f).groups)
        PROVE  <<f, k>> \in All
    <3>1. k \in DOMAIN FrameAt(f).groups
      BY <2>2
    <3> QED
      BY <3>1
  <2>5. OpenGroups(s) = {g \in All : SlotOf(FrameAt(g[1]).groups[g[2]]) = s}
    BY DEF OpenGroups, U
  <2> HIDE DEF All
  <2>6. ASSUME NEW g \in OpenGroups(s) PROVE g \in Open(stack, s)
    <3>1. g \in All /\ SlotOf(On(stack, g[1]).groups[g[2]]) = s
      BY <1>2, <2>5, <2>6
    <3>2. /\ g[1] \in U /\ g[2] \in 1 .. Len(On(stack, g[1]).groups)
          /\ g = <<g[1], g[2]>> /\ g[2] \in Nat
      BY <2>3, <3>1
    <3>3. g[1] \in Positions(stack) /\ On(stack, g[1]).at = "user"
      BY <2>1, <3>2
    <3>4. g \in Positions(stack) \X Nat
      BY <3>2, <3>3
    <3> QED
      BY <3>1, <3>2, <3>3, <3>4 DEF Open
  <2>7. ASSUME NEW g \in Open(stack, s) PROVE g \in OpenGroups(s)
    <3>1. /\ g \in Positions(stack) \X Nat /\ On(stack, g[1]).at = "user"
          /\ g[2] \in 1 .. Len(On(stack, g[1]).groups)
          /\ SlotOf(On(stack, g[1]).groups[g[2]]) = s
      BY <2>7 DEF Open
    <3>2. g = <<g[1], g[2]>> /\ g[1] \in U
      BY <2>1, <3>1
    <3>3. g \in All
      BY <2>4, <3>1, <3>2
    <3> QED
      BY <1>2, <2>5, <3>1, <3>3
  <2> QED
    BY <2>6, <2>7
<1> QED
  BY <1>1, <1>3, <1>4 DEF WorkAccounted, HeldBy, Accounted

\* nFreeJobs counts the slots that are not pending.
LEMMA InvFree ==
  ASSUME IInv
  PROVE  FreeExact
BY DEF IInv, Inv, PoolInv, FreeJobs, FreeSlots, FreeExact

\* The elements of a sequence.
LEMMA ElementsOf ==
  ASSUME NEW S, NEW sq \in Seq(S)
  PROVE  DOMAIN sq = 1 .. Len(sq) /\ \A x : x \in ToSet(sq) <=> Has(sq, x)
<1>1. DOMAIN sq = 1 .. Len(sq)
  BY LenProperties
<1> QED
  BY <1>1 DEF ToSet, Has

\* The sibling lists.
LEMMA InvTree ==
  ASSUME IInv
  PROVE  TreeExact
<1> SUFFICES ASSUME NEW s \in Slots
             PROVE  /\ ToSet(q.children[s]) = {c \in Slots : PendingJobs(q, c) /\ q.nParent[c] = s}
                    /\ Cardinality(ToSet(q.children[s])) = Len(q.children[s])
  BY DEF TreeExact
<1>1. q \in Pools /\ Tree(q)
  BY DEF IInv, Inv, PoolInv
<1>2. q.children[s] \in Seq(Slots)
  BY <1>1, PoolTypes
<1>3. /\ Distinct(q.children[s])
      /\ \A c : Has(q.children[s], c) <=> c \in Slots /\ PendingJobs(q, c) /\ q.nParent[c] = s
  BY <1>1 DEF Tree
<1>4. \A x : x \in ToSet(q.children[s]) <=> Has(q.children[s], x)
  BY <1>2, ElementsOf
<1>5. Cardinality(ToSet(q.children[s])) = Len(q.children[s])
  BY <1>2, <1>3, DistinctCardinality
<1> QED
  BY <1>3, <1>4, <1>5

\* The priority lists.
LEMMA InvQueue ==
  ASSUME IInv
  PROVE  QueueExact
<1>1. PoolInv(q) /\ Queue(q)
  BY DEF IInv, Inv, PoolInv
<1>2. ASSUME NEW s \in Slots, Startable(q, s)
      PROVE  PendingJobs(q, s) /\ q.nPrio[s] \in Prios
  BY <1>1, <1>2, BusyIsPending DEF Queue
<1>3. ASSUME NEW i \in Prios
      PROVE  /\ ToSet(q.list[i])
                  = {s \in Slots : PendingJobs(q, s) /\ q.nPrio[s] = i /\ Startable(q, s)}
             /\ \A a, b \in DOMAIN q.list[i] :
                  a < b => q.nStartedHandle[q.list[i][a]] < q.nStartedHandle[q.list[i][b]]
  <2>1. q.list[i] \in Seq(Slots)
    BY <1>1, ListDistinct
  <2>2. /\ DOMAIN q.list[i] = 1 .. Len(q.list[i])
        /\ \A x : x \in ToSet(q.list[i]) <=> Has(q.list[i], x)
    BY <2>1, ElementsOf
  <2>3. /\ Sorted(q, q.list[i])
        /\ \A c : Has(q.list[i], c) <=> c \in Slots /\ Startable(q, c) /\ q.nPrio[c] = i
    BY <1>1 DEF Queue
  <2>4. ToSet(q.list[i]) = {s \in Slots : PendingJobs(q, s) /\ q.nPrio[s] = i /\ Startable(q, s)}
    BY <1>2, <2>2, <2>3
  <2> QED
    BY <2>2, <2>3, <2>4 DEF Sorted
<1> QED
  BY <1>2, <1>3 DEF QueueExact

\* Jq2Stop begins after Jq2WaitAll.
LEMMA InvStop ==
  ASSUME IInv
  PROVE  StopFindsNothing
BY DEF IInv, Stopping, StopFindsNothing

\* The types of the whole state, for every number of workers, slots,
\* priorities and sub-jobs.
THEOREM TypeCorrect == Spec => []TypeOK
BY Invariance, InvTypes, PTL

\* A job that Jq2IsDone calls done has run all its sub-jobs, and so have the
\* jobs added under it.
THEOREM DoneJobsHaveEnded == Spec => []DoneMeansEnded
BY Invariance, InvDone, PTL

\* The slot of a running sub-job is not given to another job, and no sub-job
\* runs twice.
THEOREM RunningJobsKeepSlots == Spec => []SlotPinned
BY Invariance, InvPinned, PTL

\* Every sub-job that was taken is counted as finished once.
THEOREM EveryFinishCounts == Spec => []WorkAccounted
BY Invariance, InvAccounted, PTL

\* nFreeJobs is the number of slots that are not pending.
THEOREM FreeJobsExact == Spec => []FreeExact
BY Invariance, InvFree, PTL

\* The sibling lists and the parents are one tree of pending jobs.
THEOREM TreeIsExact == Spec => []TreeExact
BY Invariance, InvTree, PTL

\* The priority lists hold what can be taken, oldest first.
THEOREM QueueIsExact == Spec => []QueueExact
BY Invariance, InvQueue, PTL

\* nStop is set only when no job is pending.
THEOREM NothingLeftAtStop == Spec => []StopFindsNothing
BY Invariance, InvStop, PTL

-----------------------------------------------------------------------------
(* What a step does to the pool and to the frames of a kind *)

\* The places in the stacks where the frame is of one of some kinds.
Marks(st, kinds) == {x \in Positions(st) : On(st, x).at \in kinds}

\* How they follow the top of a stack, which is at n.
Followed(st, t, f, kinds, n) ==
  /\ Marks(SetTop(st, t, f), kinds)
       = (Marks(st, kinds) \ {<<t, n>>}) \cup (IF f.at \in kinds THEN {<<t, n>>} ELSE {})
  /\ Marks(Push(st, t, f), kinds)
       = Marks(st, kinds) \cup (IF f.at \in kinds THEN {<<t, n + 1>>} ELSE {})
  /\ <<t, n + 1>> \notin Marks(st, kinds)
  /\ n > 1 => Marks(Pop(st, t), kinds) = Marks(st, kinds) \ {<<t, n>>}
  /\ <<t, n>> \in Marks(st, kinds) <=> Last(st[t]).at \in kinds
  /\ n \in Nat /\ n > 0
\* They do.
LEMMA MarksFollow ==
  ASSUME NEW st \in Stacks(Frames), NEW t \in Threads, NEW f \in Frames, NEW kinds,
         NEW n, n = Depth(st, t)
  PROVE  Followed(st, t, f, kinds, n)
<1>1. /\ SetTop(st, t, f) \in Stacks(Frames) /\ Retopped(st, SetTop(st, t, f), t, f)
      /\ Push(st, t, f) \in Stacks(Frames) /\ Pushed(st, Push(st, t, f), t, f)
      /\ n > 1 => Pop(st, t) \in Stacks(Frames)
      /\ Popped(st, Pop(st, t), t)
      /\ n \in Nat \ {0} /\ Last(st[t]) = st[t][n]
  BY StackFacts
<1>2. ASSUME NEW r, NEW m \in Nat, Above(st, r, t, m), NEW x \in Below(st, t, m)
      PROVE  x \in Marks(r, kinds) <=> x \in Marks(st, kinds)
  <2>1. x \in Positions(st) /\ x \in Positions(r) /\ On(r, x) = On(st, x)
    BY <1>2, AboveKeeps
  <2> QED
    BY <2>1 DEF Marks
<1>3. \A m \in Nat : <<t, m + 1>> \notin Below(st, t, m)
  BY DEF Below
<1>4. <<t, n>> \in Positions(st) /\ On(st, <<t, n>>) = Last(st[t])
  BY <1>1 DEF Positions, On
<1>5. <<t, n + 1>> \notin Positions(st)
  BY <1>1 DEF Positions
<1>6. Marks(SetTop(st, t, f), kinds)
        = (Marks(st, kinds) \ {<<t, n>>}) \cup (IF f.at \in kinds THEN {<<t, n>>} ELSE {})
  <2> DEFINE r == SetTop(st, t, f)
             z == <<t, n>>
             B == Below(st, t, n - 1)
  <2>1. /\ Above(st, r, t, n - 1) /\ Positions(st) = B \cup {z} /\ Positions(r) = B \cup {z}
        /\ On(r, z) = f
    BY <1>1, RetopAbove
  <2>2. z \notin B /\ n - 1 \in Nat
    BY <1>1 DEF Below
  <2>3. \A x \in B : x \in Marks(r, kinds) <=> x \in Marks(st, kinds)
    BY <1>2, <2>1, <2>2
  <2>4. z \in Marks(r, kinds) <=> f.at \in kinds
    BY <2>1 DEF Marks
  <2>5. Marks(r, kinds) \subseteq B \cup {z} /\ Marks(st, kinds) \subseteq B \cup {z}
    BY <2>1 DEF Marks
  <2> HIDE DEF r, z, B
  <2> QED
    BY <2>2, <2>3, <2>4, <2>5 DEF r, z
<1>7. Marks(Push(st, t, f), kinds)
        = Marks(st, kinds) \cup (IF f.at \in kinds THEN {<<t, n + 1>>} ELSE {})
  <2> DEFINE r == Push(st, t, f)
             z == <<t, n + 1>>
             B == Below(st, t, n)
  <2>1. /\ Above(st, r, t, n) /\ Positions(st) = B /\ Positions(r) = B \cup {z}
        /\ On(r, z) = f
    BY <1>1, PushAbove
  <2>2. z \notin B /\ n \in Nat
    BY <1>1, <1>3
  <2>3. \A x \in B : x \in Marks(r, kinds) <=> x \in Marks(st, kinds)
    BY <1>2, <2>1, <2>2
  <2>4. z \in Marks(r, kinds) <=> f.at \in kinds
    BY <2>1 DEF Marks
  <2>5. Marks(r, kinds) \subseteq B \cup {z} /\ Marks(st, kinds) \subseteq B
    BY <2>1 DEF Marks
  <2> HIDE DEF r, z, B
  <2> QED
    BY <2>2, <2>3, <2>4, <2>5 DEF r, z
<1>8. ASSUME n > 1
      PROVE  Marks(Pop(st, t), kinds) = Marks(st, kinds) \ {<<t, n>>}
  <2> DEFINE r == Pop(st, t)
             z == <<t, n>>
             B == Below(st, t, n - 1)
  <2>1. /\ Above(st, r, t, n - 1) /\ Positions(st) = B \cup {z} /\ Positions(r) = B
    BY <1>1, <1>8, PopAbove
  <2>2. z \notin B /\ n - 1 \in Nat
    BY <1>1 DEF Below
  <2>3. \A x \in B : x \in Marks(r, kinds) <=> x \in Marks(st, kinds)
    BY <1>2, <2>1, <2>2
  <2>4. Marks(r, kinds) \subseteq B /\ Marks(st, kinds) \subseteq B \cup {z}
    BY <2>1 DEF Marks
  <2> HIDE DEF r, z, B
  <2> QED
    BY <2>2, <2>3, <2>4 DEF r, z
<1>9. <<t, n + 1>> \notin Marks(st, kinds)
  BY <1>5 DEF Marks
<1>10. <<t, n>> \in Marks(st, kinds) <=> Last(st[t]).at \in kinds
  BY <1>4 DEF Marks
<1> QED
  BY <1>1, <1>6, <1>7, <1>8, <1>9, <1>10 DEF Followed

\* NotifyAll moves no other frame.
LEMMA MarksWake ==
  ASSUME NEW st \in Stacks(Frames), NEW kinds, kinds \cap {"blocked", "woken"} = {}
  PROVE  /\ Marks(WakeAll(st), kinds) = Marks(st, kinds)
         /\ \A x \in Marks(st, kinds) : On(WakeAll(st), x) = On(st, x)
<1> DEFINE r == WakeAll(st)
<1>1. ASSUME NEW u \in Threads
      PROVE  /\ Depth(r, u) = Depth(st, u)
             /\ \A i \in 1 .. Depth(st, u) : r[u][i].at \in kinds <=> st[u][i].at \in kinds
             /\ \A i \in 1 .. Depth(st, u) : st[u][i].at \in kinds => r[u][i] = st[u][i]
  <2>1. CASE Last(st[u]).at # "blocked"
    <3>1. r[u] = st[u]
      BY <2>1 DEF WakeAll
    <3> QED
      BY <3>1 DEF Depth
  <2>2. CASE Last(st[u]).at = "blocked"
    <3> DEFINE f == Last(st[u])
               g == [f EXCEPT !.at = "woken"]
               v == SetTop(st, u, g)
    <3>1. st[u] \in Seq(Frames) /\ Len(st[u]) >= 1
      BY DEF Stacks
    <3>2. f \in Frames
      <4>1. f = st[u][Len(st[u])] /\ Len(st[u]) \in Nat
        BY <3>1, LenProperties DEF Last
      <4> QED
        BY <3>1, <4>1, ElementOfSeq
    <3>3. r[u] = v[u]
      <4>1. r[u] = Append(Front(st[u]), g)
        BY <2>2 DEF WakeAll
      <4>2. v[u] = Append(Front(st[u]), g)
        BY DEF SetTop, Stacks
      <4> QED
        BY <4>1, <4>2
    <3>4. f.at = "blocked"
      BY <2>2
    <3> HIDE DEF f
    <3>5. g \in Frames /\ g.at = "woken"
      BY <3>2, <3>4, FrameWait DEF WaitFrames
    <3> HIDE DEF g
    <3>6. Retopped(st, v, u, g) /\ Last(st[u]) = st[u][Depth(st, u)]
      BY <3>5, StackFacts
    <3> HIDE DEF v, r
    <3>7. /\ Depth(r, u) = Depth(st, u)
          /\ \A i \in 1 .. Depth(st, u) : r[u][i] = IF i = Depth(st, u) THEN g ELSE st[u][i]
      BY <3>3, <3>6 DEF Retopped, Depth
    <3>8. f.at \notin kinds /\ g.at \notin kinds
      BY <3>4, <3>5
    <3> QED
      BY <3>6, <3>7, <3>8 DEF f
  <2> QED
    BY <2>1, <2>2
<1> HIDE DEF r
<1>2. Positions(r) = Positions(st)
  BY <1>1 DEF Positions
<1>3. ASSUME NEW x \in Positions(st)
      PROVE  /\ On(r, x).at \in kinds <=> On(st, x).at \in kinds
             /\ On(st, x).at \in kinds => On(r, x) = On(st, x)
  <2>1. x[1] \in Threads /\ x[2] \in Nat /\ 1 <= x[2] /\ x[2] <= Depth(st, x[1])
    BY DEF Positions
  <2>2. x[2] \in 1 .. Depth(st, x[1])
    BY <2>1 DEF Stacks, Depth
  <2> QED
    BY <1>1, <2>1, <2>2 DEF On
<1> QED
  BY <1>2, <1>3 DEF Marks, r

\* The calls of Jq2FindHandle on a full pool, and the signals that are still
\* to be sent, are where they were.
Still(st, r) ==
  /\ Marks(r, {"full"}) = Marks(st, {"full"})
  /\ Marks(r, {"signal"}) = Marks(st, {"signal"})
  /\ \A x \in Marks(st, {"signal"}) : On(r, x) = On(st, x)

\* So they are, when other frames come and go.
LEMMA StillStack ==
  ASSUME NEW st \in Stacks(Frames), NEW t \in Threads, NEW f \in Frames
  PROVE  /\ /\ Last(st[t]).at # "signal" /\ f.at # "signal"
            /\ f.at = "full" <=> Last(st[t]).at = "full"
            => Still(st, SetTop(st, t, f))
         /\ f.at \notin {"full", "signal"} => Still(st, Push(st, t, f))
         /\ Depth(st, t) > 1 /\ Last(st[t]).at \notin {"full", "signal"} => Still(st, Pop(st, t))
         /\ Still(st, WakeAll(st))
<1> DEFINE n == Depth(st, t)
<1>1. n = Depth(st, t)
  OBVIOUS
<1> HIDE DEF n
<1>2. /\ SetTop(st, t, f) \in Stacks(Frames) /\ Retopped(st, SetTop(st, t, f), t, f)
      /\ Push(st, t, f) \in Stacks(Frames) /\ Pushed(st, Push(st, t, f), t, f)
      /\ n > 1 => Pop(st, t) \in Stacks(Frames)
      /\ Popped(st, Pop(st, t), t)
      /\ n \in Nat \ {0} /\ Last(st[t]) = st[t][n]
  BY <1>1, StackFacts
<1>3. ASSUME NEW r, NEW m \in Nat, Above(st, r, t, m), NEW x \in Positions(st), x \in Below(st, t, m)
      PROVE  On(r, x) = On(st, x)
  BY <1>3, AboveKeeps
<1>4. Followed(st, t, f, {"full"}, n) /\ Followed(st, t, f, {"signal"}, n)
  BY <1>1, MarksFollow
<1>5. ASSUME NEW x \in Marks(st, {"signal"}), Last(st[t]).at # "signal"
      PROVE  x \in Positions(st) /\ x # <<t, n>>
  BY <1>4, <1>5 DEF Marks, Followed
<1>6. ASSUME Last(st[t]).at # "signal", f.at # "signal", f.at = "full" <=> Last(st[t]).at = "full"
      PROVE  Still(st, SetTop(st, t, f))
  <2> DEFINE r == SetTop(st, t, f)
             z == <<t, n>>
  <2>1. Above(st, r, t, n - 1) /\ Positions(st) = Below(st, t, n - 1) \cup {z} /\ n - 1 \in Nat
    <3>1. r \in Stacks(Frames) /\ Retopped(st, r, t, f)
      BY <1>2
    <3> HIDE DEF r
    <3>2. /\ Above(st, r, t, Depth(st, t) - 1)
          /\ Positions(st) = Below(st, t, Depth(st, t) - 1) \cup {<<t, Depth(st, t)>>}
      BY <3>1, RetopAbove
    <3> QED
      BY <1>1, <1>2, <3>2
  <2>2. \A x \in Marks(st, {"signal"}) : On(r, x) = On(st, x)
    <3> SUFFICES ASSUME NEW x \in Marks(st, {"signal"}) PROVE On(r, x) = On(st, x)
      OBVIOUS
    <3>1. x \in Positions(st) /\ x # z
      BY <1>5, <1>6
    <3> HIDE DEF z, r
    <3> QED
      BY <1>3, <2>1, <3>1
  <2>3. /\ Marks(r, {"full"}) = (Marks(st, {"full"}) \ {z}) \cup (IF f.at \in {"full"} THEN {z} ELSE {})
        /\ z \in Marks(st, {"full"}) <=> f.at \in {"full"}
    BY <1>4, <1>6 DEF Followed
  <2>4. /\ Marks(r, {"signal"}) = (Marks(st, {"signal"}) \ {z})
                                    \cup (IF f.at \in {"signal"} THEN {z} ELSE {})
        /\ z \in Marks(st, {"signal"}) <=> f.at \in {"signal"}
    BY <1>4, <1>6 DEF Followed
  <2> HIDE DEF r, z
  <2>5. Marks(r, {"full"}) = Marks(st, {"full"}) /\ Marks(r, {"signal"}) = Marks(st, {"signal"})
    BY <2>3, <2>4
  <2> QED
    BY <2>2, <2>5 DEF Still, r
<1>7. ASSUME f.at \notin {"full", "signal"} PROVE Still(st, Push(st, t, f))
  <2> DEFINE r == Push(st, t, f)
  <2>1. Above(st, r, t, n) /\ Positions(st) = Below(st, t, n) /\ n \in Nat
    BY <1>1, <1>2, PushAbove
  <2>2. \A x \in Marks(st, {"signal"}) : On(r, x) = On(st, x)
    <3> SUFFICES ASSUME NEW x \in Marks(st, {"signal"}) PROVE On(r, x) = On(st, x)
      OBVIOUS
    <3>1. x \in Positions(st)
      BY DEF Marks
    <3> HIDE DEF r
    <3> QED
      BY <1>3, <2>1, <3>1
  <2>3. /\ Marks(r, {"full"}) = Marks(st, {"full"}) \cup (IF f.at \in {"full"} THEN {<<t, n + 1>>} ELSE {})
        /\ Marks(r, {"signal"}) = Marks(st, {"signal"})
                                    \cup (IF f.at \in {"signal"} THEN {<<t, n + 1>>} ELSE {})
    BY <1>4 DEF Followed
  <2> HIDE DEF r
  <2>4. Marks(r, {"full"}) = Marks(st, {"full"}) /\ Marks(r, {"signal"}) = Marks(st, {"signal"})
    BY <1>7, <2>3
  <2> QED
    BY <2>2, <2>4 DEF Still, r
<1>8. ASSUME n > 1, Last(st[t]).at \notin {"full", "signal"} PROVE Still(st, Pop(st, t))
  <2> DEFINE r == Pop(st, t)
             z == <<t, n>>
  <2>1. Above(st, r, t, n - 1) /\ Positions(st) = Below(st, t, n - 1) \cup {z} /\ n - 1 \in Nat
    <3>1. r \in Stacks(Frames) /\ Popped(st, r, t)
      BY <1>2, <1>8
    <3> HIDE DEF r
    <3>2. /\ Above(st, r, t, Depth(st, t) - 1)
          /\ Positions(st) = Below(st, t, Depth(st, t) - 1) \cup {<<t, Depth(st, t)>>}
      BY <3>1, PopAbove
    <3> QED
      BY <1>1, <1>2, <3>2
  <2>2. \A x \in Marks(st, {"signal"}) : On(r, x) = On(st, x)
    <3> SUFFICES ASSUME NEW x \in Marks(st, {"signal"}) PROVE On(r, x) = On(st, x)
      OBVIOUS
    <3>1. x \in Positions(st) /\ x # z
      BY <1>5, <1>8
    <3> HIDE DEF z, r
    <3> QED
      BY <1>3, <2>1, <3>1
  <2>3. Marks(r, {"full"}) = Marks(st, {"full"}) \ {z} /\ z \notin Marks(st, {"full"})
    BY <1>4, <1>8 DEF Followed
  <2>4. Marks(r, {"signal"}) = Marks(st, {"signal"}) \ {z} /\ z \notin Marks(st, {"signal"})
    BY <1>4, <1>8 DEF Followed
  <2> HIDE DEF r, z
  <2>5. Marks(r, {"full"}) = Marks(st, {"full"}) /\ Marks(r, {"signal"}) = Marks(st, {"signal"})
    BY <2>3, <2>4
  <2> QED
    BY <2>2, <2>5 DEF Still, r
<1>9. Still(st, WakeAll(st))
  BY MarksWake DEF Still
<1> QED
  BY <1>1, <1>6, <1>7, <1>8, <1>9

\* Two changes in a row.
LEMMA StillAgain ==
  ASSUME NEW st, NEW r, NEW v, Still(st, r), Still(r, v)
  PROVE  Still(st, v)
BY DEF Still

\* A critical section as the pool sees it: a sub-job of w has finished, and
\* one of v is started (0: none).
Moved(w, v) ==
  /\ w # 0 => q.num_finished_jobs[w] < q.nNumStarted[w]
  /\ IF v = 0 THEN SamePool(AfterWork(w), q')
     ELSE Startable(AfterWork(w), v) /\ Starts(AfterWork(w), q', v)

\* A step of thread t that issues no handle, calls no Jq2FindHandle on a full
\* pool, and neither sends a signal nor is about to.
Keeps(t) ==
  /\ \E w, v \in Slots \cup {0} : Moved(w, v)
  /\ Still(stack, stack') /\ Others(stack, stack', t)
  /\ DOMAIN jobs' = DOMAIN jobs

\* A frame on top that is not that of a worker that looks for work or sleeps.
Busy(f) == f.at \notin {"test", "sleep"} /\ (f.at = "scan" => f.work # 0)

\* A step that does not change the pool.
LEMMA KeepsPool ==
  ASSUME NEW t, SamePool(q, q'), Still(stack, stack'), Others(stack, stack', t),
         DOMAIN jobs' = DOMAIN jobs
  PROVE  Keeps(t)
<1>1. Moved(0, 0)
  BY DEF Moved, AfterWork
<1> QED
  BY <1>1 DEF Keeps

\* Stacks on which nothing was changed.
LEMMA StillItself ==
  ASSUME NEW st
  PROVE  Still(st, st) /\ SamePool(q, q)
BY DEF Still, SamePool

\* Jq2IncrementFinished at the start of a section.
LEMMA CountedStill ==
  ASSUME Inv(q, stack, jobs), NEW t \in Threads, Top(t).at \in WorkKinds,
         NEW w, w = Top(t).work
  PROVE  /\ Still(stack, Notified(w)) /\ Notified(w)[t] = stack[t]
         /\ Notified(w) \in Stacks(Frames) /\ Others(stack, Notified(w), t)
         /\ w \in Slots \cup {0}
         /\ w # 0 => q.num_finished_jobs[w] < q.nNumStarted[w]
         /\ PoolInv(AfterWork(w))
<1> DEFINE f == Top(t)
           z == <<t, Depth(stack, t)>>
<1>1. /\ f \in Frames /\ f = Last(stack[t]) /\ stack \in Stacks(Frames)
      /\ z \in Positions(stack) /\ On(stack, z) = Last(stack[t])
      /\ PoolInv(q) /\ Accounted(q, stack)
  BY TopFrame DEF Top, Inv
<1>2. w \in Slots \cup {0}
  BY <1>1, FrameFacts
<1>3. ASSUME w # 0 PROVE q.num_finished_jobs[w] < q.nNumStarted[w]
  <2>1. w \in Slots
    BY <1>2, <1>3
  <2>2. z \in Work(stack, w)
    BY <1>1 DEF Work
  <2> HIDE DEF z
  <2> QED
    BY <1>1, <2>1, <2>2, HeldFacts
<1>4. Counted(t, AfterWork(w), Notified(w), jobs)
  BY CountedInv
<1>5. /\ Notified(w) \in Stacks(Frames) /\ Others(stack, Notified(w), t)
      /\ Notified(w)[t] = stack[t] /\ PoolInv(AfterWork(w))
  BY <1>4 DEF Counted, Inv
<1>6. Still(stack, Notified(w))
  <2>1. Still(stack, WakeAll(stack))
    BY <1>1, StillStack
  <2>2. Still(stack, stack)
    BY StillItself
  <2> QED
    BY <2>1, <2>2 DEF Notified
<1> QED
  BY <1>2, <1>3, <1>5, <1>6

\* Jq2IncrementStarted and Jq2ExecuteJob at the end of one.
LEMMA ExecuteStill ==
  ASSUME NEW p, PoolInv(p), NEW st \in Stacks(Frames), NEW t \in Threads, NEW f \in Frames,
         f.at \in WorkKinds, Last(st[t]).at = f.at,
         NEW s \in Slots, Startable(p, s), Execute(t, p, s, st, f)
  PROVE  /\ Starts(p, q', s) /\ Still(st, stack') /\ Others(st, stack', t)
         /\ Last(stack'[t]).at = "user"
<1> DEFINE h == [f EXCEPT !.work = s]
           b == BodyOf(p, s)
           v == SetTop(st, t, h)
<1>1. h \in Frames /\ h.at = f.at
  BY FrameWork
<1>2. b \in Frames /\ b.at = "user"
  <2>1. p.nStartedHandle[s] \in Nat /\ p.nNumStarted[s] \in Nat
    BY CountFacts
  <2>2. <<>> \in Seq(Nat)
    BY EmptySeq
  <2> QED
    BY <2>1, <2>2 DEF BodyOf, UserFrame, Frames, FrameOf
<1>3. q' = IncrementStarted(p, s) /\ stack' = Push(v, t, b)
  BY DEF Execute
<1>4. Starts(p, q', s)
  BY <1>3, StartedInv
<1> HIDE DEF h, b
<1>5. f.at # "signal"
  BY DEF WorkKinds
<1>6. v \in Stacks(Frames) /\ Still(st, v)
  <2>1. v \in Stacks(Frames)
    BY <1>1, StackFacts
  <2>2. Still(st, v)
    BY <1>1, <1>5, StillStack
  <2> QED
    BY <2>1, <2>2
<1>7. Others(st, v, t)
  <2>1. Others(st, st, t)
    BY DEF Others
  <2> QED
    BY <1>1, <2>1, OthersSame
<1> HIDE DEF v
<1>8. Still(v, stack')
  BY <1>2, <1>3, <1>6, StillStack
<1>9. Others(st, stack', t) /\ Last(stack'[t]) = b
  BY <1>2, <1>3, <1>6, <1>7, OthersSame
<1> QED
  BY <1>2, <1>4, <1>6, <1>8, <1>9, StillAgain

\* Above the bottom frame there are calls from user code and their job
\* functions; the caller is on top when a call has returned.
LEMMA CallerOf ==
  ASSUME IInv, NEW t \in Threads, NEW st \in Stacks(Frames), st[t] = stack[t]
  PROVE  /\ Top(t).at \in CallKinds => Depth(st, t) > 1 /\ Last(Pop(st, t)[t]).at = "user"
         /\ Last(st[t]) = Top(t)
         /\ t # Main => Top(t).at \notin MainKinds
<1> DEFINE n == Depth(st, t)
           f == Top(t)
<1>1. /\ Inv(q, stack, jobs) /\ n = Depth(stack, t) /\ f = Last(stack[t]) /\ f \in Frames
  BY Acting DEF Depth
<1>2. Level(stack, t, n) /\ f = stack[t][n] /\ n \in Nat /\ n > 0
  BY <1>1, TopFrame
<1>3. f.at \in CallKinds => f.at \notin BaseKinds /\ f.at # "user"
  BY DEF CallKinds, WaitFrames, MainKinds, BaseKinds
<1>4. f.at \in MainKinds => f.at \in CallKinds
  BY DEF CallKinds
<1>5. f.at \in MainKinds => t = Main
  <2> HIDE DEF f, n
  <2> QED
    BY <1>2, <1>3, <1>4 DEF Level
<1>6. ASSUME f.at \in CallKinds PROVE n > 1 /\ Last(Pop(st, t)[t]).at = "user"
  <2> HIDE DEF f, n
  <2>1. n > 1 /\ stack[t][n - 1].at = "user"
    BY <1>2, <1>3, <1>6 DEF Level
  <2>2. Pop(st, t) \in Stacks(Frames) /\ Popped(st, Pop(st, t), t)
    BY <1>1, <2>1, StackFacts DEF n
  <2>3. Depth(Pop(st, t), t) = n - 1 /\ Pop(st, t)[t][n - 1] = st[t][n - 1]
    BY <1>2, <2>1, <2>2 DEF Popped, n
  <2>4. Last(Pop(st, t)[t]) = Pop(st, t)[t][n - 1]
    BY <1>1, <2>2, <2>3, StackFacts
  <2> QED
    BY <2>1, <2>3, <2>4
<1> QED
  BY <1>1, <1>5, <1>6

\* A section that counts the work of its caller and starts another sub-job.
LEMMA TakeKeeps ==
  ASSUME IInv, NEW t \in Threads, Top(t).at \in WorkKinds, NEW w, w = Top(t).work,
         NEW f \in Frames, f.at = Top(t).at, NEW s \in Slots, Startable(AfterWork(w), s),
         Execute(t, AfterWork(w), s, Notified(w), f), DOMAIN jobs' = DOMAIN jobs
  PROVE  Keeps(t) /\ Last(stack'[t]).at = "user" /\ Moved(w, s)
<1> DEFINE p == AfterWork(w)
           st == Notified(w)
<1>1. Inv(q, stack, jobs) /\ Top(t) = Last(stack[t])
  BY Acting
<1>2. /\ Still(stack, st) /\ st[t] = stack[t] /\ st \in Stacks(Frames) /\ Others(stack, st, t)
      /\ w \in Slots \cup {0} /\ PoolInv(p)
      /\ w # 0 => q.num_finished_jobs[w] < q.nNumStarted[w]
  BY <1>1, CountedStill
<1>3. Last(st[t]).at = f.at /\ f.at \in WorkKinds
  BY <1>1, <1>2
<1>4. Startable(p, s) /\ Execute(t, p, s, st, f)
  OBVIOUS
<1> HIDE DEF p, st
<1>5. /\ Starts(p, q', s) /\ Still(st, stack') /\ Others(st, stack', t)
      /\ Last(stack'[t]).at = "user"
  BY <1>2, <1>3, <1>4, ExecuteStill
<1>6. Still(stack, stack')
  BY <1>2, <1>5, StillAgain
<1>7. Others(stack, stack', t)
  <2> SUFFICES ASSUME NEW u \in Threads, u # t
               PROVE  \/ stack'[u] = stack[u]
                      \/ Last(stack[u]).at = "blocked" /\ Last(stack'[u]).at = "woken"
    BY DEF Others
  <2>1. st[u] = stack[u] \/ (Last(stack[u]).at = "blocked" /\ Last(st[u]).at = "woken")
    BY <1>2 DEF Others
  <2>2. stack'[u] = st[u] \/ (Last(st[u]).at = "blocked" /\ Last(stack'[u]).at = "woken")
    BY <1>5 DEF Others
  <2> QED
    BY <2>1, <2>2
<1>8. Moved(w, s)
  <2>1. s # 0
    BY DEF Slots
  <2> QED
    BY <1>2, <1>4, <1>5, <2>1 DEF Moved, p
<1> QED
  BY <1>2, <1>5, <1>6, <1>7, <1>8 DEF Keeps

\* A section that counts the work and starts nothing.
LEMMA CountKeeps ==
  ASSUME IInv, NEW t \in Threads, Top(t).at \in WorkKinds, NEW w, w = Top(t).work,
         q' = AfterWork(w), DOMAIN jobs' = DOMAIN jobs, NEW g \in Frames,
         \/ /\ stack' = SetTop(Notified(w), t, g)
            /\ g.at # "signal" /\ (g.at = "full" <=> Top(t).at = "full")
         \/ /\ stack' = Pop(Notified(w), t)
            /\ Top(t).at \in CallKinds /\ Top(t).at # "full"
  PROVE  /\ Keeps(t)
         /\ \/ Last(stack'[t]) = g
            \/ Last(stack'[t]).at = "user" /\ Top(t).at \in CallKinds
<1> DEFINE p == AfterWork(w)
           st == Notified(w)
<1>1. Inv(q, stack, jobs) /\ Top(t) = Last(stack[t])
  BY Acting
<1>2. /\ Still(stack, st) /\ st[t] = stack[t] /\ st \in Stacks(Frames) /\ Others(stack, st, t)
      /\ w \in Slots \cup {0} /\ PoolInv(p)
      /\ w # 0 => q.num_finished_jobs[w] < q.nNumStarted[w]
  BY <1>1, CountedStill
<1>3. Last(st[t]) = Top(t) /\ Top(t).at # "signal"
  BY <1>1, <1>2 DEF WorkKinds
<1>4. Moved(w, 0)
  <2>1. SamePool(p, q')
    BY DEF SamePool
  <2> QED
    BY <1>2, <2>1 DEF Moved
<1>5. \E u, v \in Slots \cup {0} : Moved(u, v)
  BY <1>2, <1>4
<1>6. CASE /\ stack' = SetTop(st, t, g)
           /\ g.at # "signal" /\ (g.at = "full" <=> Top(t).at = "full")
  <2> HIDE DEF st
  <2>1. Still(st, stack')
    BY <1>2, <1>3, <1>6, StillStack
  <2>2. Others(stack, stack', t) /\ Last(stack'[t]) = g
    BY <1>2, <1>6, OthersSame
  <2> QED
    BY <1>2, <1>5, <2>1, <2>2, StillAgain DEF Keeps
<1>7. CASE stack' = Pop(st, t) /\ Top(t).at \in CallKinds /\ Top(t).at # "full"
  <2> HIDE DEF st
  <2>1. Depth(st, t) > 1 /\ Last(stack'[t]).at = "user"
    BY <1>2, <1>7, CallerOf
  <2>2. Still(st, stack')
    BY <1>2, <1>3, <1>7, <2>1, StillStack
  <2>3. Others(stack, stack', t)
    BY <1>2, <1>7, OthersSame
  <2> QED
    BY <1>2, <1>5, <1>7, <2>1, <2>2, <2>3, StillAgain DEF Keeps
<1> QED
  BY <1>6, <1>7

\* The top frame changes, outside of any section that counts or starts.
LEMMA TopKeeps ==
  ASSUME IInv, NEW t \in Threads, NEW g \in Frames, stack' = SetTop(stack, t, g),
         Top(t).at # "signal", g.at # "signal", Top(t).at = "full" <=> g.at = "full",
         SamePool(q, q'), DOMAIN jobs' = DOMAIN jobs
  PROVE  Keeps(t) /\ Last(stack'[t]) = g
<1>1. /\ stack \in Stacks(Frames) /\ Top(t) = Last(stack[t]) /\ Others(stack, stack, t)
  BY Acting
<1>2. Still(stack, stack')
  BY <1>1, StillStack
<1>3. Others(stack, stack', t) /\ Last(stack'[t]) = g
  BY <1>1, OthersSame
<1> QED
  BY <1>2, <1>3, KeepsPool

\* A call.
LEMMA PushKeeps ==
  ASSUME IInv, NEW t \in Threads, NEW g \in Frames, stack' = Push(stack, t, g),
         g.at \notin {"full", "signal"}, UNCHANGED <<q, jobs>>
  PROVE  Keeps(t) /\ Last(stack'[t]) = g
<1>1. /\ stack \in Stacks(Frames) /\ Top(t) = Last(stack[t]) /\ Others(stack, stack, t)
  BY Acting
<1>2. Still(stack, stack')
  BY <1>1, StillStack
<1>3. Others(stack, stack', t) /\ Last(stack'[t]) = g
  BY <1>1, OthersSame
<1> QED
  BY <1>2, <1>3, KeepsPool, StillItself

\* A return.
LEMMA PopKeeps ==
  ASSUME IInv, NEW t \in Threads, stack' = Pop(stack, t), Depth(stack, t) > 1,
         Top(t).at \notin {"full", "signal"}, UNCHANGED q, DOMAIN jobs' = DOMAIN jobs
  PROVE  Keeps(t) /\ (Top(t).at \in CallKinds => Last(stack'[t]).at = "user")
<1>1. /\ stack \in Stacks(Frames) /\ Top(t) = Last(stack[t]) /\ Others(stack, stack, t)
      /\ Top(t) \in Frames
  BY Acting
<1>2. Still(stack, stack')
  BY <1>1, StillStack
<1>3. Others(stack, stack', t)
  BY <1>1, OthersSame
<1>4. Top(t).at \in CallKinds => Last(stack'[t]).at = "user"
  BY <1>1, CallerOf
<1>5. SamePool(q, q')
  BY DEF SamePool
<1> QED
  BY <1>2, <1>3, <1>4, <1>5, KeepsPool

\* A worker tests nStop, or the semaphore wakes it.
LEMMA WorkerKeeps ==
  ASSUME IInv, NEW t \in Threads, Top(t).at \in BaseKinds, NEW at \in BaseKinds,
         stack' = SetTop(stack, t, [at |-> at, work |-> 0]), UNCHANGED <<q, jobs>>
  PROVE  Keeps(t) /\ Last(stack'[t]).at = at /\ Last(stack'[t]).work = 0
<1> DEFINE g == [at |-> at, work |-> 0]
<1>1. g \in Frames /\ g.at = at /\ g.work = 0
  BY DEF Frames, FrameOf, BaseKinds
<1>2. stack' = SetTop(stack, t, g)
  OBVIOUS
<1> HIDE DEF g
<1>3. g.at \notin {"full", "signal"} /\ Top(t).at \notin {"full", "signal"}
  BY <1>1 DEF BaseKinds
<1>4. SamePool(q, q')
  BY DEF SamePool
<1>5. Keeps(t) /\ Last(stack'[t]) = g
  BY <1>1, <1>2, <1>3, <1>4, TopKeeps
<1> QED
  BY <1>1, <1>5

\* A worker counts its work, then takes a sub-job or finds none.
LEMMA WorkerScanKeeps ==
  ASSUME IInv, NEW t \in Threads, WorkerScan(t)
  PROVE  /\ Keeps(t) /\ UNCHANGED sem /\ UNCHANGED nStop /\ Top(t).at = "scan"
         /\ \/ /\ Last(stack'[t]).at = "user"
               /\ \E s \in Slots : Moved(Top(t).work, s)
            \/ /\ Last(stack'[t]).at = "sleep"
               /\ \A s \in Slots : ~Startable(q', s)
<1> DEFINE f == Top(t)
           w == f.work
           p == AfterWork(w)
           st == Notified(w)
           s == HeadSlot(p)
           z == [at |-> "sleep", work |-> 0]
<1>1. Inv(q, stack, jobs) /\ f \in Frames
  BY Acting
<1>2. /\ f.at = "scan"
      /\ IF s # 0 THEN Execute(t, p, s, st, f) ELSE q' = p /\ stack' = SetTop(st, t, z)
      /\ UNCHANGED sem /\ UNCHANGED nStop /\ UNCHANGED jobs
  BY DEF WorkerScan, At
<1>3. f.at \in WorkKinds
  BY <1>2 DEF WorkKinds
<1>4. PoolInv(p)
  BY <1>1, <1>3, CountedStill
<1>5. CASE s # 0
  <2>1. s \in Slots /\ Startable(p, s)
    BY <1>4, <1>5, HeadSlotFacts
  <2>2. Execute(t, p, s, st, f)
    BY <1>2, <1>5
  <2> HIDE DEF f, s
  <2>3. Keeps(t) /\ Last(stack'[t]).at = "user" /\ Moved(w, s)
    BY <1>1, <1>2, <1>3, <2>1, <2>2, TakeKeeps DEF f
  <2> QED
    BY <1>2, <2>1, <2>3 DEF f
<1>6. CASE s = 0
  <2>1. q' = p /\ stack' = SetTop(st, t, z)
    BY <1>2, <1>6
  <2>2. z \in Frames /\ z.at = "sleep"
    BY DEF Frames, FrameOf
  <2>3. \A x \in Slots : ~Startable(q', x)
    BY <1>4, <1>6, <2>1, HeadSlotFacts
  <2> HIDE DEF f, z
  <2>4. f.at \notin CallKinds /\ f.at # "full"
    BY <1>2 DEF CallKinds, WaitFrames, MainKinds
  <2>5. Keeps(t) /\ Last(stack'[t]) = z
    <3>1. Top(t).at \in WorkKinds /\ w = Top(t).work /\ z.at # "signal" /\ z.at # "full"
      BY <1>3, <2>2 DEF f
    <3>2. q' = AfterWork(w) /\ DOMAIN jobs' = DOMAIN jobs /\ stack' = SetTop(Notified(w), t, z)
      BY <1>2, <2>1
    <3> HIDE DEF w
    <3> QED
      BY <2>2, <2>4, <3>1, <3>2, CountKeeps DEF f
  <2> QED
    BY <1>2, <2>2, <2>3, <2>5 DEF f
<1> QED
  BY <1>5, <1>6

\* The slot of a job that a thread waits for.
LEMMA WaitedSlot ==
  ASSUME IInv, NEW t \in Threads, Top(t).at \in WaitFrames
  PROVE  SlotOf(Top(t).for) \in Slots
<1>1. Inv(q, stack, jobs) /\ Top(t) = Last(stack[t])
  BY Acting
<1>2. Pinned(q, DOMAIN jobs, Top(t))
  BY <1>1, TopFrame
<1>3. Top(t).for \in DOMAIN jobs
  BY <1>2 DEF Pinned
<1> QED
  BY <1>1, <1>3 DEF Inv, Table

\* A frame of user code, of a call or of a wait is no loop of a worker.
LEMMA CallsAreBusy ==
  ASSUME NEW f, f.at \in CallKinds \cup {"user"}
  PROVE  Busy(f)
BY DEF Busy, CallKinds, WaitFrames, MainKinds

\* What a thread leaves with a step that keeps all of that, on top as well.
Plain(t) ==
  /\ Keeps(t) /\ UNCHANGED sem /\ UNCHANGED nStop
  /\ t # Main => Busy(Top(t)) /\ Busy(Last(stack'[t]))

\* The steps of Jq2Wait that count and start nothing.
LEMMA WaitingKeeps ==
  ASSUME IInv, NEW t \in Threads,
         WaitDone(t) \/ WaitBlock(t) \/ SpuriousWake(t) \/ WaitWoken(t)
  PROVE  Plain(t)
<1> DEFINE f == Top(t)
           s == SlotOf(f.for)
<1>1. f \in Frames
  BY Acting
<1>2. /\ f.at \in WaitFrames /\ UNCHANGED sem /\ UNCHANGED nStop /\ UNCHANGED jobs
      /\ \/ q' = q /\ stack' = Pop(stack, t)
         \/ /\ q' \in {q, AddWaiter(q, s), DropWaiter(q, s)}
            /\ \E a \in WaitFrames : stack' = SetTop(stack, t, [f EXCEPT !.at = a])
  BY DEF WaitDone, WaitBlock, SpuriousWake, WaitWoken, At, Return, WaitFrames
<1>3. f.at \in CallKinds /\ f.at \notin {"full", "signal"}
  BY <1>2 DEF CallKinds, WaitFrames
<1>4. s \in Slots
  BY <1>2, WaitedSlot
<1>5. PoolInv(q) /\ SamePool(q, q) /\ SamePool(q, AddWaiter(q, s)) /\ SamePool(q, DropWaiter(q, s))
  BY <1>4, SameAsItself, WaitersInv
<1> HIDE DEF f, s
<1>6. CASE q' = q /\ stack' = Pop(stack, t)
  <2>1. Depth(stack, t) > 1
    BY <1>3, Acting, CallerOf DEF f
  <2>2. Keeps(t) /\ Last(stack'[t]).at = "user"
    BY <1>2, <1>3, <1>6, <2>1, PopKeeps DEF f
  <2> QED
    BY <1>2, <1>3, <2>2, CallsAreBusy DEF Plain, f
<1>7. ASSUME NEW a \in WaitFrames, stack' = SetTop(stack, t, [f EXCEPT !.at = a]),
             q' \in {q, AddWaiter(q, s), DropWaiter(q, s)}
      PROVE  Plain(t)
  <2> DEFINE g == [f EXCEPT !.at = a]
  <2>1. g \in Frames /\ g.at = a
    BY <1>1, <1>2, FrameWait
  <2>2. stack' = SetTop(stack, t, g) /\ SamePool(q, q')
    BY <1>5, <1>7
  <2> HIDE DEF g
  <2>3. g.at \in CallKinds /\ g.at \notin {"full", "signal"}
    BY <2>1 DEF CallKinds, WaitFrames
  <2>4. Keeps(t) /\ Last(stack'[t]) = g
    BY <1>2, <1>3, <2>1, <2>2, <2>3, TopKeeps DEF f
  <2> QED
    BY <1>2, <1>3, <2>3, <2>4, CallsAreBusy DEF Plain, f
<1> QED
  BY <1>2, <1>6, <1>7

\* A round of the loop of Jq2Wait.
LEMMA WaitTakeKeeps ==
  ASSUME IInv, NEW t \in Threads, WaitTake(t)
  PROVE  Plain(t)
<1> DEFINE f == Top(t)
           w == f.work
           p == AfterWork(w)
           st == Notified(w)
           g == [f EXCEPT !.work = 0]
           next == IF f.kind.idle = "block" THEN "block" ELSE "wait"
           z == [f EXCEPT !.at = next, !.work = 0]
           s == WaitChoice(p, f)
<1>1. Inv(q, stack, jobs) /\ f \in Frames
  BY Acting
<1>2. /\ f.at = "wait"
      /\ IF WaitReturns(p, f)
         THEN q' = p /\ stack' = Pop(st, t)
         ELSE IF s # 0
              THEN Execute(t, p, s, st, f)
              ELSE q' = p /\ stack' = SetTop(st, t, z)
      /\ UNCHANGED sem /\ UNCHANGED nStop /\ UNCHANGED jobs
  BY DEF WaitTake, At, Return
<1>3. /\ f.at \in WorkKinds /\ f.at \in WaitFrames /\ f.at \in CallKinds
      /\ f.at # "full" /\ f.at # "signal"
  BY <1>2 DEF WorkKinds, WaitFrames, CallKinds
<1>4. PoolInv(p)
  BY <1>1, <1>3, CountedStill
<1>5. g \in Frames /\ g.at = "wait"
  BY <1>1, <1>2, <1>3, FrameWork
<1>6. next \in WaitFrames
  BY DEF WaitFrames
<1>7. z = [g EXCEPT !.at = next]
  <2>1. f \in [at : {"wait", "block", "blocked", "woken"}, for : Nat,
               kind : WaitKinds, work : Slots \cup {0}]
    BY <1>1, <1>2 DEF Frames, FrameOf
  <2> HIDE DEF f, next
  <2> QED
    BY <2>1
<1>8. s # 0 => s \in Slots /\ Startable(p, s)
  <2>1. SlotOf(f.for) \in Slots
    BY <1>3, WaitedSlot
  <2>2. CASE f.kind.take = "any"
    BY <1>4, <2>2, HeadSlotFacts DEF WaitChoice
  <2>3. CASE f.kind.take # "any"
    BY <1>4, <2>1, <2>3, ChildSlotFacts DEF WaitChoice
  <2> QED
    BY <2>2, <2>3
<1>9. f = Top(t) /\ w = Top(t).work /\ p = AfterWork(w) /\ st = Notified(w)
  OBVIOUS
<1> HIDE DEF f, w, p, st, g, z, s, next
<1>10. DOMAIN jobs' = DOMAIN jobs
  BY <1>2
<1>11. z \in Frames /\ z.at \in WaitFrames
  <2>1. g.at \in WaitFrames
    BY <1>5 DEF WaitFrames
  <2> QED
    BY <1>5, <1>6, <1>7, <2>1, FrameWait
<1>12. z.at \in CallKinds /\ z.at # "full" /\ z.at # "signal"
  BY <1>11 DEF CallKinds, WaitFrames
<1>13. CASE ~WaitReturns(p, f) /\ s # 0
  <2>1. Execute(t, p, s, st, f) /\ s \in Slots /\ Startable(p, s)
    BY <1>2, <1>8, <1>13
  <2>2. Keeps(t) /\ Last(stack'[t]).at = "user"
    BY <1>1, <1>3, <1>9, <1>10, <2>1, TakeKeeps
  <2> QED
    BY <1>2, <1>3, <1>9, <2>2, CallsAreBusy DEF Plain
<1>14. CASE WaitReturns(p, f) \/ s = 0
  <2>1. q' = p /\ (stack' = Pop(st, t) \/ stack' = SetTop(st, t, z))
    BY <1>2, <1>14
  <2>2. Keeps(t) /\ (Last(stack'[t]) = z \/ Last(stack'[t]).at = "user")
    BY <1>3, <1>9, <1>10, <1>11, <1>12, <2>1, CountKeeps
  <2> QED
    BY <1>2, <1>3, <1>9, <1>12, <2>2, CallsAreBusy DEF Plain
<1> QED
  BY <1>13, <1>14

\* A pass of the loop of Jq2FindHandle on a full pool, called by the user code
\* that is on top in st.
Filled(t, st) ==
  /\ \E s \in Slots \cup {0} : Moved(0, s)
  /\ \E f \in Frames : f.at = "full" /\ Still(Push(st, t, f), stack')
  /\ DOMAIN jobs' = DOMAIN jobs

\* A pass in which it finds a slot, for Jq2Add (k = 0) or Jq2GroupBegin.
Found(t, st) ==
  \E n \in SubCounts \cup {1}, k \in {0, 1} :
    /\ k = 1 => n = 1
    /\ k = 0 => n \in SubCounts
    /\ \E h, par : Issuing(t, st, h, n, k, par)

\* One pass of the loop of Jq2FindHandle.
LEMMA FindEffect ==
  ASSUME NEW st, NEW t \in Threads, Inv(q, st, jobs), Last(st[t]).at = "user",
         Self(t) = SelfOf(Last(st[t])), NEW want \in Wants,
         FindHandle(t, st, want), Others(stack, st, t)
  PROVE  /\ Others(stack, stack', t) /\ Busy(Last(stack'[t]))
         /\ Filled(t, st) \/ Found(t, st)
<1> DEFINE f == [at |-> "full", want |-> want, work |-> 0]
           s == IF SelfPos(t) < MaxStack THEN HeadSlot(q) ELSE 0
           v == Push(st, t, f)
<1>1. IF q.nFreeJobs > 0
      THEN Issued(t, st, want) /\ mutex' = NoThread
      ELSE /\ UNCHANGED jobs
           /\ IF s # 0
              THEN Execute(t, q, s, v, f) /\ mutex' = NoThread
              ELSE mutex' = t /\ stack' = v /\ UNCHANGED q
  BY DEF FindHandle
<1>2. Others(stack, stack', t) /\ Busy(Last(stack'[t]))
  <2>1. Others(stack, stack', t) /\ Last(stack'[t]).at \in {"user", "signal", "full"}
    BY FindInv
  <2> QED
    BY <2>1 DEF Busy
<1>3. CASE q.nFreeJobs > 0
  <2>1. \E h, par : Issuing(t, st, h, want.num, IF want.group THEN 1 ELSE 0, par)
    BY <1>1, <1>3, IssuedInv
  <2>2. CASE want \in [group : {FALSE}, prio : UserPrios, num : SubCounts]
    <3>1. want.group = FALSE /\ want.num \in SubCounts
      BY <2>2
    <3> QED
      BY <1>2, <2>1, <3>1 DEF Found
  <2>3. CASE want \in [group : {TRUE}, prio : {GroupPrio}, num : {1}]
    <3>1. want.group = TRUE /\ want.num = 1
      BY <2>3
    <3> QED
      BY <1>2, <2>1, <3>1 DEF Found
  <2> QED
    BY <2>2, <2>3 DEF Wants
<1>4. CASE ~(q.nFreeJobs > 0)
  <2>1. f \in Frames /\ f.at = "full" /\ f.work = 0
    BY DEF Frames, FrameOf
  <2>2. st \in Stacks(Frames) /\ PoolInv(q)
    BY DEF Inv, Shape
  <2>3. s # 0 => s \in Slots /\ Startable(q, s)
    BY <2>2, HeadSlotFacts
  <2>4. AfterWork(0) = q /\ DOMAIN jobs' = DOMAIN jobs
    BY <1>1, <1>4 DEF AfterWork
  <2> HIDE DEF f, s
  <2>5. v \in Stacks(Frames) /\ Last(v[t]) = f
    <3>1. Push(st, t, f) \in Stacks(Frames)
      BY <2>1, <2>2, StackFacts
    <3>2. Last(Push(st, t, f)[t]) = f
      BY <2>1, <2>2, OthersSame
    <3> QED
      BY <3>1, <3>2
  <2>6. CASE s = 0
    <3>1. stack' = v /\ q' = q
      BY <1>1, <1>4, <2>6
    <3>2. Moved(0, 0) /\ Still(v, stack')
      BY <2>4, <3>1, StillItself DEF Moved
    <3> QED
      BY <1>2, <2>1, <2>4, <3>2 DEF Filled
  <2>7. CASE s # 0
    <3>1. Execute(t, q, s, v, f)
      BY <1>1, <1>4, <2>7
    <3>2. f.at \in WorkKinds
      BY <2>1 DEF WorkKinds
    <3>3. Starts(q, q', s) /\ Still(v, stack')
      <4> HIDE DEF v
      <4> QED
        BY <2>1, <2>2, <2>3, <2>5, <2>7, <3>1, <3>2, ExecuteStill
    <3>4. Moved(0, s) /\ s \in Slots \cup {0}
      BY <2>3, <2>4, <2>7, <3>3 DEF Moved
    <3> QED
      BY <1>2, <2>1, <2>4, <3>3, <3>4 DEF Filled
  <2> QED
    BY <2>6, <2>7
<1> QED
  BY <1>3, <1>4

\* The calls of Jq2FindHandle by Jq2Add and Jq2GroupBegin.
LEMMA CallEffect ==
  ASSUME IInv, NEW t \in Threads, At(t, "user"), NEW want \in Wants, FindHandle(t, stack, want)
  PROVE  /\ Others(stack, stack', t) /\ Busy(Last(stack'[t])) /\ Busy(Top(t))
         /\ Filled(t, stack) \/ Found(t, stack)
<1>1. /\ Inv(q, stack, jobs) /\ stack \in Stacks(Frames)
      /\ Top(t) = Last(stack[t]) /\ Top(t) = stack[t][Depth(stack, t)]
      /\ Depth(stack, t) \in Nat /\ Depth(stack, t) > 0
      /\ Others(stack, stack, t)
  BY Acting
<1>2. Last(stack[t]).at = "user" /\ Top(t).at = "user"
  BY <1>1 DEF At
<1>3. Self(t) = SelfOf(Last(stack[t]))
  BY <1>1, <1>2, SelfIs
<1>4. Busy(Top(t))
  BY <1>2, CallsAreBusy
<1> QED
  BY <1>1, <1>2, <1>3, <1>4, FindEffect

\* Another pass of its loop.
LEMMA AgainEffect ==
  ASSUME IInv, NEW t \in Threads, FindAgain(t)
  PROVE  /\ Others(stack, stack', t) /\ Busy(Last(stack'[t])) /\ Busy(Top(t))
         /\ Top(t).at = "full" /\ Depth(stack, t) > 1
         /\ Pop(stack, t) \in Stacks(Frames) /\ Last(Pop(stack, t)[t]).at = "user"
         /\ Filled(t, Pop(stack, t)) \/ Found(t, Pop(stack, t))
<1> DEFINE f == Top(t)
           n == Depth(stack, t)
           st == Pop(stack, t)
<1>1. /\ Inv(q, stack, jobs) /\ f \in Frames
      /\ f = Last(stack[t]) /\ f = stack[t][n] /\ n \in Nat /\ stack \in Stacks(Frames)
      /\ Others(stack, stack, t) /\ t # NoThread
  BY Acting
<1>2. /\ f.at = "full" /\ mutex = t /\ FindHandle(t, st, f.want)
  BY DEF FindAgain, At
<1>3. f.work = 0
  BY <1>1, <1>2 DEF IInv, Held, Top
<1>4. f.want \in Wants
  BY <1>1, <1>2, FrameFacts
<1>5. f.at \in CallKinds
  BY <1>2 DEF CallKinds
<1>6. /\ Inv(q, st, jobs) /\ Last(st[t]).at = "user" /\ n > 1
      /\ Depth(st, t) = n - 1
  BY <1>1, <1>3, <1>5, ReturnInv
<1>7. Self(t) = SelfOf(Last(st[t]))
  <2> DEFINE m == n - 1
  <2>1. Popped(stack, st, t)
    BY <1>1, StackFacts
  <2>2. Last(st[t]) = st[t][n - 1]
    BY <1>6, TopFrame
  <2>3. Last(st[t]) = stack[t][m] /\ m \in Nat /\ m > 0 /\ m + 1 = n
    BY <1>1, <1>6, <2>1, <2>2 DEF Popped
  <2>4. stack[t][m].at = "user" /\ stack[t][n].at # "user"
    BY <1>1, <1>2, <1>6, <2>3
  <2> HIDE DEF m, st, f
  <2>5. Self(t) = SelfOf(stack[t][m])
    BY <1>1, <2>3, <2>4, SelfIs
  <2> QED
    BY <2>3, <2>5
<1>8. Others(stack, st, t) /\ st \in Stacks(Frames)
  BY <1>1, <1>6, OthersSame DEF Inv, Shape
<1>9. Busy(f)
  BY <1>5, CallsAreBusy
<1> HIDE DEF st, n, f
<1>10. /\ Others(stack, stack', t) /\ Busy(Last(stack'[t]))
       /\ Filled(t, st) \/ Found(t, st)
  BY <1>2, <1>4, <1>6, <1>7, <1>8, FindEffect
<1> QED
  BY <1>2, <1>6, <1>8, <1>9, <1>10 DEF f, n, st

\* The finished sub-job is counted in Jq2FindHandle.
LEMMA FindFinishKeeps ==
  ASSUME IInv, NEW t \in Threads, FindFinish(t)
  PROVE  Plain(t)
<1> DEFINE f == Top(t)
           w == f.work
           g == [f EXCEPT !.work = 0]
<1>1. f \in Frames
  BY Acting
<1>2. /\ f.at = "full" /\ q' = AfterWork(w) /\ stack' = SetTop(Notified(w), t, g)
      /\ UNCHANGED sem /\ UNCHANGED nStop /\ DOMAIN jobs' = DOMAIN jobs
  BY DEF FindFinish, At
<1>3. f.at \in WorkKinds /\ f.at \in CallKinds
  BY <1>2 DEF WorkKinds, CallKinds
<1>4. g \in Frames /\ g.at = "full"
  BY <1>1, <1>2, <1>3, FrameWork
<1>5. f = Top(t) /\ w = Top(t).work
  OBVIOUS
<1> HIDE DEF f, w, g
<1>6. g.at # "signal" /\ g.at \in CallKinds
  BY <1>4 DEF CallKinds
<1>7. Keeps(t) /\ Last(stack'[t]).at \in {g.at, "user"}
  <2>1. Keeps(t) /\ (Last(stack'[t]) = g \/ Last(stack'[t]).at = "user")
    BY <1>2, <1>3, <1>4, <1>5, <1>6, CountKeeps
  <2> QED
    BY <2>1
<1> QED
  BY <1>2, <1>3, <1>5, <1>6, <1>7, CallsAreBusy DEF Plain

\* Jq2GroupEnd.
LEMMA GroupEndKeeps ==
  ASSUME IInv, NEW t \in Threads, GroupEnd(t)
  PROVE  Plain(t)
<1> DEFINE f == Top(t)
           h == Last(f.groups)
           w == SlotOf(h)
           st == Notified(w)
           g == [f EXCEPT !.groups = Front(@)]
           n == Depth(stack, t)
           z == <<t, n>>
<1>1. /\ Inv(q, stack, jobs) /\ f \in Frames
      /\ f = Last(stack[t]) /\ stack \in Stacks(Frames) /\ Others(stack, stack, t)
  BY Acting
<1>2. /\ f.at = "user" /\ f.groups # <<>> /\ q' = IncrementFinished(q, w)
      /\ stack' = SetTop(st, t, g) /\ jobs' = [jobs EXCEPT ![h].ended = @ + 1]
      /\ UNCHANGED sem /\ UNCHANGED nStop
  BY DEF GroupEnd, At
<1>3. f.groups \in Seq(Nat) /\ {} \in SUBSET Nat
  BY <1>1, <1>2, FrameFacts
<1>4. Len(f.groups) \in Nat /\ Len(f.groups) >= 1
  BY <1>2, <1>3, EmptySeq
<1>5. g \in Frames /\ g.at = "user"
  <2> DEFINE G == Front(f.groups)
  <2>1. G \in Seq(Nat)
    <3>1. f.groups[1] \in Nat
      BY <1>3, <1>4, ElementOfSeq
    <3> QED
      BY <1>3, <1>4, <3>1, TopFacts
  <2>2. g = [f EXCEPT !.groups = G]
    OBVIOUS
  <2> HIDE DEF G, g, f
  <2> QED
    BY <1>1, <1>2, <1>3, <2>1, <2>2, FrameUser
<1>6. w \in Slots /\ q.num_finished_jobs[w] < q.nNumStarted[w]
  <2>1. z \in Positions(stack) /\ On(stack, z) = f
    BY <1>1, TopFrame
  <2>2. h = f.groups[Len(f.groups)]
    BY DEF Last
  <2> HIDE DEF z, f
  <2>3. Runs(On(stack, z), h)
    BY <1>2, <1>4, <2>1, <2>2 DEF Runs
  <2> QED
    BY <1>1, <2>1, <2>3, InUse
<1>7. w # 0 /\ AfterWork(w) = IncrementFinished(q, w)
  BY <1>6 DEF Slots, AfterWork
<1>8. Moved(w, 0) /\ w \in Slots \cup {0} /\ 0 \in Slots \cup {0}
  BY <1>2, <1>6, <1>7 DEF Moved, SamePool
<1>9. /\ st \in Stacks(Frames) /\ st[t] = stack[t] /\ Still(stack, st) /\ Others(stack, st, t)
  <2>1. CASE st = stack
    BY <1>1, <2>1, StillItself
  <2>2. CASE st = WakeAll(stack)
    <3>1. Inv(q, WakeAll(stack), jobs) /\ WakeAll(stack)[t] = stack[t]
      BY <1>1, <1>2, WakeInv
    <3>2. Others(stack, WakeAll(stack), t)
      BY <1>1, WakeOthers
    <3>3. WakeAll(stack) \in Stacks(Frames)
      BY <3>1 DEF Inv, Shape
    <3>4. Still(stack, WakeAll(stack))
      BY <1>1, StillStack
    <3> QED
      BY <2>2, <3>1, <3>2, <3>3, <3>4
  <2> QED
    BY <2>1, <2>2 DEF Notified
<1>10. DOMAIN jobs' = DOMAIN jobs
  BY <1>2
<1>11. Last(st[t]) = f
  BY <1>1, <1>9
<1> HIDE DEF f, g, st, w, h
<1>12. Still(st, SetTop(st, t, g))
  <2>1. f.at \notin {"full", "signal"} /\ g.at \notin {"full", "signal"}
    BY <1>2, <1>5
  <2> QED
    BY <1>5, <1>9, <1>11, <2>1, StillStack
<1>13. Still(stack, stack')
  BY <1>2, <1>9, <1>12, StillAgain
<1>14. Others(stack, stack', t) /\ Last(stack'[t]) = g
  BY <1>2, <1>5, <1>9, OthersSame
<1>15. Keeps(t)
  BY <1>8, <1>10, <1>13, <1>14 DEF Keeps
<1> QED
  BY <1>2, <1>5, <1>14, <1>15, CallsAreBusy DEF Plain, f

\* A job function returns.
LEMMA UserReturnKeeps ==
  ASSUME IInv, NEW t \in Threads, UserReturn(t)
  PROVE  Plain(t)
<1> DEFINE f == Top(t)
           h == f.job
<1>1. /\ Inv(q, stack, jobs) /\ f = Last(stack[t]) /\ stack \in Stacks(Frames)
      /\ Depth(stack, t) \in Nat /\ Depth(stack, t) > 0 /\ f = stack[t][Depth(stack, t)]
  BY Acting
<1>2. /\ f.at = "user" /\ h # 0 /\ f.groups = <<>> /\ stack' = Pop(stack, t)
      /\ jobs' = [jobs EXCEPT ![h].ended = @ + 1]
      /\ UNCHANGED q /\ UNCHANGED sem /\ UNCHANGED nStop
  BY DEF UserReturn, At
<1>3. Last(stack[t]).at = "user" /\ h = Last(stack[t]).job /\ Last(stack[t]).groups = <<>>
  BY <1>1, <1>2
<1>4. DOMAIN jobs' = DOMAIN jobs
  BY <1>2
<1>5. Inv(q, stack, jobs) /\ h # 0
  BY <1>1, <1>2
<1> HIDE DEF f, h
<1>6. /\ Inv(q, Pop(stack, t), [jobs EXCEPT ![h].ended = @ + 1])
      /\ h \in DOMAIN jobs /\ Last(Pop(stack, t)[t]).at \in WorkKinds
      /\ Last(Pop(stack, t)[t]).work = SlotOf(h)
  BY <1>3, <1>5, BodyReturnInv
<1>7. SlotOf(h) # 0
  <2>1. SlotOf(h) \in Slots
    BY <1>1, <1>6 DEF Inv, Table
  <2> QED
    BY <2>1 DEF Slots
<1>8. Depth(stack, t) > 1
  <2>1. Level(stack, t, Depth(stack, t))
    BY <1>1, TopFrame
  <2>2. stack[t][Depth(stack, t)].at = "user" /\ stack[t][Depth(stack, t)].job # 0
    BY <1>1, <1>2 DEF h
  <2>3. Depth(stack, t) # 1
    BY <2>1, <2>2 DEF Level, BaseKinds
  <2> QED
    BY <1>1, <2>3
<1>9. Keeps(t)
  BY <1>2, <1>4, <1>8, PopKeeps DEF f
<1>10. Busy(Last(stack'[t])) /\ Busy(f)
  BY <1>2, <1>6, <1>7 DEF Busy, WorkKinds
<1> QED
  BY <1>2, <1>9, <1>10 DEF Plain, f

\* User code calls Jq2Wait or Jq2ExecuteChildren.
LEMMA WaitCallKeeps ==
  ASSUME IInv, NEW t \in Threads, NEW h \in DOMAIN jobs, NEW k \in WaitKinds, Wait(t, h, k)
  PROVE  Plain(t)
<1> DEFINE g == [at |-> "wait", for |-> h, kind |-> k, work |-> 0]
<1>1. Top(t).at = "user" /\ stack' = Push(stack, t, g) /\ UNCHANGED <<q, sem, nStop, jobs>>
  BY DEF Wait, At
<1>2. g \in Frames /\ g.at = "wait"
  <2>1. h \in Nat
    BY DEF IInv, Inv, Table
  <2> QED
    BY <2>1 DEF Frames, FrameOf
<1> HIDE DEF g
<1>3. g.at \notin {"full", "signal"} /\ g.at \in CallKinds
  BY <1>2 DEF CallKinds, WaitFrames
<1>4. Keeps(t) /\ Last(stack'[t]) = g
  BY <1>1, <1>2, <1>3, PushKeeps
<1> QED
  BY <1>1, <1>3, <1>4, CallsAreBusy DEF Plain

\* Jq2WaitAll and Jq2Stop, but for what they do to the semaphore and to nStop.
LEMMA MainKeeps ==
  ASSUME IInv, MainStep \/ \E stop \in BOOLEAN : WaitAll(stop)
  PROVE  Keeps(Main) /\ (nStop' = 0 => UNCHANGED sem /\ UNCHANGED nStop)
<1> DEFINE t == Main
           f == Top(t)
<1>1. t \in Threads
  BY DEF Threads
<1> HIDE DEF t
<1>2. /\ Inv(q, stack, jobs) /\ f \in Frames /\ SamePool(q, q) /\ stack \in Stacks(Frames)
  BY <1>1, Acting, SameAsItself
<1>3. nStop \in {0, 1}
  BY DEF IInv, Stopping
<1>4. ASSUME f.at \in MainKinds, NEW at \in StopKinds, stack' = SetTop(stack, t, [at |-> at]),
             UNCHANGED <<q, jobs>>
      PROVE  Keeps(t)
  <2> DEFINE g == [at |-> at]
  <2>1. g \in Frames /\ g.at = at
    BY DEF Frames, FrameOf, StopKinds
  <2>2. stack' = SetTop(stack, t, g)
    BY <1>4
  <2> HIDE DEF g
  <2>3. g.at \notin {"full", "signal"} /\ f.at \notin {"full", "signal"}
    BY <1>4, <2>1 DEF MainKinds, StopKinds
  <2> QED
    BY <1>1, <1>2, <1>4, <2>1, <2>2, <2>3, TopKeeps
<1>5. CASE WaitAllDone
  <2>1. /\ f.at = "waitall"
        /\ stack' = SetTop(stack, t, [at |-> "stop"]) \/ stack' = Pop(stack, t)
        /\ UNCHANGED <<q, sem, nStop, jobs>>
    BY <1>5 DEF WaitAllDone, At, t
  <2>2. f.at \in MainKinds /\ f.at \in CallKinds /\ "stop" \in StopKinds
    BY <2>1 DEF MainKinds, StopKinds, CallKinds
  <2>3. CASE stack' = Pop(stack, t)
    <3>1. Depth(stack, t) > 1
      BY <1>1, <1>2, <2>2, CallerOf
    <3>2. f.at \notin {"full", "signal"}
      BY <2>1
    <3>3. Keeps(t)
      BY <1>1, <1>2, <2>1, <2>3, <3>1, <3>2, PopKeeps
    <3> QED
      BY <2>1, <3>3 DEF t
  <2> QED
    BY <1>4, <2>1, <2>2, <2>3 DEF t
<1>6. CASE WaitAllTake
  <2> DEFINE w == f.work
             p == AfterWork(w)
             st == Notified(w)
             g == [f EXCEPT !.work = 0]
             s == HeadSlot(p)
  <2>1. /\ f.at = "waitall"
        /\ IF s # 0 THEN Execute(t, p, s, st, f) ELSE q' = p /\ stack' = SetTop(st, t, g)
        /\ UNCHANGED <<sem, nStop, jobs>>
    BY <1>6 DEF WaitAllTake, At, t
  <2>2. f.at \in WorkKinds /\ f.at # "full"
    BY <2>1 DEF WorkKinds
  <2>3. PoolInv(p)
    BY <1>1, <1>2, <2>2, CountedStill
  <2>4. s # 0 => s \in Slots /\ Startable(p, s)
    BY <2>3, HeadSlotFacts
  <2>5. g \in Frames /\ g.at = "waitall"
    BY <1>2, <2>1, <2>2, FrameWork
  <2>6. f = Top(t) /\ w = Top(t).work /\ p = AfterWork(w) /\ st = Notified(w)
    OBVIOUS
  <2> HIDE DEF f, w, p, st, g, s
  <2>7. CASE s # 0
    <3>1. Execute(t, AfterWork(w), s, Notified(w), f) /\ s \in Slots /\ Startable(AfterWork(w), s)
      BY <2>1, <2>4, <2>6, <2>7
    <3>2. Keeps(t)
      BY <1>1, <1>2, <2>1, <2>2, <2>6, <3>1, TakeKeeps
    <3> QED
      BY <2>1, <3>2 DEF t
  <2>8. CASE s = 0
    <3>1. q' = AfterWork(w) /\ stack' = SetTop(Notified(w), t, g)
      BY <2>1, <2>6, <2>8
    <3>2. g.at # "signal" /\ g.at # "full"
      BY <2>5
    <3>3. Keeps(t)
      BY <1>1, <1>2, <2>1, <2>2, <2>5, <2>6, <3>1, <3>2, CountKeeps
    <3> QED
      BY <2>1, <3>3 DEF t
  <2> QED
    BY <2>7, <2>8
<1>7. CASE StopSet
  <2>1. nStop' = 1 /\ q' = q /\ stack' = stack /\ jobs' = jobs
    BY <1>7 DEF StopSet
  <2>2. SamePool(q, q') /\ Still(stack, stack') /\ Others(stack, stack', t)
    BY <1>2, <2>1, StillItself DEF Others
  <2>3. Keeps(t)
    BY <2>1, <2>2, KeepsPool
  <2> QED
    BY <2>1, <2>3 DEF t
<1>8. CASE StopSignal
  <2>1. /\ f.at = "stop" /\ nStop' = 1 /\ stack' = SetTop(stack, t, [at |-> "join"])
        /\ UNCHANGED <<q, jobs>>
    BY <1>8 DEF StopSignal, At, t
  <2>2. f.at \in MainKinds /\ "join" \in StopKinds
    BY <2>1 DEF MainKinds, StopKinds
  <2>3. Keeps(t)
    BY <1>4, <2>1, <2>2
  <2> QED
    BY <2>1, <2>3 DEF t
<1>9. CASE StopJoin
  <2>1. /\ f.at = "join" /\ stack' = SetTop(stack, t, [at |-> "stopped"])
        /\ UNCHANGED <<q, sem, nStop, jobs>>
    BY <1>9 DEF StopJoin, At, t
  <2>2. f.at \in MainKinds /\ "stopped" \in StopKinds
    BY <2>1 DEF MainKinds, StopKinds
  <2>3. Keeps(t)
    BY <1>4, <2>1, <2>2
  <2> QED
    BY <2>1, <2>3 DEF t
<1>10. ASSUME NEW stop \in BOOLEAN, WaitAll(stop)
       PROVE  Keeps(t) /\ UNCHANGED sem /\ UNCHANGED nStop
  <2> DEFINE g == [at |-> "waitall", stop |-> stop, work |-> 0]
  <2>1. stack' = Push(stack, t, g) /\ UNCHANGED <<q, sem, nStop, jobs>>
    BY <1>10 DEF WaitAll, t
  <2>2. g \in Frames /\ g.at = "waitall"
    BY DEF Frames, FrameOf
  <2> HIDE DEF g
  <2>3. g.at \notin {"full", "signal"}
    BY <2>2
  <2>4. Keeps(t)
    BY <1>1, <2>1, <2>2, <2>3, PushKeeps
  <2> QED
    BY <2>1, <2>4
<1> QED
  BY <1>5, <1>6, <1>7, <1>8, <1>9, <1>10 DEF MainStep, t

-----------------------------------------------------------------------------
(* The pool implements JobPool *)

\* The words of JobPool for the fields of a slot.
LEMMA PoolWords ==
  /\ Pool!Slots = Slots
  /\ \A h : Pool!SlotOf(h) = SlotOf(h) /\ Pool!NextHandle(h) = NextHandle(h)
  /\ \A s : Pool!Pending(s) <=> PendingJobs(q, s)
  /\ \A s : Pool!Running(s) <=> q.num_finished_jobs[s] < q.nNumStarted[s]
BY DEF Pool!Slots, Slots, Pool!SlotOf, SlotOf, Pool!NextHandle, NextHandle,
       Pool!Pending, PendingJobs, Pool!Running

\* Nothing is left of a job but children that are in a set.
ClosedPool(s, C) ==
  \A x \in Slots : OnlyChildren(q, s, x) /\ (\A c : Has(q.children[x], c) => c \in C) => x \in C

\* The climb of Jq2CheckFinished completes what JobPool says.
LEMMA PoolCompleted ==
  ASSUME PoolInv(q), NEW s \in Slots, q.num_finished_jobs[s] < q.nNumStarted[s],
         NEW D, D = CheckFinished(Ended(q, s), s)
  PROVE  Pool!Completed(s) = D
<1>1. ASSUME NEW C PROVE Pool!ClosedUnder(s, C) <=> ClosedPool(s, C)
  <2>1. ASSUME NEW x \in Slots
        PROVE  (Pool!Children(x) \subseteq C) <=> \A c : Has(q.children[x], c) => c \in C
    <3>1. \A c : c \in Pool!Children(x) <=> c \in Slots /\ PendingJobs(q, c) /\ q.nParent[c] = x
      BY PoolWords DEF Pool!Children
    <3>2. \A c : c \in Pool!Children(x) <=> Has(q.children[x], c)
      BY <3>1 DEF PoolInv, Tree
    <3> QED
      BY <3>2
  <2>2. ASSUME NEW x \in Slots
        PROVE  OnlyChildren(q, s, x) <=> Pool!Pending(x) /\ Pool!Finished(s, x) = q.nNumJobs[x]
    BY PoolWords DEF OnlyChildren, Pool!Finished
  <2>3. Pool!ClosedUnder(s, C) <=> \A x \in Slots : /\ Pool!Pending(x)
                                                    /\ Pool!Finished(s, x) = q.nNumJobs[x]
                                                    /\ Pool!Children(x) \subseteq C
                                                    => x \in C
    BY PoolWords DEF Pool!ClosedUnder
  <2> QED
    BY <2>1, <2>2, <2>3, Zenon DEF ClosedPool
<1>2. /\ D \in SUBSET Slots /\ ClosedPool(s, D)
      /\ \A C \in SUBSET Slots : ClosedPool(s, C) => D \subseteq C
  BY DoneFacts DEF ClosedPool
<1>3. Pool!Completed(s) = {x \in Slots : \A C \in SUBSET Slots : ClosedPool(s, C) => x \in C}
  BY <1>1, PoolWords DEF Pool!Completed
<1> QED
  BY <1>2, <1>3

\* The critical sections that count or start sub-jobs.
LEMMA MovedPool ==
  ASSUME PoolInv(q), NEW w \in Slots \cup {0}, NEW v \in Slots \cup {0}, Moved(w, v),
         DOMAIN jobs' = DOMAIN jobs
  PROVE  /\ [Pool!Next]_(Pool!vars)
         /\ q'.nNextHandle = q.nNextHandle
<1> DEFINE p == AfterWork(w)
           D == CheckFinished(Ended(q, w), w)
<1>1. IF v = 0 THEN SamePool(p, q') ELSE Startable(p, v) /\ Starts(p, q', v)
  BY DEF Moved
<1>2. CASE w = 0
  <2>1. p = q
    BY <1>2 DEF AfterWork
  <2>2. CASE v = 0
    <3>1. SamePool(q, q')
      BY <1>1, <2>1, <2>2
    <3> QED
      BY <3>1 DEF SamePool, Pool!vars
  <2>3. CASE v # 0
    <3>1. Startable(q, v) /\ Starts(q, q', v) /\ v \in Slots
      BY <1>1, <2>1, <2>3
    <3>2. Pool!Start(v)
      BY <3>1 DEF Pool!Start, Pool!StartSub, Startable, Starts
    <3>3. Pool!Next
      BY <3>1, <3>2, PoolWords DEF Pool!Next
    <3> QED
      BY <3>1, <3>3 DEF Starts
  <2> QED
    BY <2>2, <2>3
<1>3. CASE w # 0
  <2>1. w \in Slots /\ q.num_finished_jobs[w] < q.nNumStarted[w]
    BY <1>3 DEF Moved
  <2>2. Finishes(q, p, w, D)
    BY <1>3, <2>1, FinishedInv DEF AfterWork
  <2>3. Pool!Completed(w) = D
    BY <2>1, PoolCompleted
  <2> HIDE DEF p, D
  <2>4. /\ q'.num_finished_jobs = p.num_finished_jobs /\ q'.nFinishedHandle = p.nFinishedHandle
        /\ q'.nParent = p.nParent /\ q'.nStartedHandle = p.nStartedHandle
        /\ q'.nNumJobs = p.nNumJobs /\ q'.nNextHandle = p.nNextHandle
        /\ v = 0 => q'.nNumStarted = p.nNumStarted
        /\ v # 0 => /\ q'.nNumStarted = [p.nNumStarted EXCEPT ![v] = @ + 1]
                    /\ p.nNumStarted[v] < p.nNumJobs[v]
    BY <1>1 DEF SamePool, Starts, Startable
  <2>5. Pool!FinishSub(w)
    <3>1. /\ q'.num_finished_jobs = [q.num_finished_jobs EXCEPT ![w] = @ + 1]
          /\ q'.nFinishedHandle = [x \in Slots |-> IF x \in D THEN q.nStartedHandle[x]
                                                   ELSE q.nFinishedHandle[x]]
          /\ q'.nParent = [x \in Slots |-> IF x \in D THEN 0 ELSE q.nParent[x]]
      BY <2>2, <2>4 DEF Finishes
    <3> QED
      BY <2>1, <2>3, <3>1, PoolWords DEF Pool!FinishSub
  <2>6. q'.nNextHandle = q.nNextHandle
    BY <2>2, <2>4 DEF Finishes
  <2>7. CASE v = 0
    <3>1. Pool!Finish(w)
      BY <2>2, <2>4, <2>5, <2>7 DEF Pool!Finish, Finishes
    <3>2. Pool!Next
      BY <2>1, <3>1, PoolWords DEF Pool!Next
    <3> QED
      BY <2>6, <3>2
  <2>8. CASE v # 0
    <3>1. v \in Slots
      BY <2>8
    <3>2. Pool!StartSub(v)
      BY <2>2, <2>4, <2>8 DEF Pool!StartSub, Finishes
    <3>3. Pool!FinishAndStart(w, v)
      BY <2>2, <2>4, <2>5, <3>2 DEF Pool!FinishAndStart, Finishes
    <3>4. Pool!Next
      BY <2>1, <3>1, <3>3, PoolWords DEF Pool!Next
    <3> QED
      BY <2>6, <3>4
  <2> QED
    BY <2>7, <2>8
<1> QED
  BY <1>2, <1>3

\* The section in which Jq2FindHandle returns a handle.
LEMMA IssuedPool ==
  ASSUME NEW t, NEW st, NEW h, NEW par, NEW n \in SubCounts \cup {1}, NEW k \in {0, 1},
         k = 1 => n = 1, Issuing(t, st, h, n, k, par), h <= MaxHandle
  PROVE  Pool!Next
<1>1. /\ h \in Nat /\ h >= q.nNextHandle /\ SlotOf(h) \in Slots /\ ~PendingJobs(q, SlotOf(h))
      /\ par \in Slots \cup {0}
      /\ par # 0 => q.num_finished_jobs[par] < q.nNumStarted[par]
      /\ Issues(q, q', h, SlotOf(h), n, k, par)
      /\ DOMAIN jobs' = DOMAIN jobs \cup {h}
  BY DEF Issuing
<1>2. h \in Pool!Handles
  <2>1. h % MaxJobs # 0 /\ h # 0
    BY <1>1, MaxJobsAssumption DEF SlotOf, Slots
  <2>2. h \in 1 .. MaxHandle
    <3>1. MaxHandle \in Int
      BY ClientAssumption, MaxJobsAssumption DEF MaxHandle
    <3> HIDE DEF MaxHandle
    <3> QED
      BY <1>1, <2>1, <3>1
  <2> QED
    BY <2>1, <2>2 DEF Pool!Handles
<1>3. Pool!Issue(h, n, k, par)
  <2>1. Pool!MayIssue(h, par)
    BY <1>1, PoolWords DEF Pool!MayIssue
  <2>2. /\ q'.nStartedHandle = [q.nStartedHandle EXCEPT ![SlotOf(h)] = h]
        /\ q'.nFinishedHandle = q.nFinishedHandle
        /\ q'.nNumJobs = [q.nNumJobs EXCEPT ![SlotOf(h)] = n]
        /\ q'.nNumStarted = [q.nNumStarted EXCEPT ![SlotOf(h)] = k]
        /\ q'.num_finished_jobs = [q.num_finished_jobs EXCEPT ![SlotOf(h)] = 0]
        /\ q'.nParent = [q.nParent EXCEPT ![SlotOf(h)] = par]
        /\ q'.nNextHandle = NextHandle(h)
    BY <1>1 DEF Issues
  <2> QED
    BY <1>1, <2>1, <2>2, PoolWords DEF Pool!Issue
<1>4. CASE k = 1
  <2>1. Pool!GroupBegin(h, par)
    BY <1>3, <1>4 DEF Pool!GroupBegin
  <2> QED
    BY <1>1, <1>2, <2>1, PoolWords DEF Pool!Next
<1>5. CASE k = 0
  <2>1. Pool!Add(h, n, par)
    BY <1>3, <1>5 DEF Pool!Add
  <2>2. n \in 1 .. Max(SubCounts \cup {1})
    BY MostSubJobs
  <2> QED
    BY <1>1, <1>2, <2>1, <2>2, PoolWords DEF Pool!Next
<1> QED
  BY <1>4, <1>5

\* The calls of Jq2FindHandle on a full pool; each of them, and each handle,
\* stands for one of the MaxAdds calls of the program, and a handle is at most
\* MaxJobs bigger than the one before it.
Calls == Marks(stack, {"full"})
Room(c, J) == IsFiniteSet(J) /\ IsFiniteSet(c) /\ Cardinality(J) + Cardinality(c) < MaxAdds
NextBelow(n, J) == n <= 1 + MaxJobs * Cardinality(J)
Bounded ==
  /\ IsFiniteSet(DOMAIN jobs) /\ IsFiniteSet(Calls)
  /\ Cardinality(DOMAIN jobs) + Cardinality(Calls) <= MaxAdds
  /\ NextBelow(q.nNextHandle, DOMAIN jobs)

\* A section that issues no handle and ends in no new call.
LEMMA KeepsPoolStep ==
  ASSUME IInv, Bounded, NEW t \in Threads, Keeps(t)
  PROVE  Bounded' /\ [Pool!Next]_(Pool!vars)
<1>1. PoolInv(q)
  BY DEF IInv, Inv
<1>2. PICK w \in Slots \cup {0}, v \in Slots \cup {0} : Moved(w, v)
  BY DEF Keeps
<1>3. Calls' = Calls /\ DOMAIN jobs' = DOMAIN jobs
  BY DEF Keeps, Still, Calls
<1>4. [Pool!Next]_(Pool!vars) /\ q'.nNextHandle = q.nNextHandle
  BY <1>1, <1>2, <1>3, MovedPool
<1> QED
  BY <1>3, <1>4 DEF Bounded

\* A pass of the loop of Jq2FindHandle on a full pool.
LEMMA FilledPoolStep ==
  ASSUME IInv, NEW t \in Threads, NEW st \in Stacks(Frames), Filled(t, st),
         Room(Marks(st, {"full"}), DOMAIN jobs), NextBelow(q.nNextHandle, DOMAIN jobs)
  PROVE  Bounded' /\ [Pool!Next]_(Pool!vars)
<1> DEFINE n == Depth(st, t)
           A == Marks(st, {"full"})
           J == DOMAIN jobs
<1>1. PoolInv(q)
  BY DEF IInv, Inv
<1>2. PICK s \in Slots \cup {0} : Moved(0, s)
  BY DEF Filled
<1>3. PICK f \in Frames : f.at = "full" /\ Still(Push(st, t, f), stack')
  BY DEF Filled
<1>4. J' = J
  BY DEF Filled
<1>5. [Pool!Next]_(Pool!vars) /\ q'.nNextHandle = q.nNextHandle
  BY <1>1, <1>2, <1>4, MovedPool
<1>6. Calls' = A \cup {<<t, n + 1>>}
  <2>1. Followed(st, t, f, {"full"}, n)
    BY MarksFollow
  <2>2. Calls' = Marks(Push(st, t, f), {"full"})
    BY <1>3 DEF Calls, Still
  <2> HIDE DEF A, n
  <2> QED
    BY <1>3, <2>1, <2>2 DEF Followed, A
<1>7. IsFiniteSet(J) /\ IsFiniteSet(A) /\ Cardinality(J) + Cardinality(A) < MaxAdds
  BY DEF Room
<1> HIDE DEF A, J
<1>8. /\ IsFiniteSet(Calls') /\ Cardinality(Calls') \in Nat
      /\ Cardinality(Calls') <= Cardinality(A) + 1
  <2>1. IsFiniteSet(Calls')
    BY <1>6, <1>7, FS_AddElement
  <2>2. Cardinality(Calls') = Cardinality(A) \/ Cardinality(Calls') = Cardinality(A) + 1
    BY <1>6, <1>7, FS_AddElement
  <2> QED
    BY <1>7, <2>1, <2>2, FS_CardinalityType
<1>9. Cardinality(J) \in Nat /\ Cardinality(A) \in Nat /\ MaxAdds \in Nat
  BY <1>7, FS_CardinalityType, ClientAssumption
<1>10. Cardinality(J') + Cardinality(Calls') <= MaxAdds
  BY <1>4, <1>7, <1>8, <1>9
<1> QED
  BY <1>4, <1>5, <1>7, <1>8, <1>10 DEF Bounded, J

\* A handle is issued: it is not among those issued before.
LEMMA FoundPoolStep ==
  ASSUME IInv, NEW t \in Threads, NEW st \in Stacks(Frames), Last(st[t]).at = "user",
         Found(t, st), Room(Marks(st, {"full"}), DOMAIN jobs),
         NextBelow(q.nNextHandle, DOMAIN jobs)
  PROVE  Bounded' /\ [Pool!Next]_(Pool!vars)
<1> DEFINE A == Marks(st, {"full"})
           J == DOMAIN jobs
           c == Cardinality(J)
<1>1. PICK n \in SubCounts \cup {1}, k \in {0, 1} :
        (k = 1 => n = 1) /\ \E h, par : Issuing(t, st, h, n, k, par)
  BY DEF Found
<1>2. PICK h, par : (k = 1 => n = 1) /\ Issuing(t, st, h, n, k, par)
  BY <1>1
<1>3. /\ h \in Nat /\ h >= q.nNextHandle /\ h < q.nNextHandle + MaxJobs
      /\ NextHandle(h) <= q.nNextHandle + MaxJobs
      /\ q'.nNextHandle = NextHandle(h) /\ J' = J \cup {h}
  BY <1>2 DEF Issuing, Issues
<1>4. q.nNextHandle \in Nat /\ NextHandle(h) \in Nat /\ MaxJobs \in Nat
  BY <1>3, NextHandleFacts, MaxJobsAssumption DEF IInv, Inv, PoolInv, Pools
<1>5. h \notin J
  BY <1>3, <1>4 DEF IInv, Inv, Table
<1>6. IsFiniteSet(J) /\ IsFiniteSet(A) /\ c + Cardinality(A) < MaxAdds
  BY DEF Room
<1>7. c \in Nat /\ Cardinality(A) \in Nat /\ MaxAdds \in Nat
  BY <1>6, FS_CardinalityType, ClientAssumption
<1>8. IsFiniteSet(J') /\ Cardinality(J') = c + 1
  BY <1>3, <1>5, <1>6, FS_AddElement
<1>9. Calls' = A
  <2>1. PICK g \in Frames :
          /\ g.at = "user"
          /\ IF k = 1 THEN stack' = SetTop(st, t, g)
             ELSE \E z \in Frames : /\ z.at = "signal" /\ z.num = n
                                   /\ stack' = Push(SetTop(st, t, g), t, z)
    BY <1>2 DEF Issuing
  <2> DEFINE m == Depth(st, t)
             v == SetTop(st, t, g)
             d == Depth(v, t)
  <2>2. Followed(st, t, g, {"full"}, m)
    BY MarksFollow
  <2>3. Marks(v, {"full"}) = A
    <3> HIDE DEF m, A, v
    <3>1. <<t, m>> \notin A
      BY <2>2 DEF Followed, A
    <3>2. Marks(v, {"full"}) = A \ {<<t, m>>}
      BY <2>1, <2>2 DEF Followed, A, v
    <3> QED
      BY <3>1, <3>2
  <2>4. v \in Stacks(Frames)
    BY <2>1, StackFacts
  <2>5. ASSUME NEW z \in Frames, z.at = "signal" PROVE Marks(Push(v, t, z), {"full"}) = A
    <3>1. Followed(v, t, z, {"full"}, d)
      BY <2>4, MarksFollow
    <3> HIDE DEF v, d, A
    <3> QED
      BY <2>3, <2>5, <3>1 DEF Followed
  <2> HIDE DEF A
  <2> QED
    BY <2>1, <2>3, <2>5 DEF Calls
<1>10. MaxJobs * (c + 1) = MaxJobs * c + MaxJobs
  BY <1>4, <1>7
<1>11. q.nNextHandle <= 1 + MaxJobs * c
  BY DEF NextBelow
<1>12. NextBelow(q'.nNextHandle, J')
  <2>1. NextHandle(h) <= 1 + (MaxJobs * c + MaxJobs)
    <3>1. MaxJobs * c \in Nat
      BY <1>4, <1>7
    <3> HIDE DEF c
    <3> QED
      BY <1>3, <1>4, <1>11, <3>1
  <2>2. q'.nNextHandle <= 1 + MaxJobs * (c + 1)
    BY <1>3, <1>10, <2>1
  <2> QED
    BY <1>8, <2>2 DEF NextBelow
<1>13. h <= MaxHandle
  <2> DEFINE e == MaxAdds - (c + 1)
  <2>1. e \in Nat /\ MaxAdds = c + 1 + e
    BY <1>6, <1>7
  <2>2. MaxJobs * c \in Nat /\ MaxJobs * e \in Nat
    BY <1>4, <1>7, <2>1
  <2>3. MaxAdds * MaxJobs = MaxJobs * c + MaxJobs + MaxJobs * e
    BY <1>4, <1>7, <2>1
  <2> HIDE DEF e, c
  <2>4. h <= MaxJobs * c + MaxJobs
    BY <1>3, <1>4, <1>11, <2>2
  <2> QED
    BY <1>3, <1>4, <2>2, <2>3, <2>4 DEF MaxHandle
<1>14. Pool!Next
  BY <1>2, <1>13, IssuedPool
<1> HIDE DEF A, J, c
<1>15. Cardinality(J') + Cardinality(Calls') <= MaxAdds
  BY <1>6, <1>7, <1>8, <1>9
<1> QED
  BY <1>6, <1>8, <1>9, <1>12, <1>14, <1>15 DEF Bounded, J

\* The program adds no more than MaxAdds jobs and groups.
LEMMA AddedRoom ==
  ASSUME IInv, Bounded, MayAdd
  PROVE  Room(Marks(stack, {"full"}), DOMAIN jobs)
<1>1. FramesIn({"full"}) = Marks(stack, {"full"})
  BY FramesAre DEF IInv, Inv, Shape, Marks
<1>2. Cardinality(DOMAIN jobs) + Cardinality(FramesIn({"full"})) < MaxAdds
  BY DEF MayAdd
<1> QED
  BY <1>1, <1>2 DEF Room, Bounded, Calls

\* A call that goes round the loop of Jq2FindHandle makes room for itself.
LEMMA AgainRoom ==
  ASSUME IInv, Bounded, NEW t \in Threads, Top(t).at = "full", Depth(stack, t) > 1
  PROVE  Room(Marks(Pop(stack, t), {"full"}), DOMAIN jobs)
<1> DEFINE n == Depth(stack, t)
           A == Marks(Pop(stack, t), {"full"})
<1>1. stack \in Stacks(Frames) /\ Top(t) = Last(stack[t]) /\ Top(t) \in Frames
  BY Acting
<1>2. Followed(stack, t, Top(t), {"full"}, n)
  BY <1>1, MarksFollow
<1>3. A = Calls \ {<<t, n>>} /\ <<t, n>> \in Calls
  <2> HIDE DEF A, n
  <2>1. n > 1
    BY DEF n
  <2> QED
    BY <1>1, <1>2, <2>1 DEF Followed, Calls, A
<1>4. IsFiniteSet(Calls) /\ IsFiniteSet(DOMAIN jobs)
      /\ Cardinality(DOMAIN jobs) + Cardinality(Calls) <= MaxAdds
  BY DEF Bounded
<1> HIDE DEF A, n
<1>5. IsFiniteSet(A) /\ Cardinality(A) = Cardinality(Calls) - 1
  BY <1>3, <1>4, FS_RemoveElement
<1>6. Cardinality(Calls) \in Nat /\ Cardinality(DOMAIN jobs) \in Nat /\ MaxAdds \in Nat
  BY <1>4, FS_CardinalityType, ClientAssumption
<1>7. Cardinality(DOMAIN jobs) + Cardinality(A) < MaxAdds
  BY <1>4, <1>5, <1>6
<1> QED
  BY <1>4, <1>5, <1>7 DEF Room, A

\* The signal after Jq2Add leaves the pool alone.
LEMMA SignalPoolStep ==
  ASSUME IInv, Bounded, NEW t \in Threads, AddSignal(t)
  PROVE  Bounded' /\ [Pool!Next]_(Pool!vars)
<1> DEFINE n == Depth(stack, t)
<1>1. stack \in Stacks(Frames) /\ Top(t) = Last(stack[t]) /\ Top(t) \in Frames
  BY Acting
<1>2. Top(t).at = "signal" /\ stack' = Pop(stack, t) /\ q' = q /\ jobs' = jobs
  BY DEF AddSignal, At
<1>3. n > 1
  BY <1>1, <1>2, CallerOf DEF CallKinds
<1>4. Followed(stack, t, Top(t), {"full"}, n)
  BY <1>1, MarksFollow
<1>5. Calls' = Calls
  <2> HIDE DEF n
  <2>1. <<t, n>> \notin Calls
    BY <1>1, <1>2, <1>4 DEF Followed, Calls
  <2>2. Calls' = Calls \ {<<t, n>>}
    BY <1>2, <1>3, <1>4 DEF Followed, Calls
  <2> QED
    BY <2>1, <2>2
<1> QED
  BY <1>2, <1>5 DEF Bounded, Pool!vars

\* Every step of the queue is one of the pool, or leaves it alone.
LEMMA NextPool ==
  ASSUME IInv, Bounded, [Next]_vars
  PROVE  Bounded' /\ [Pool!Next]_(Pool!vars)
<1>1. ASSUME NEW t \in Threads, Plain(t)
      PROVE  Bounded' /\ [Pool!Next]_(Pool!vars)
  BY <1>1, KeepsPoolStep DEF Plain
<1>2. NextBelow(q.nNextHandle, DOMAIN jobs)
  BY DEF Bounded
<1>3. ASSUME NEW t \in Threads, At(t, "user"), NEW want \in Wants,
             FindHandle(t, stack, want), MayAdd
      PROVE  Bounded' /\ [Pool!Next]_(Pool!vars)
  <2>1. stack \in Stacks(Frames) /\ Last(stack[t]).at = "user"
    BY <1>3, Acting DEF At
  <2>2. Filled(t, stack) \/ Found(t, stack)
    BY <1>3, CallEffect
  <2>3. Room(Marks(stack, {"full"}), DOMAIN jobs)
    BY <1>3, AddedRoom
  <2> QED
    BY <1>2, <2>1, <2>2, <2>3, FilledPoolStep, FoundPoolStep
<1>4. ASSUME NEW t \in Threads, CallStep(t)
      PROVE  Bounded' /\ [Pool!Next]_(Pool!vars)
  <2>1. CASE FindFinish(t)
    BY <1>1, <2>1, FindFinishKeeps
  <2>2. CASE FindAgain(t)
    <3>1. /\ Top(t).at = "full" /\ Depth(stack, t) > 1 /\ Pop(stack, t) \in Stacks(Frames)
          /\ Last(Pop(stack, t)[t]).at = "user"
          /\ Filled(t, Pop(stack, t)) \/ Found(t, Pop(stack, t))
      BY <2>2, AgainEffect
    <3>2. Room(Marks(Pop(stack, t), {"full"}), DOMAIN jobs)
      BY <3>1, AgainRoom
    <3> QED
      BY <1>2, <3>1, <3>2, FilledPoolStep, FoundPoolStep
  <2>3. CASE AddSignal(t)
    BY <2>3, SignalPoolStep
  <2>4. CASE WorkerTest(t) \/ WorkerWake(t)
    <3>1. PICK at \in BaseKinds : stack' = SetTop(stack, t, [at |-> at, work |-> 0])
      BY <2>4 DEF WorkerTest, WorkerWake, BaseKinds
    <3>2. Top(t).at \in BaseKinds /\ UNCHANGED <<q, jobs>>
      BY <2>4 DEF WorkerTest, WorkerWake, BaseKinds, At
    <3>3. Keeps(t)
      BY <3>1, <3>2, WorkerKeeps
    <3> QED
      BY <3>3, KeepsPoolStep
  <2>5. CASE WorkerScan(t)
    BY <2>5, WorkerScanKeeps, KeepsPoolStep
  <2>6. CASE WaitDone(t) \/ WaitBlock(t) \/ WaitWoken(t)
    BY <1>1, <2>6, WaitingKeeps
  <2>7. CASE WaitTake(t)
    BY <1>1, <2>7, WaitTakeKeeps
  <2> QED
    BY <1>4, <2>1, <2>2, <2>3, <2>4, <2>5, <2>6, <2>7 DEF CallStep
<1>5. ASSUME NEW t \in Threads, UserStep(t)
      PROVE  Bounded' /\ [Pool!Next]_(Pool!vars)
  <2>1. ASSUME NEW prio \in UserPrios, NEW num \in SubCounts, Add(t, prio, num)
        PROVE  Bounded' /\ [Pool!Next]_(Pool!vars)
    <3>1. [group |-> FALSE, prio |-> prio, num |-> num] \in Wants
      BY DEF Wants
    <3> QED
      BY <1>3, <2>1, <3>1 DEF Add
  <2>2. CASE GroupBegin(t)
    <3>1. [group |-> TRUE, prio |-> GroupPrio, num |-> 1] \in Wants
      BY DEF Wants
    <3> QED
      BY <1>3, <2>2, <3>1 DEF GroupBegin
  <2>3. CASE GroupEnd(t)
    BY <1>1, <2>3, GroupEndKeeps
  <2>4. CASE UserReturn(t)
    BY <1>1, <2>4, UserReturnKeeps
  <2>5. ASSUME NEW h \in DOMAIN jobs, NEW k \in WaitKinds, Wait(t, h, k)
        PROVE  Bounded' /\ [Pool!Next]_(Pool!vars)
    BY <1>1, <2>5, WaitCallKeeps
  <2> QED
    BY <1>5, <2>1, <2>2, <2>3, <2>4, <2>5 DEF UserStep
<1>6. ASSUME NEW t \in Threads, SpuriousWake(t)
      PROVE  Bounded' /\ [Pool!Next]_(Pool!vars)
  BY <1>1, <1>6, WaitingKeeps
<1>7. CASE MainStep \/ \E stop \in BOOLEAN : WaitAll(stop)
  <2>1. Main \in Threads
    BY DEF Threads
  <2> QED
    BY <1>7, <2>1, MainKeeps, KeepsPoolStep
<1>8. CASE Stopped \/ UNCHANGED vars
  <2>1. q' = q /\ stack' = stack /\ jobs' = jobs
    BY <1>8 DEF Stopped, vars
  <2> QED
    BY <2>1 DEF Bounded, Calls, Pool!vars
<1> QED
  BY <1>4, <1>5, <1>6, <1>7, <1>8 DEF Next

\* Before the first call the pool is that of JobPool, with no handle issued.
LEMMA InitPool ==
  ASSUME Init
  PROVE  Bounded /\ Pool!Init
<1>1. /\ q = EmptyPool /\ jobs = << >>
      /\ stack = [t \in Threads |-> <<StartFrame(t)>>]
  BY DEF Init, StartFrame
<1>2. DOMAIN jobs = {}
  BY <1>1
<1>3. Calls = {}
  <2>1. \A x \in Positions(stack) : On(stack, x).at \in {"user", "test"}
    BY <1>1, InitStacks
  <2> QED
    BY <2>1 DEF Calls, Marks
<1>4. IsFiniteSet({}) /\ Cardinality({}) = 0 /\ MaxAdds \in Nat /\ MaxJobs \in Nat
  BY FS_EmptySet, ClientAssumption, MaxJobsAssumption
<1>5. EmptyPool.nNextHandle = 1
  BY EmptyPoolInv
<1>6. Bounded
  BY <1>1, <1>2, <1>3, <1>4, <1>5 DEF Bounded, NextBelow
<1>7. Pool!Init
  BY <1>1, <1>2 DEF Pool!Init, EmptyPool, Pool!Slots, Slots
<1> QED
  BY <1>6, <1>7

\* The queue, with its threads, implements JobPool: every critical section
\* does to the slots what one step of the pool does.
THEOREM ImplementsPool == Spec => PoolSpec
<1>1. Init => IInv /\ Bounded /\ Pool!Init
  BY InitInv, InitPool
<1>2. IInv /\ Bounded /\ [Next]_vars => IInv' /\ Bounded' /\ [Pool!Next]_(Pool!vars)
  BY NextInv, NextPool
<1> QED
  BY <1>1, <1>2, PTL DEF Spec, PoolSpec, Pool!Spec

-----------------------------------------------------------------------------
(* Enough workers are awake *)

\* The count of a signal is clamped to the number of workers.
Clamp(n) == Min({n, NumWorkers})

\* It is the smaller one.
LEMMA ClampFacts ==
  ASSUME NEW n \in Nat
  PROVE  /\ Clamp(n) \in Nat /\ Clamp(n) <= n /\ Clamp(n) <= NumWorkers
         /\ Clamp(n) = n \/ Clamp(n) = NumWorkers
<1>1. {n, NumWorkers} \in SUBSET Nat /\ {n, NumWorkers} # {}
  BY WorkersFinite
<1>2. /\ Min({n, NumWorkers}) \in {n, NumWorkers}
      /\ \A k \in {n, NumWorkers} : Min({n, NumWorkers}) <= k
  BY <1>1, LeastNatural
<1> QED
  BY <1>1, <1>2 DEF Clamp

\* c things that belong to x.
Tally(x, c) == {x} \X (1 .. c)

\* There are c of them.
LEMMA TallyAdd ==
  ASSUME NEW A, IsFiniteSet(A), NEW x, NEW c \in Nat, A \cap Tally(x, c) = {}
  PROVE  /\ IsFiniteSet(A \cup Tally(x, c))
         /\ Cardinality(A \cup Tally(x, c)) = Cardinality(A) + c
<1>1. IsFiniteSet(1 .. c) /\ Cardinality(1 .. c) = c
  BY FS_Interval
<1>2. IsFiniteSet({x}) /\ Cardinality({x}) = 1
  BY FS_Singleton
<1>3. IsFiniteSet(Tally(x, c)) /\ Cardinality(Tally(x, c)) = c
  <2>1. PICK B, C : B = {x} /\ C = 1 .. c
    OBVIOUS
  <2>2. IsFiniteSet(B \X C) /\ Cardinality(B \X C) = Cardinality(B) * Cardinality(C)
    BY <1>1, <1>2, <2>1, FS_Product
  <2>3. Cardinality(B) * Cardinality(C) = c
    BY <1>1, <1>2, <2>1
  <2> QED
    BY <2>1, <2>2, <2>3 DEF Tally
<1>4. /\ IsFiniteSet(A \cup Tally(x, c))
      /\ Cardinality(A \cup Tally(x, c))
           = Cardinality(A) + Cardinality(Tally(x, c)) - Cardinality(A \cap Tally(x, c))
  BY <1>3, FS_Union
<1>5. Cardinality({}) = 0 /\ Cardinality(A) \in Nat
  BY FS_EmptySet, FS_CardinalityType
<1>6. Cardinality(A \cap Tally(x, c)) = 0
  BY <1>5
<1> QED
  BY <1>3, <1>4, <1>5, <1>6

\* They can be taken away.
LEMMA TallyDrop ==
  ASSUME NEW A, IsFiniteSet(A), NEW x, NEW c \in Nat, Tally(x, c) \subseteq A
  PROVE  /\ IsFiniteSet(A \ Tally(x, c))
         /\ Cardinality(A) = Cardinality(A \ Tally(x, c)) + c
<1> DEFINE B == A \ Tally(x, c)
<1>1. IsFiniteSet(B)
  BY FS_Subset
<1>2. B \cap Tally(x, c) = {} /\ B \cup Tally(x, c) = A
  OBVIOUS
<1> HIDE DEF B
<1>3. Cardinality(B \cup Tally(x, c)) = Cardinality(B) + c
  BY <1>1, <1>2, TallyAdd
<1> QED
  BY <1>1, <1>2, <1>3 DEF B

\* Sets of pairs are compared by pairs.
LEMMA PairsWithin ==
  ASSUME NEW A, NEW B, \A y \in A : \E x, k : y = <<x, k>>,
         \A x, k : <<x, k>> \in A => <<x, k>> \in B
  PROVE  A \subseteq B
<1> SUFFICES ASSUME NEW y \in A PROVE y \in B
  OBVIOUS
<1>1. PICK x, k : y = <<x, k>>
  OBVIOUS
<1>2. <<x, k>> \in A => <<x, k>> \in B
  OBVIOUS
<1> QED
  BY <1>1, <1>2

\* The signals that are still to be sent, and the sub-jobs that nobody has
\* taken.
SigOf(st) == {y \in Marks(st, {"signal"}) \X Nat : 1 <= y[2] /\ y[2] <= Clamp(On(st, y[1]).num)}
LeftOf(p) == {y \in Slots \X Nat : p.nNumStarted[y[1]] < y[2] /\ y[2] <= p.nNumJobs[y[1]]}

\* A frame that is about to signal stands for the signals it will send.
Sends(f) == IF f.at = "signal" THEN Clamp(f.num) ELSE 0

\* Where nothing changes they are the same.
LEMMA SigStill ==
  ASSUME NEW st, NEW r, Still(st, r)
  PROVE  SigOf(r) = SigOf(st)
BY DEF SigOf, Still

\* A new frame adds its signals.
LEMMA SigPush ==
  ASSUME NEW st \in Stacks(Frames), NEW t \in Threads, NEW f \in Frames, NEW n, n = Depth(st, t)
  PROVE  /\ SigOf(Push(st, t, f)) = SigOf(st) \cup Tally(<<t, n + 1>>, Sends(f))
         /\ SigOf(st) \cap Tally(<<t, n + 1>>, Sends(f)) = {}
         /\ Sends(f) \in Nat
<1> DEFINE r == Push(st, t, f)
           z == <<t, n + 1>>
           A == Marks(st, {"signal"})
           B == Marks(r, {"signal"})
<1>1. /\ B = A \cup (IF f.at \in {"signal"} THEN {z} ELSE {})
      /\ z \notin A
  <2>1. Followed(st, t, f, {"signal"}, n)
    BY MarksFollow
  <2> QED
    BY <2>1 DEF Followed
<1>2. r \in Stacks(Frames) /\ Pushed(st, r, t, f)
  BY StackFacts
<1>3. /\ Above(st, r, t, n) /\ Positions(st) = Below(st, t, n) /\ On(r, z) = f /\ n \in Nat
  <2> HIDE DEF r
  <2> QED
    BY <1>2, PushAbove
<1>4. \A x \in A : On(r, x) = On(st, x)
  <2> SUFFICES ASSUME NEW x \in A PROVE On(r, x) = On(st, x)
    OBVIOUS
  <2>1. x \in Below(st, t, n)
    BY <1>3 DEF Marks
  <2>2. Above(st, r, t, n) /\ n \in Nat
    BY <1>3
  <2> HIDE DEF r, A
  <2>3. x \in Positions(st) /\ x \in Positions(r) /\ On(r, x) = On(st, x)
    BY <2>1, <2>2, AboveKeeps
  <2> QED
    BY <2>3
<1>5. Sends(f) \in Nat
  <2>1. f.at = "signal" => f.num \in Nat
    BY FrameFacts, ClientFacts
  <2> QED
    BY <2>1, ClampFacts DEF Sends
<1> HIDE DEF r, A, B, z
<1>6. SigOf(st) \cap Tally(z, Sends(f)) = {}
  BY <1>1 DEF SigOf, Tally, A
<1>7. ASSUME NEW x, NEW k
      PROVE  <<x, k>> \in SigOf(r) <=> <<x, k>> \in SigOf(st) \/ <<x, k>> \in Tally(z, Sends(f))
  <2>1. <<x, k>> \in SigOf(r) <=> x \in B /\ k \in Nat /\ 1 <= k /\ k <= Clamp(On(r, x).num)
    BY DEF SigOf, B
  <2>2. <<x, k>> \in SigOf(st) <=> x \in A /\ k \in Nat /\ 1 <= k /\ k <= Clamp(On(st, x).num)
    BY DEF SigOf, A
  <2>3. <<x, k>> \in Tally(z, Sends(f)) <=> x = z /\ k \in 1 .. Sends(f)
    BY DEF Tally
  <2>4. CASE x \in A
    BY <1>1, <1>4, <2>1, <2>2, <2>3, <2>4
  <2>5. CASE x \notin A /\ x # z
    BY <1>1, <2>1, <2>2, <2>3, <2>5
  <2>6. CASE x = z
    <3>1. x \in B <=> f.at = "signal"
      BY <1>1, <2>6
    <3>2. k \in 1 .. Sends(f) <=> k \in Nat /\ 1 <= k /\ k <= Sends(f)
      BY <1>5
    <3>3. CASE f.at = "signal"
      <4>1. Clamp(On(r, x).num) = Sends(f)
        BY <1>3, <2>6, <3>3 DEF Sends
      <4> QED
        BY <1>1, <2>1, <2>2, <2>3, <2>6, <3>1, <3>2, <3>3, <4>1
    <3>4. CASE f.at # "signal"
      <4>1. Sends(f) = 0
        BY <3>4 DEF Sends
      <4> QED
        BY <1>1, <2>1, <2>2, <2>3, <2>6, <3>1, <3>2, <3>4, <4>1
    <3> QED
      BY <3>3, <3>4
  <2> QED
    BY <2>4, <2>5, <2>6
<1>8. SigOf(r) = SigOf(st) \cup Tally(z, Sends(f))
  <2>1. /\ \A y \in SigOf(r) : \E x, k : y = <<x, k>>
        /\ \A y \in SigOf(st) \cup Tally(z, Sends(f)) : \E x, k : y = <<x, k>>
    BY DEF SigOf, Tally
  <2> DEFINE C == SigOf(st) \cup Tally(z, Sends(f))
  <2>2. \A x, k : <<x, k>> \in SigOf(r) <=> <<x, k>> \in C
    BY <1>7
  <2>3. \A y \in C : \E x, k : y = <<x, k>>
    BY <2>1
  <2> HIDE DEF C
  <2>4. SigOf(r) \subseteq C
    BY <2>1, <2>2, PairsWithin
  <2>5. C \subseteq SigOf(r)
    BY <2>2, <2>3, PairsWithin
  <2> QED
    BY <2>4, <2>5 DEF C
<1> QED
  BY <1>5, <1>6, <1>8 DEF r, z

\* A frame that goes takes its signals with it.
LEMMA SigPop ==
  ASSUME NEW st \in Stacks(Frames), NEW t \in Threads, NEW n, n = Depth(st, t), n > 1,
         NEW f, f = Last(st[t])
  PROVE  /\ SigOf(Pop(st, t)) = SigOf(st) \ Tally(<<t, n>>, Sends(f))
         /\ Tally(<<t, n>>, Sends(f)) \subseteq SigOf(st)
         /\ Sends(f) \in Nat
<1> DEFINE r == Pop(st, t)
           z == <<t, n>>
           A == Marks(st, {"signal"})
           B == Marks(r, {"signal"})
<1>1. [at |-> "join"] \in Frames
  BY DEF Frames, FrameOf
<1>2. /\ r \in Stacks(Frames) /\ Popped(st, r, t) /\ n \in Nat \ {0} /\ f = st[t][n]
  BY <1>1, StackFacts
<1>3. f \in Frames
  <2>1. st[t] \in Seq(Frames) /\ Len(st[t]) >= 1
    BY DEF Stacks
  <2>2. PICK g \in Frames : TRUE
    BY <1>1
  <2> QED
    BY <2>1, <2>2, TopFacts
<1>4. /\ B = A \ {z}
      /\ z \in A <=> f.at \in {"signal"}
  <2>1. Followed(st, t, f, {"signal"}, n)
    BY <1>3, MarksFollow
  <2> QED
    BY <2>1 DEF Followed
<1>5. /\ Above(st, r, t, n - 1) /\ Positions(st) = Below(st, t, n - 1) \cup {z} /\ n - 1 \in Nat
  <2> HIDE DEF r
  <2>1. /\ Above(st, r, t, Depth(st, t) - 1)
        /\ Positions(st) = Below(st, t, Depth(st, t) - 1) \cup {<<t, Depth(st, t)>>}
    BY <1>2, PopAbove
  <2> QED
    BY <1>2, <2>1
<1>6. \A x \in A : x # z => On(r, x) = On(st, x)
  <2> SUFFICES ASSUME NEW x \in A, x # z PROVE On(r, x) = On(st, x)
    OBVIOUS
  <2>1. x \in Below(st, t, n - 1)
    BY <1>5 DEF Marks
  <2>2. Above(st, r, t, n - 1) /\ n - 1 \in Nat
    BY <1>5
  <2> HIDE DEF r, A, z
  <2>3. x \in Positions(st) /\ x \in Positions(r) /\ On(r, x) = On(st, x)
    BY <2>1, <2>2, AboveKeeps
  <2> QED
    BY <2>3
<1>7. On(st, z) = f
  BY <1>2 DEF On
<1>8. Sends(f) \in Nat
  <2>1. f.at = "signal" => f.num \in Nat
    BY <1>3, FrameFacts, ClientFacts
  <2> QED
    BY <2>1, ClampFacts DEF Sends
<1> HIDE DEF r, A, B, z
<1>9. ASSUME NEW x, NEW k
      PROVE  /\ <<x, k>> \in SigOf(r) <=> <<x, k>> \in SigOf(st) /\ <<x, k>> \notin Tally(z, Sends(f))
             /\ <<x, k>> \in Tally(z, Sends(f)) => <<x, k>> \in SigOf(st)
  <2>1. <<x, k>> \in SigOf(r) <=> x \in B /\ k \in Nat /\ 1 <= k /\ k <= Clamp(On(r, x).num)
    BY DEF SigOf, B
  <2>2. <<x, k>> \in SigOf(st) <=> x \in A /\ k \in Nat /\ 1 <= k /\ k <= Clamp(On(st, x).num)
    BY DEF SigOf, A
  <2>3. <<x, k>> \in Tally(z, Sends(f)) <=> x = z /\ k \in 1 .. Sends(f)
    BY DEF Tally
  <2>4. CASE x # z
    BY <1>4, <1>6, <2>1, <2>2, <2>3, <2>4
  <2>5. CASE x = z
    <3>1. x \notin B
      BY <1>4, <2>5
    <3>2. k \in 1 .. Sends(f) <=> k \in Nat /\ 1 <= k /\ k <= Sends(f)
      BY <1>8
    <3>3. CASE f.at = "signal"
      <4>1. Clamp(On(st, x).num) = Sends(f) /\ x \in A
        BY <1>4, <1>7, <2>5, <3>3 DEF Sends
      <4> QED
        BY <2>1, <2>2, <2>3, <2>5, <3>1, <3>2, <4>1
    <3>4. CASE f.at # "signal"
      <4>1. Sends(f) = 0 /\ x \notin A
        BY <1>4, <2>5, <3>4 DEF Sends
      <4> QED
        BY <2>1, <2>2, <2>3, <2>5, <3>1, <3>2, <4>1
    <3> QED
      BY <3>3, <3>4
  <2> QED
    BY <2>4, <2>5
<1>10. SigOf(r) = SigOf(st) \ Tally(z, Sends(f)) /\ Tally(z, Sends(f)) \subseteq SigOf(st)
  <2>1. /\ \A y \in SigOf(r) : \E x, k : y = <<x, k>>
        /\ \A y \in SigOf(st) : \E x, k : y = <<x, k>>
        /\ \A y \in Tally(z, Sends(f)) : \E x, k : y = <<x, k>>
    BY DEF SigOf, Tally
  <2> DEFINE C == SigOf(st) \ Tally(z, Sends(f))
  <2>2. \A x, k : <<x, k>> \in SigOf(r) <=> <<x, k>> \in C
    BY <1>9
  <2>3. \A y \in C : \E x, k : y = <<x, k>>
    BY <2>1
  <2>4. \A x, k : <<x, k>> \in Tally(z, Sends(f)) => <<x, k>> \in SigOf(st)
    BY <1>9
  <2> HIDE DEF C
  <2>5. SigOf(r) \subseteq C
    BY <2>1, <2>2, PairsWithin
  <2>6. C \subseteq SigOf(r)
    BY <2>2, <2>3, PairsWithin
  <2>7. Tally(z, Sends(f)) \subseteq SigOf(st)
    BY <2>1, <2>4, PairsWithin
  <2> QED
    BY <2>5, <2>6, <2>7 DEF C
<1> QED
  BY <1>8, <1>10 DEF r, z

-----------------------------------------------------------------------------
(* The workers, the sub-jobs that are left and the signals *)

\* The workers that are about to look for work, and those that sleep.
LookAt(st) ==
  {w \in Workers : \/ Last(st[w]).at = "test"
                   \/ Last(st[w]).at = "scan" /\ Last(st[w]).work = 0}
SleepAt(st) == {w \in Workers : Last(st[w]).at = "sleep"}

\* There are no more of them than workers.
LEMMA WorkerSets ==
  ASSUME NEW st
  PROVE  /\ IsFiniteSet(LookAt(st)) /\ Cardinality(LookAt(st)) \in Nat
         /\ IsFiniteSet(SleepAt(st)) /\ Cardinality(SleepAt(st)) \in Nat
         /\ Cardinality(SleepAt(st)) <= NumWorkers
<1>1. LookAt(st) \subseteq Workers /\ SleepAt(st) \subseteq Workers /\ IsFiniteSet(Workers)
  BY ThreadsAssumption DEF LookAt, SleepAt
<1>2. IsFiniteSet(LookAt(st)) /\ IsFiniteSet(SleepAt(st))
  BY <1>1, FS_Subset
<1>3. Cardinality(SleepAt(st)) <= Cardinality(Workers)
  BY <1>1, FS_Subset
<1> QED
  BY <1>2, <1>3, FS_CardinalityType DEF NumWorkers

\* A step of one thread changes them in that thread at most.
LEMMA WorkersBut ==
  ASSUME NEW st, NEW r, NEW t \in Threads, Others(st, r, t)
  PROVE  LookAt(r) \ {t} = LookAt(st) \ {t} /\ SleepAt(r) \ {t} = SleepAt(st) \ {t}
<1>1. ASSUME NEW w \in Workers, w # t
      PROVE  /\ w \in LookAt(r) <=> w \in LookAt(st)
             /\ w \in SleepAt(r) <=> w \in SleepAt(st)
  <2>1. r[w] = st[w] \/ (Last(st[w]).at = "blocked" /\ Last(r[w]).at = "woken")
    BY <1>1 DEF Others, Threads
  <2> QED
    BY <2>1 DEF LookAt, SleepAt
<1>2. /\ LookAt(r) \subseteq Workers /\ LookAt(st) \subseteq Workers
      /\ SleepAt(r) \subseteq Workers /\ SleepAt(st) \subseteq Workers
  BY DEF LookAt, SleepAt
<1> QED
  BY <1>1, <1>2

\* A step of the main thread, or of a thread that is busy before and after.
LEMMA SameWorkers ==
  ASSUME NEW st, NEW r, NEW t \in Threads, Others(st, r, t),
         t # Main => Busy(Last(st[t])) /\ Busy(Last(r[t]))
  PROVE  LookAt(r) = LookAt(st) /\ SleepAt(r) = SleepAt(st)
<1>1. Main \notin Workers
  BY ThreadsAssumption
<1>2. t \notin LookAt(st) /\ t \notin LookAt(r) /\ t \notin SleepAt(st) /\ t \notin SleepAt(r)
  BY <1>1 DEF LookAt, SleepAt, Busy
<1>3. LookAt(r) \ {t} = LookAt(st) \ {t} /\ SleepAt(r) \ {t} = SleepAt(st) \ {t}
  BY WorkersBut
<1> QED
  BY <1>2, <1>3

\* Only a worker has the loop of a worker on top.
LEMMA LoopIsWorker ==
  ASSUME IInv, NEW t \in Threads, Top(t).at \in BaseKinds
  PROVE  t \in Workers /\ t # Main
<1>1. Level(stack, t, Depth(stack, t)) /\ Top(t) = stack[t][Depth(stack, t)]
  BY TopFrame, Acting DEF IInv
<1>2. t # Main
  BY <1>1 DEF Level, BaseKinds, CallKinds, WaitFrames, MainKinds
<1> QED
  BY <1>2 DEF Threads

\* Jq2IncrementFinished leaves the sub-jobs alone that are not started.
LEMMA AfterWorkCounts ==
  ASSUME PoolInv(q), NEW w \in Slots \cup {0},
         w # 0 => q.num_finished_jobs[w] < q.nNumStarted[w]
  PROVE  AfterWork(w).nNumStarted = q.nNumStarted /\ AfterWork(w).nNumJobs = q.nNumJobs
<1>1. CASE w = 0
  BY <1>1 DEF AfterWork
<1>2. CASE w # 0
  <2>1. Finishes(q, AfterWork(w), w, CheckFinished(Ended(q, w), w))
    BY <1>2, FinishedInv DEF AfterWork
  <2> QED
    BY <2>1 DEF Finishes
<1> QED
  BY <1>1, <1>2

\* A critical section takes what it starts.
LEMMA LeftMoved ==
  ASSUME PoolInv(q), NEW w \in Slots \cup {0}, NEW v \in Slots \cup {0}, Moved(w, v)
  PROVE  /\ v = 0 => LeftOf(q') = LeftOf(q)
         /\ v # 0 => LeftOf(q') = LeftOf(q) \ {<<v, q.nNumStarted[v] + 1>>}
                     /\ <<v, q.nNumStarted[v] + 1>> \in LeftOf(q)
<1>1. AfterWork(w).nNumStarted = q.nNumStarted /\ AfterWork(w).nNumJobs = q.nNumJobs
  BY AfterWorkCounts DEF Moved
<1>2. CASE v = 0
  <2>1. q'.nNumStarted = q.nNumStarted /\ q'.nNumJobs = q.nNumJobs
    BY <1>1, <1>2 DEF Moved, SamePool
  <2> QED
    BY <1>2, <2>1 DEF LeftOf
<1>3. CASE v # 0
  <2> DEFINE c == q.nNumStarted
             m == q.nNumJobs
  <2>1. /\ q'.nNumStarted = [c EXCEPT ![v] = @ + 1] /\ q'.nNumJobs = m
        /\ c[v] < m[v] /\ v \in Slots
    BY <1>1, <1>3 DEF Moved, Starts, Startable
  <2>2. c \in [Slots -> Nat] /\ m \in [Slots -> Nat]
    BY PoolTypes DEF PoolInv
  <2>3. c[v] \in Nat /\ c[v] + 1 \in Nat /\ c[v] + 1 <= m[v]
    BY <2>1, <2>2
  <2>4. ASSUME NEW x, NEW k
        PROVE  <<x, k>> \in LeftOf(q') <=> <<x, k>> \in LeftOf(q) /\ <<x, k>> # <<v, c[v] + 1>>
    <3>1. <<x, k>> \in LeftOf(q') <=> x \in Slots /\ k \in Nat /\ q'.nNumStarted[x] < k /\ k <= m[x]
      BY <2>1 DEF LeftOf
    <3>2. <<x, k>> \in LeftOf(q) <=> x \in Slots /\ k \in Nat /\ c[x] < k /\ k <= m[x]
      BY DEF LeftOf
    <3>3. x \in Slots => q'.nNumStarted[x] = IF x = v THEN c[v] + 1 ELSE c[x]
      BY <2>1, <2>2
    <3>4. <<x, k>> # <<v, c[v] + 1>> <=> x # v \/ k # c[v] + 1
      OBVIOUS
    <3> HIDE DEF c, m
    <3>5. CASE x \in Slots /\ x # v
      BY <3>1, <3>2, <3>3, <3>4, <3>5
    <3>6. CASE x = v
      <4>1. k \in Nat => (c[v] + 1 < k <=> c[v] < k /\ k # c[v] + 1)
        BY <2>3
      <4> QED
        BY <2>1, <3>1, <3>2, <3>3, <3>4, <3>6, <4>1
    <3> QED
      BY <3>1, <3>2, <3>5, <3>6
  <2>5. <<v, c[v] + 1>> \in LeftOf(q)
    BY <2>1, <2>2, <2>3 DEF LeftOf
  <2> DEFINE C == LeftOf(q) \ {<<v, c[v] + 1>>}
  <2>6. \A x, k : <<x, k>> \in LeftOf(q') <=> <<x, k>> \in C
    BY <2>4
  <2>7. /\ \A y \in LeftOf(q') : \E x, k : y = <<x, k>>
        /\ \A y \in C : \E x, k : y = <<x, k>>
    BY DEF LeftOf
  <2> HIDE DEF C
  <2>8. LeftOf(q') \subseteq C
    BY <2>6, <2>7, PairsWithin
  <2>9. C \subseteq LeftOf(q')
    BY <2>6, <2>7, PairsWithin
  <2> QED
    BY <1>3, <2>5, <2>8, <2>9 DEF C, c
<1> QED
  BY <1>2, <1>3

\* A job adds its sub-jobs; that of a group is started already.
LEMMA LeftIssued ==
  ASSUME PoolInv(q), NEW s \in Slots, ~PendingJobs(q, s), NEW h, NEW par,
         NEW n \in Nat, NEW k \in {0, 1}, k = 1 => n = 1, Issues(q, q', h, s, n, k, par)
  PROVE  /\ k = 1 => LeftOf(q') = LeftOf(q)
         /\ k = 0 => LeftOf(q') = LeftOf(q) \cup Tally(s, n)
         /\ LeftOf(q) \cap Tally(s, n) = {}
<1> DEFINE c == q.nNumStarted
           m == q.nNumJobs
<1>1. q'.nNumStarted = [c EXCEPT ![s] = k] /\ q'.nNumJobs = [m EXCEPT ![s] = n]
  BY DEF Issues
<1>2. c \in [Slots -> Nat] /\ m \in [Slots -> Nat]
  BY PoolTypes DEF PoolInv
<1>3. m[s] <= c[s]
  <2>1. ~Startable(q, s)
    BY BusyIsPending
  <2> QED
    BY <1>2, <2>1 DEF Startable
<1>4. ASSUME NEW x, NEW j
      PROVE  /\ x # s => (<<x, j>> \in LeftOf(q') <=> <<x, j>> \in LeftOf(q))
             /\ <<s, j>> \in LeftOf(q') <=> j \in Nat /\ k < j /\ j <= n
             /\ <<s, j>> \notin LeftOf(q)
             /\ <<x, j>> \in Tally(s, n) <=> x = s /\ j \in 1 .. n
  <2>1. <<s, j>> \notin LeftOf(q)
    <3>1. j \in Nat => ~(c[s] < j /\ j <= m[s])
      BY <1>2, <1>3
    <3> QED
      BY <3>1 DEF LeftOf
  <2>2. x # s /\ x \in Slots => q'.nNumStarted[x] = c[x] /\ q'.nNumJobs[x] = m[x]
    BY <1>1, <1>2
  <2>3. q'.nNumStarted[s] = k /\ q'.nNumJobs[s] = n
    BY <1>1, <1>2
  <2> QED
    BY <2>1, <2>2, <2>3 DEF LeftOf, Tally
<1>5. /\ \A y \in LeftOf(q') : \E x, j : y = <<x, j>>
      /\ \A y \in LeftOf(q) : \E x, j : y = <<x, j>>
      /\ \A y \in LeftOf(q) \cup Tally(s, n) : \E x, j : y = <<x, j>>
      /\ \A y \in LeftOf(q) \cap Tally(s, n) : \E x, j : y = <<x, j>>
  BY DEF LeftOf, Tally
<1> HIDE DEF c, m
<1>6. ASSUME k = 1 PROVE LeftOf(q') = LeftOf(q)
  <2>1. ASSUME NEW x, NEW j PROVE <<x, j>> \in LeftOf(q') <=> <<x, j>> \in LeftOf(q)
    <3>1. ~(j \in Nat /\ k < j /\ j <= n)
      BY <1>6
    <3>2. CASE x = s
      BY <1>4, <3>1, <3>2
    <3>3. CASE x # s
      BY <1>4, <3>3
    <3> QED
      BY <3>2, <3>3
  <2>2. LeftOf(q') \subseteq LeftOf(q)
    BY <1>5, <2>1, PairsWithin
  <2>3. LeftOf(q) \subseteq LeftOf(q')
    BY <1>5, <2>1, PairsWithin
  <2> QED
    BY <2>2, <2>3
<1>7. ASSUME k = 0 PROVE LeftOf(q') = LeftOf(q) \cup Tally(s, n)
  <2> DEFINE C == LeftOf(q) \cup Tally(s, n)
  <2>1. ASSUME NEW x, NEW j PROVE <<x, j>> \in LeftOf(q') <=> <<x, j>> \in C
    <3>1. j \in 1 .. n <=> j \in Nat /\ 0 < j /\ j <= n
      OBVIOUS
    <3> QED
      BY <1>4, <1>7, <3>1
  <2> HIDE DEF C
  <2>2. LeftOf(q') \subseteq C
    BY <1>5, <2>1, PairsWithin
  <2>3. C \subseteq LeftOf(q')
    BY <1>5, <2>1, PairsWithin DEF C
  <2> QED
    BY <2>2, <2>3 DEF C
<1>8. LeftOf(q) \cap Tally(s, n) = {}
  <2> SUFFICES ASSUME NEW y \in LeftOf(q) \cap Tally(s, n) PROVE FALSE
    OBVIOUS
  <2>1. PICK x, j : y = <<x, j>>
    BY <1>5
  <2>2. <<x, j>> \in LeftOf(q) /\ <<x, j>> \in Tally(s, n)
    BY <2>1
  <2>3. x = s
    BY <1>4, <2>2
  <2> QED
    BY <1>4, <2>2, <2>3
<1> QED
  BY <1>6, <1>7, <1>8

-----------------------------------------------------------------------------
(* The signals suffice *)

\* With s signals in the semaphore, workers K that look for work, Z that sleep
\* and signals G that are to be sent, the sub-jobs L that are left are all
\* taken care of, or every worker that sleeps is woken.
Suffice(s, K, Z, G, L) ==
  /\ IsFiniteSet(G) /\ IsFiniteSet(L)
  /\ \/ s + Cardinality(K) + Cardinality(G) >= Cardinality(L)
     \/ s + Cardinality(G) >= Cardinality(Z)

\* So it is at all times until the workers are told to stop.
Served ==
  nStop = 0 => Suffice(sem, LookAt(stack), SleepAt(stack), SigOf(stack), LeftOf(q))

\* Less may be left.
LEMMA SufficeLess ==
  ASSUME NEW s \in Nat, NEW K, Cardinality(K) \in Nat, NEW Z, NEW G, NEW L,
         Suffice(s, K, Z, G, L), NEW M \in SUBSET L
  PROVE  Suffice(s, K, Z, G, M)
<1>1. IsFiniteSet(G) /\ IsFiniteSet(L)
  BY DEF Suffice
<1>2. IsFiniteSet(M) /\ Cardinality(M) <= Cardinality(L)
  BY <1>1, FS_Subset
<1>3. Cardinality(G) \in Nat /\ Cardinality(L) \in Nat /\ Cardinality(M) \in Nat
  BY <1>1, <1>2, FS_CardinalityType
<1> QED
  BY <1>1, <1>2, <1>3 DEF Suffice

\* A job of n sub-jobs comes with its signal.
LEMMA SufficeAdd ==
  ASSUME NEW s \in Nat, NEW K, Cardinality(K) \in Nat,
         NEW Z, Cardinality(Z) \in Nat, Cardinality(Z) <= NumWorkers,
         NEW G, NEW L, Suffice(s, K, Z, G, L), NEW n \in Nat, NEW x, NEW z,
         L \cap Tally(x, n) = {}, G \cap Tally(z, Clamp(n)) = {}
  PROVE  Suffice(s, K, Z, G \cup Tally(z, Clamp(n)), L \cup Tally(x, n))
<1>1. IsFiniteSet(G) /\ IsFiniteSet(L)
  BY DEF Suffice
<1>2. /\ Clamp(n) \in Nat /\ Clamp(n) <= NumWorkers
      /\ Clamp(n) = n \/ Clamp(n) = NumWorkers
  BY ClampFacts
<1> DEFINE H == G \cup Tally(z, Clamp(n))
           M == L \cup Tally(x, n)
<1>3. IsFiniteSet(H) /\ Cardinality(H) = Cardinality(G) + Clamp(n)
  BY <1>1, <1>2, TallyAdd
<1>4. IsFiniteSet(M) /\ Cardinality(M) = Cardinality(L) + n
  BY <1>1, TallyAdd
<1>5. Cardinality(G) \in Nat /\ Cardinality(L) \in Nat /\ NumWorkers \in Nat
  BY <1>1, FS_CardinalityType, WorkersFinite
<1> HIDE DEF H, M
<1>6. \/ s + Cardinality(K) + Cardinality(G) >= Cardinality(L)
      \/ s + Cardinality(G) >= Cardinality(Z)
  BY DEF Suffice
<1>7. CASE Clamp(n) = n
  BY <1>2, <1>3, <1>4, <1>5, <1>6, <1>7 DEF Suffice, H, M
<1>8. CASE Clamp(n) = NumWorkers
  <2>1. s + Cardinality(H) >= Cardinality(Z)
    BY <1>2, <1>3, <1>5, <1>8
  <2> QED
    BY <1>3, <1>4, <2>1 DEF Suffice, H, M
<1> QED
  BY <1>2, <1>7, <1>8

\* A signal is sent, or refused by a semaphore that has enough for everyone.
LEMMA SufficeSend ==
  ASSUME NEW s \in Nat, NEW K, Cardinality(K) \in Nat,
         NEW Z, Cardinality(Z) \in Nat, Cardinality(Z) <= NumWorkers,
         NEW G, NEW L, Suffice(s, K, Z, G, L), NEW n \in Nat, NEW z,
         Tally(z, Clamp(n)) \subseteq G, NEW r,
         r = IF s + Clamp(n) > 2 * NumWorkers THEN s ELSE s + Clamp(n)
  PROVE  Suffice(r, K, Z, G \ Tally(z, Clamp(n)), L)
<1>1. IsFiniteSet(G) /\ IsFiniteSet(L)
  BY DEF Suffice
<1>2. Clamp(n) \in Nat /\ Clamp(n) <= NumWorkers
  BY ClampFacts
<1> DEFINE H == G \ Tally(z, Clamp(n))
<1>3. IsFiniteSet(H) /\ Cardinality(G) = Cardinality(H) + Clamp(n)
  BY <1>1, <1>2, TallyDrop
<1> HIDE DEF H
<1>4. /\ Cardinality(G) \in Nat /\ Cardinality(H) \in Nat /\ Cardinality(L) \in Nat
      /\ NumWorkers \in Nat
  BY <1>1, <1>3, FS_CardinalityType, WorkersFinite
<1>5. \/ s + Cardinality(K) + Cardinality(G) >= Cardinality(L)
      \/ s + Cardinality(G) >= Cardinality(Z)
  BY DEF Suffice
<1>6. CASE s + Clamp(n) > 2 * NumWorkers
  <2>1. r = s /\ s + Cardinality(H) >= Cardinality(Z)
    BY <1>2, <1>4, <1>6
  <2> QED
    BY <1>1, <1>3, <2>1 DEF Suffice, H
<1>7. CASE ~(s + Clamp(n) > 2 * NumWorkers)
  <2>1. r = s + Clamp(n)
    BY <1>7
  <2> QED
    BY <1>1, <1>2, <1>3, <1>4, <1>5, <2>1 DEF Suffice, H
<1> QED
  BY <1>6, <1>7

\* A worker that sleeps takes a signal and looks for work.
LEMMA SufficeWake ==
  ASSUME NEW s \in Nat, s > 0, NEW K, IsFiniteSet(K), NEW Z, IsFiniteSet(Z),
         NEW G, NEW L, Suffice(s, K, Z, G, L), NEW w, w \notin K, w \in Z
  PROVE  Suffice(s - 1, K \cup {w}, Z \ {w}, G, L)
<1>1. IsFiniteSet(G) /\ IsFiniteSet(L)
  BY DEF Suffice
<1>2. /\ Cardinality(K \cup {w}) = Cardinality(K) + 1
      /\ Cardinality(Z \ {w}) = Cardinality(Z) - 1
  BY FS_AddElement, FS_RemoveElement
<1>3. /\ Cardinality(G) \in Nat /\ Cardinality(L) \in Nat
      /\ Cardinality(K) \in Nat /\ Cardinality(Z) \in Nat
  BY <1>1, FS_CardinalityType
<1>4. \/ s + Cardinality(K) + Cardinality(G) >= Cardinality(L)
      \/ s + Cardinality(G) >= Cardinality(Z)
  BY DEF Suffice
<1> QED
  BY <1>1, <1>2, <1>3, <1>4 DEF Suffice

\* A worker that looks for work takes a sub-job.
LEMMA SufficeTake ==
  ASSUME NEW s \in Nat, NEW K, IsFiniteSet(K), NEW Z,
         NEW G, NEW L, Suffice(s, K, Z, G, L), NEW w, NEW x \in L
  PROVE  Suffice(s, K \ {w}, Z, G, L \ {x})
<1>1. IsFiniteSet(G) /\ IsFiniteSet(L)
  BY DEF Suffice
<1>2. IsFiniteSet(L \ {x}) /\ Cardinality(L \ {x}) = Cardinality(L) - 1
  BY <1>1, FS_RemoveElement
<1>3. Cardinality(K \ {w}) \in Nat /\ Cardinality(K) \in Nat /\ Cardinality(K \ {w}) >= Cardinality(K) - 1
  <2>1. CASE w \in K
    <3>1. IsFiniteSet(K \ {w}) /\ Cardinality(K \ {w}) = Cardinality(K) - 1
      BY <2>1, FS_RemoveElement
    <3>2. Cardinality(K) \in Nat /\ Cardinality(K \ {w}) \in Nat
      BY <3>1, FS_CardinalityType
    <3> QED
      BY <3>1, <3>2
  <2>2. CASE w \notin K
    <3>1. K \ {w} = K
      BY <2>2
    <3> QED
      BY <3>1, FS_CardinalityType
  <2> QED
    BY <2>1, <2>2
<1>4. Cardinality(G) \in Nat /\ Cardinality(L) \in Nat
  BY <1>1, FS_CardinalityType
<1>5. \/ s + Cardinality(K) + Cardinality(G) >= Cardinality(L)
      \/ s + Cardinality(G) >= Cardinality(Z)
  BY DEF Suffice
<1> QED
  BY <1>1, <1>2, <1>3, <1>4, <1>5 DEF Suffice

\* With nothing left any number of workers is enough.
LEMMA SufficeNone ==
  ASSUME NEW s \in Nat, NEW K, Cardinality(K) \in Nat, NEW Z, NEW G, IsFiniteSet(G)
  PROVE  Suffice(s, K, Z, G, {})
<1>1. IsFiniteSet({}) /\ Cardinality({}) = 0 /\ Cardinality(G) \in Nat
  BY FS_EmptySet, FS_CardinalityType
<1> QED
  BY <1>1 DEF Suffice

-----------------------------------------------------------------------------
(* The steps keep enough workers awake *)

\* The count of the semaphore and the sets of workers are numbers and finite.
LEMMA ServedFacts ==
  ASSUME IInv, NEW st
  PROVE  /\ sem \in Nat /\ PoolInv(q)
         /\ IsFiniteSet(LookAt(st)) /\ Cardinality(LookAt(st)) \in Nat
         /\ IsFiniteSet(SleepAt(st)) /\ Cardinality(SleepAt(st)) \in Nat
         /\ Cardinality(SleepAt(st)) <= NumWorkers
<1>1. sem \in 0 .. 2 * NumWorkers /\ PoolInv(q)
  BY DEF IInv, Inv
<1>2. sem \in Nat
  BY <1>1, WorkersFinite
<1> QED
  BY <1>1, <1>2, WorkerSets

\* A section that counts or starts a sub-job on a thread that is busy before
\* and after.
LEMMA MovedServed ==
  ASSUME IInv, Served, NEW w \in Slots \cup {0}, NEW v \in Slots \cup {0}, Moved(w, v),
         NEW t \in Threads, Others(stack, stack', t),
         t # Main => Busy(Last(stack[t])) /\ Busy(Last(stack'[t])),
         SigOf(stack') = SigOf(stack), UNCHANGED sem, UNCHANGED nStop
  PROVE  Served'
<1>1. LookAt(stack') = LookAt(stack) /\ SleepAt(stack') = SleepAt(stack)
  BY SameWorkers
<1>2. LeftOf(q') \subseteq LeftOf(q)
  <2>1. PoolInv(q)
    BY ServedFacts
  <2> QED
    BY <2>1, LeftMoved
<1>3. CASE nStop # 0
  BY <1>3 DEF Served
<1>4. CASE nStop = 0
  <2>1. Suffice(sem, LookAt(stack), SleepAt(stack), SigOf(stack), LeftOf(q))
    BY <1>4 DEF Served
  <2>2. Suffice(sem, LookAt(stack), SleepAt(stack), SigOf(stack), LeftOf(q'))
    BY <1>2, <2>1, ServedFacts, SufficeLess
  <2> QED
    BY <1>1, <2>2 DEF Served
<1> QED
  BY <1>3, <1>4

\* A step that leaves the signals alone.
LEMMA KeepsServed ==
  ASSUME IInv, Served, NEW t \in Threads, Keeps(t), UNCHANGED sem, UNCHANGED nStop,
         t # Main => Busy(Last(stack[t])) /\ Busy(Last(stack'[t]))
  PROVE  Served'
<1>1. PICK w \in Slots \cup {0}, v \in Slots \cup {0} : Moved(w, v)
  BY DEF Keeps
<1>2. SigOf(stack') = SigOf(stack) /\ Others(stack, stack', t)
  BY SigStill DEF Keeps
<1> QED
  BY <1>1, <1>2, MovedServed

\* A pass of the loop of Jq2FindHandle on a full pool.
LEMMA FilledServed ==
  ASSUME IInv, Served, NEW t \in Threads, NEW st \in Stacks(Frames), Filled(t, st),
         SigOf(st) = SigOf(stack), Others(stack, stack', t), UNCHANGED sem, UNCHANGED nStop,
         Busy(Last(stack[t])), Busy(Last(stack'[t]))
  PROVE  Served'
<1>1. PICK s \in Slots \cup {0} : Moved(0, s)
  BY DEF Filled
<1>2. PICK f \in Frames : f.at = "full" /\ Still(Push(st, t, f), stack')
  BY DEF Filled
<1>3. SigOf(Push(st, t, f)) = SigOf(st) \cup Tally(<<t, Depth(st, t) + 1>>, Sends(f))
  BY SigPush
<1>4. Tally(<<t, Depth(st, t) + 1>>, Sends(f)) = {}
  <2>1. Sends(f) = 0
    BY <1>2 DEF Sends
  <2>2. 1 .. 0 = {}
    OBVIOUS
  <2> QED
    BY <2>1, <2>2 DEF Tally
<1>5. SigOf(stack') = SigOf(Push(st, t, f))
  BY <1>2, SigStill
<1>6. SigOf(stack') = SigOf(stack)
  BY <1>3, <1>4, <1>5
<1>7. 0 \in Slots \cup {0}
  OBVIOUS
<1> QED
  BY <1>1, <1>6, <1>7, MovedServed

\* A handle is issued.
LEMMA FoundServed ==
  ASSUME IInv, Served, NEW t \in Threads, NEW st \in Stacks(Frames), Found(t, st),
         Last(st[t]).at = "user",
         SigOf(st) = SigOf(stack), Others(stack, stack', t), UNCHANGED sem, UNCHANGED nStop,
         Busy(Last(stack[t])), Busy(Last(stack'[t]))
  PROVE  Served'
<1>1. PICK n \in SubCounts \cup {1}, k \in {0, 1} :
        /\ k = 1 => n = 1
        /\ k = 0 => n \in SubCounts
        /\ \E h, par : Issuing(t, st, h, n, k, par)
  BY DEF Found
<1>2. PICK h, par :
        (k = 1 => n = 1) /\ (k = 0 => n \in SubCounts) /\ Issuing(t, st, h, n, k, par)
  BY <1>1
<1>3. n \in Nat
  BY <1>1, ClientFacts
<1>4. /\ SlotOf(h) \in Slots /\ ~PendingJobs(q, SlotOf(h))
      /\ Issues(q, q', h, SlotOf(h), n, k, par)
  BY <1>2 DEF Issuing
<1>5. /\ k = 1 => LeftOf(q') = LeftOf(q)
      /\ k = 0 => LeftOf(q') = LeftOf(q) \cup Tally(SlotOf(h), n)
      /\ LeftOf(q) \cap Tally(SlotOf(h), n) = {}
  <2>1. PoolInv(q)
    BY ServedFacts
  <2> QED
    BY <1>2, <1>3, <1>4, <2>1, LeftIssued
<1>6. PICK g \in Frames :
        /\ g.at = "user"
        /\ IF k = 1 THEN stack' = SetTop(st, t, g)
           ELSE \E z \in Frames : /\ z.at = "signal" /\ z.num = n
                                 /\ stack' = Push(SetTop(st, t, g), t, z)
  BY <1>2 DEF Issuing
<1> DEFINE v == SetTop(st, t, g)
<1>7. v \in Stacks(Frames) /\ SigOf(v) = SigOf(stack)
  <2>1. Still(st, v)
    BY <1>6, StillStack
  <2>2. v \in Stacks(Frames)
    BY <1>6, StackFacts
  <2> QED
    BY <2>1, <2>2, SigStill
<1>8. LookAt(stack') = LookAt(stack) /\ SleepAt(stack') = SleepAt(stack)
  BY SameWorkers
<1> HIDE DEF v
<1>9. CASE nStop # 0
  BY <1>9 DEF Served
<1>10. CASE nStop = 0 /\ k = 1
  <2>1. stack' = v
    BY <1>6, <1>10 DEF v
  <2>2. Suffice(sem, LookAt(stack), SleepAt(stack), SigOf(stack), LeftOf(q))
    BY <1>10 DEF Served
  <2> QED
    BY <1>5, <1>7, <1>8, <1>10, <2>1, <2>2 DEF Served
<1>11. CASE nStop = 0 /\ k = 0
  <2>1. PICK z \in Frames : z.at = "signal" /\ z.num = n /\ stack' = Push(v, t, z)
    BY <1>6, <1>11 DEF v
  <2>2. Suffice(sem, LookAt(stack), SleepAt(stack), SigOf(stack), LeftOf(q))
    BY <1>11 DEF Served
  <2> DEFINE y == <<t, Depth(v, t) + 1>>
             s == SlotOf(h)
  <2>3. /\ SigOf(Push(v, t, z)) = SigOf(v) \cup Tally(y, Sends(z))
        /\ SigOf(v) \cap Tally(y, Sends(z)) = {}
    BY <1>7, SigPush
  <2>4. Sends(z) = Clamp(n)
    BY <2>1 DEF Sends
  <2> HIDE DEF y, s
  <2>5. /\ SigOf(stack') = SigOf(stack) \cup Tally(y, Clamp(n))
        /\ SigOf(stack) \cap Tally(y, Clamp(n)) = {}
    BY <1>7, <2>1, <2>3, <2>4
  <2>6. LeftOf(q') = LeftOf(q) \cup Tally(s, n) /\ LeftOf(q) \cap Tally(s, n) = {}
    BY <1>5, <1>11 DEF s
  <2>7. Suffice(sem, LookAt(stack), SleepAt(stack), SigOf(stack) \cup Tally(y, Clamp(n)),
                LeftOf(q) \cup Tally(s, n))
    BY <1>3, <2>2, <2>5, <2>6, ServedFacts, SufficeAdd
  <2> QED
    BY <1>8, <2>5, <2>6, <2>7 DEF Served
<1> QED
  BY <1>2, <1>9, <1>10, <1>11

\* Jq2Add sends its signal.
LEMMA SendServed ==
  ASSUME IInv, Served, NEW t \in Threads, AddSignal(t)
  PROVE  Served'
<1> DEFINE n == Depth(stack, t)
           f == Top(t)
           z == <<t, n>>
<1>1. stack \in Stacks(Frames) /\ f = Last(stack[t]) /\ f \in Frames
  BY Acting
<1>2. /\ f.at = "signal" /\ stack' = Pop(stack, t) /\ q' = q /\ nStop' = nStop
      /\ SignalSemaphore(f.num)
  BY DEF AddSignal, At
<1>3. n > 1 /\ Last(stack'[t]).at = "user"
  BY <1>1, <1>2, CallerOf DEF CallKinds
<1>4. f.num \in Nat
  BY <1>1, <1>2, FrameFacts, ClientFacts
<1>5. Others(stack, stack', t)
  <2>1. Others(stack, stack, t)
    BY DEF Others
  <2> QED
    BY <1>1, <1>2, <2>1, OthersSame
<1>6. LookAt(stack') = LookAt(stack) /\ SleepAt(stack') = SleepAt(stack)
  BY <1>1, <1>2, <1>3, <1>5, SameWorkers DEF Busy
<1>7. /\ SigOf(stack') = SigOf(stack) \ Tally(z, Clamp(f.num))
      /\ Tally(z, Clamp(f.num)) \subseteq SigOf(stack)
  <2>1. Sends(f) = Clamp(f.num)
    BY <1>2 DEF Sends
  <2>2. /\ SigOf(Pop(stack, t)) = SigOf(stack) \ Tally(<<t, n>>, Sends(f))
        /\ Tally(<<t, n>>, Sends(f)) \subseteq SigOf(stack)
    BY <1>1, <1>3, SigPop
  <2> HIDE DEF n, f
  <2> QED
    BY <1>2, <2>1, <2>2
<1>8. sem' = IF sem + Clamp(f.num) > 2 * NumWorkers THEN sem ELSE sem + Clamp(f.num)
  BY <1>2 DEF SignalSemaphore, Clamp
<1> HIDE DEF n, f, z
<1>9. CASE nStop # 0
  BY <1>2, <1>9 DEF Served
<1>10. CASE nStop = 0
  <2>1. Suffice(sem, LookAt(stack), SleepAt(stack), SigOf(stack), LeftOf(q))
    BY <1>10 DEF Served
  <2>2. Suffice(sem', LookAt(stack), SleepAt(stack), SigOf(stack) \ Tally(z, Clamp(f.num)), LeftOf(q))
    BY <1>4, <1>7, <1>8, <2>1, ServedFacts, SufficeSend
  <2> QED
    BY <1>2, <1>6, <1>7, <2>2 DEF Served
<1> QED
  BY <1>9, <1>10

\* A worker goes from one part of its loop to another.
LEMMA LoopStep ==
  ASSUME IInv, NEW t \in Threads, Top(t).at \in BaseKinds, NEW at \in BaseKinds,
         stack' = SetTop(stack, t, [at |-> at, work |-> 0]), UNCHANGED <<q, jobs>>
  PROVE  /\ t \in Workers
         /\ LookAt(stack') \ {t} = LookAt(stack) \ {t}
         /\ SleepAt(stack') \ {t} = SleepAt(stack) \ {t}
         /\ SigOf(stack') = SigOf(stack) /\ LeftOf(q') = LeftOf(q)
         /\ t \in LookAt(stack') <=> at \in {"test", "scan"}
         /\ t \in SleepAt(stack') <=> at = "sleep"
<1>1. Keeps(t) /\ Last(stack'[t]).at = at /\ Last(stack'[t]).work = 0
  BY WorkerKeeps
<1>2. t \in Workers
  BY LoopIsWorker
<1>3. Others(stack, stack', t) /\ SigOf(stack') = SigOf(stack)
  BY <1>1, SigStill DEF Keeps
<1>4. /\ LookAt(stack') \ {t} = LookAt(stack) \ {t}
      /\ SleepAt(stack') \ {t} = SleepAt(stack) \ {t}
  BY <1>3, WorkersBut
<1>5. t \in LookAt(stack') <=> at \in {"test", "scan"}
  BY <1>1, <1>2 DEF LookAt
<1>6. t \in SleepAt(stack') <=> at = "sleep"
  BY <1>1, <1>2 DEF SleepAt
<1> QED
  BY <1>2, <1>3, <1>4, <1>5, <1>6 DEF LeftOf

\* A worker tests nStop.
LEMMA TestServed ==
  ASSUME IInv, Served, NEW t \in Threads, WorkerTest(t)
  PROVE  Served'
<1>1. CASE nStop # 0
  BY <1>1 DEF WorkerTest, Served
<1>2. CASE nStop = 0
  <2>1. /\ Top(t).at = "test" /\ sem' = sem /\ nStop' = nStop /\ UNCHANGED <<q, jobs>>
        /\ stack' = SetTop(stack, t, [at |-> "scan", work |-> 0])
    BY <1>2 DEF WorkerTest, At
  <2>2. Top(t).at \in BaseKinds /\ "scan" \in BaseKinds
    BY <2>1 DEF BaseKinds
  <2>3. /\ t \in Workers
        /\ LookAt(stack') \ {t} = LookAt(stack) \ {t}
        /\ SleepAt(stack') \ {t} = SleepAt(stack) \ {t}
        /\ SigOf(stack') = SigOf(stack) /\ LeftOf(q') = LeftOf(q)
        /\ t \in LookAt(stack') /\ t \notin SleepAt(stack')
    BY <2>1, <2>2, LoopStep
  <2>4. t \in LookAt(stack) /\ t \notin SleepAt(stack)
    BY <2>1, <2>3 DEF LookAt, SleepAt, Top
  <2>5. LookAt(stack') = LookAt(stack) /\ SleepAt(stack') = SleepAt(stack)
    BY <2>3, <2>4
  <2> QED
    BY <2>1, <2>3, <2>5 DEF Served
<1> QED
  BY <1>1, <1>2

\* The semaphore wakes a worker.
LEMMA WakeServed ==
  ASSUME IInv, Served, NEW t \in Threads, WorkerWake(t)
  PROVE  Served'
<1>1. /\ Top(t).at = "sleep" /\ sem > 0 /\ sem' = sem - 1 /\ nStop' = nStop /\ UNCHANGED <<q, jobs>>
      /\ stack' = SetTop(stack, t, [at |-> "test", work |-> 0])
  BY DEF WorkerWake, At
<1>2. Top(t).at \in BaseKinds /\ "test" \in BaseKinds
  BY <1>1 DEF BaseKinds
<1>3. /\ t \in Workers
      /\ LookAt(stack') \ {t} = LookAt(stack) \ {t}
      /\ SleepAt(stack') \ {t} = SleepAt(stack) \ {t}
      /\ SigOf(stack') = SigOf(stack) /\ LeftOf(q') = LeftOf(q)
      /\ t \in LookAt(stack') /\ t \notin SleepAt(stack')
  BY <1>1, <1>2, LoopStep
<1>4. t \notin LookAt(stack) /\ t \in SleepAt(stack)
  BY <1>1, <1>3 DEF LookAt, SleepAt, Top
<1>5. LookAt(stack') = LookAt(stack) \cup {t} /\ SleepAt(stack') = SleepAt(stack) \ {t}
  BY <1>3, <1>4
<1>6. CASE nStop # 0
  BY <1>1, <1>6 DEF Served
<1>7. CASE nStop = 0
  <2>1. Suffice(sem, LookAt(stack), SleepAt(stack), SigOf(stack), LeftOf(q))
    BY <1>7 DEF Served
  <2>2. Suffice(sem - 1, LookAt(stack) \cup {t}, SleepAt(stack) \ {t}, SigOf(stack), LeftOf(q))
    BY <1>1, <1>4, <2>1, ServedFacts, SufficeWake
  <2> QED
    BY <1>1, <1>3, <1>5, <2>2 DEF Served
<1> QED
  BY <1>6, <1>7

\* A worker takes a sub-job, or finds that nothing is left.
LEMMA ScanServed ==
  ASSUME IInv, Served, NEW t \in Threads, WorkerScan(t)
  PROVE  Served'
<1>1. /\ Keeps(t) /\ sem' = sem /\ nStop' = nStop /\ Top(t).at = "scan"
      /\ \/ /\ Last(stack'[t]).at = "user"
            /\ \E s \in Slots : Moved(Top(t).work, s)
         \/ /\ Last(stack'[t]).at = "sleep"
            /\ \A s \in Slots : ~Startable(q', s)
  BY WorkerScanKeeps
<1>2. Others(stack, stack', t) /\ SigOf(stack') = SigOf(stack)
  BY <1>1, SigStill DEF Keeps
<1>3. /\ LookAt(stack') \ {t} = LookAt(stack) \ {t}
      /\ SleepAt(stack') \ {t} = SleepAt(stack) \ {t}
  BY <1>2, WorkersBut
<1>4. t \notin LookAt(stack') /\ t \notin SleepAt(stack)
  BY <1>1 DEF LookAt, SleepAt, Top
<1>5. CASE nStop # 0
  BY <1>1, <1>5 DEF Served
<1>6. CASE nStop = 0 /\ Last(stack'[t]).at = "user"
  <2>1. PICK s \in Slots : Moved(Top(t).work, s)
    BY <1>1, <1>6
  <2>2. Top(t).work \in Slots \cup {0} /\ s \in Slots \cup {0} /\ s # 0
    <3>1. Top(t).work \in Slots \cup {0}
      BY <1>1, Acting, FrameFacts DEF WorkKinds
    <3> QED
      BY <3>1 DEF Slots
  <2> DEFINE x == <<s, q.nNumStarted[s] + 1>>
  <2>3. LeftOf(q') = LeftOf(q) \ {x} /\ x \in LeftOf(q)
    <3>1. PoolInv(q)
      BY ServedFacts
    <3> QED
      BY <2>1, <2>2, <3>1, LeftMoved
  <2>4. t \notin SleepAt(stack')
    BY <1>6 DEF SleepAt
  <2>5. SleepAt(stack') = SleepAt(stack) /\ LookAt(stack') = LookAt(stack) \ {t}
    BY <1>3, <1>4, <2>4
  <2> HIDE DEF x
  <2>6. Suffice(sem, LookAt(stack), SleepAt(stack), SigOf(stack), LeftOf(q))
    BY <1>6 DEF Served
  <2>7. Suffice(sem, LookAt(stack) \ {t}, SleepAt(stack), SigOf(stack), LeftOf(q) \ {x})
    BY <2>3, <2>6, ServedFacts, SufficeTake
  <2> QED
    BY <1>1, <1>2, <2>3, <2>5, <2>7 DEF Served
<1>7. CASE nStop = 0 /\ \A s \in Slots : ~Startable(q', s)
  <2>1. LeftOf(q') = {}
    <3>1. /\ q'.nNumStarted \in [Slots -> Nat] /\ q'.nNumJobs \in [Slots -> Nat]
      <4>1. IInv'
        BY WorkerScanInv
      <4>2. PoolInv(q')
        BY <4>1 DEF IInv, Inv
      <4> QED
        BY <4>2, PoolTypes DEF PoolInv
    <3> SUFFICES ASSUME NEW y \in LeftOf(q') PROVE FALSE
      OBVIOUS
    <3>2. /\ y[1] \in Slots /\ y[2] \in Nat
          /\ q'.nNumStarted[y[1]] < y[2] /\ y[2] <= q'.nNumJobs[y[1]]
      BY DEF LeftOf
    <3>3. q'.nNumStarted[y[1]] < q'.nNumJobs[y[1]]
      BY <3>1, <3>2
    <3> QED
      BY <1>7, <3>2, <3>3 DEF Startable
  <2>2. IsFiniteSet(SigOf(stack))
    BY <1>7 DEF Served, Suffice
  <2>3. Suffice(sem, LookAt(stack'), SleepAt(stack'), SigOf(stack), {})
    BY <2>2, ServedFacts, SufficeNone
  <2> QED
    BY <1>1, <1>2, <2>1, <2>3 DEF Served
<1> QED
  BY <1>1, <1>5, <1>6, <1>7

\* Every step keeps enough workers awake.
LEMMA NextServed ==
  ASSUME IInv, Served, [Next]_vars
  PROVE  Served'
<1>1. ASSUME NEW t \in Threads, Plain(t)
      PROVE  Served'
  <2>1. Keeps(t) /\ UNCHANGED sem /\ UNCHANGED nStop
    BY <1>1 DEF Plain
  <2>2. t # Main => Busy(Last(stack[t])) /\ Busy(Last(stack'[t]))
    BY <1>1 DEF Plain, Top
  <2> QED
    BY <2>1, <2>2, KeepsServed
<1>2. ASSUME NEW t \in Threads, At(t, "user"), NEW want \in Wants,
             FindHandle(t, stack, want), UNCHANGED <<sem, nStop>>
      PROVE  Served'
  <2>1. stack \in Stacks(Frames) /\ Last(stack[t]).at = "user"
    BY <1>2, Acting DEF At
  <2>2. /\ Others(stack, stack', t) /\ Busy(Last(stack'[t])) /\ Busy(Top(t))
        /\ Filled(t, stack) \/ Found(t, stack)
    BY <1>2, CallEffect
  <2>3. Busy(Last(stack[t])) /\ UNCHANGED sem /\ UNCHANGED nStop
    BY <1>2, <2>2 DEF Top
  <2> QED
    BY <2>1, <2>2, <2>3, FilledServed, FoundServed
<1>3. ASSUME NEW t \in Threads, FindAgain(t)
      PROVE  Served'
  <2> DEFINE st == Pop(stack, t)
  <2>1. /\ Others(stack, stack', t) /\ Busy(Last(stack'[t])) /\ Busy(Top(t))
        /\ Top(t).at = "full" /\ Depth(stack, t) > 1
        /\ st \in Stacks(Frames) /\ Last(st[t]).at = "user"
        /\ Filled(t, st) \/ Found(t, st)
    BY <1>3, AgainEffect
  <2>2. SigOf(st) = SigOf(stack)
    <3> DEFINE n == Depth(stack, t)
               f == Last(stack[t])
    <3>1. stack \in Stacks(Frames) /\ n > 1 /\ f.at = "full"
      BY <2>1, Acting
    <3>2. SigOf(Pop(stack, t)) = SigOf(stack) \ Tally(<<t, n>>, Sends(f))
      BY <3>1, SigPop
    <3>3. Sends(f) = 0
      BY <3>1 DEF Sends
    <3>4. 1 .. 0 = {}
      OBVIOUS
    <3> HIDE DEF n, f
    <3>5. Tally(<<t, n>>, Sends(f)) = {}
      BY <3>3, <3>4 DEF Tally
    <3> QED
      BY <3>2, <3>5
  <2>3. Busy(Last(stack[t])) /\ UNCHANGED sem /\ UNCHANGED nStop
    BY <1>3, <2>1 DEF FindAgain, Top
  <2> HIDE DEF st
  <2> QED
    BY <2>1, <2>2, <2>3, FilledServed, FoundServed
<1>4. ASSUME NEW t \in Threads, CallStep(t)
      PROVE  Served'
  <2>1. CASE FindFinish(t)
    BY <1>1, <2>1, FindFinishKeeps
  <2>2. CASE FindAgain(t)
    BY <1>3, <2>2
  <2>3. CASE AddSignal(t)
    BY <2>3, SendServed
  <2>4. CASE WorkerTest(t)
    BY <2>4, TestServed
  <2>5. CASE WorkerScan(t)
    BY <2>5, ScanServed
  <2>6. CASE WorkerWake(t)
    BY <2>6, WakeServed
  <2>7. CASE WaitDone(t) \/ WaitBlock(t) \/ WaitWoken(t)
    BY <1>1, <2>7, WaitingKeeps
  <2>8. CASE WaitTake(t)
    BY <1>1, <2>8, WaitTakeKeeps
  <2> QED
    BY <1>4, <2>1, <2>2, <2>3, <2>4, <2>5, <2>6, <2>7, <2>8 DEF CallStep
<1>5. ASSUME NEW t \in Threads, UserStep(t)
      PROVE  Served'
  <2>1. ASSUME NEW prio \in UserPrios, NEW num \in SubCounts, Add(t, prio, num)
        PROVE  Served'
    <3>1. [group |-> FALSE, prio |-> prio, num |-> num] \in Wants
      BY DEF Wants
    <3> QED
      BY <1>2, <2>1, <3>1 DEF Add
  <2>2. CASE GroupBegin(t)
    <3>1. [group |-> TRUE, prio |-> GroupPrio, num |-> 1] \in Wants
      BY DEF Wants
    <3> QED
      BY <1>2, <2>2, <3>1 DEF GroupBegin
  <2>3. CASE GroupEnd(t)
    BY <1>1, <2>3, GroupEndKeeps
  <2>4. CASE UserReturn(t)
    BY <1>1, <2>4, UserReturnKeeps
  <2>5. ASSUME NEW h \in DOMAIN jobs, NEW k \in WaitKinds, Wait(t, h, k)
        PROVE  Served'
    BY <1>1, <2>5, WaitCallKeeps
  <2> QED
    BY <1>5, <2>1, <2>2, <2>3, <2>4, <2>5 DEF UserStep
<1>6. ASSUME NEW t \in Threads, SpuriousWake(t)
      PROVE  Served'
  BY <1>1, <1>6, WaitingKeeps
<1>7. CASE MainStep \/ \E stop \in BOOLEAN : WaitAll(stop)
  <2>1. Main \in Threads
    BY DEF Threads
  <2>2. Keeps(Main) /\ (nStop' = 0 => UNCHANGED sem /\ UNCHANGED nStop)
    BY <1>7, MainKeeps
  <2>3. CASE nStop' = 0
    BY <2>1, <2>2, <2>3, KeepsServed
  <2>4. CASE nStop' # 0
    BY <2>4 DEF Served
  <2> QED
    BY <2>3, <2>4
<1>8. CASE Stopped \/ UNCHANGED vars
  <2>1. q' = q /\ stack' = stack /\ sem' = sem /\ nStop' = nStop
    BY <1>8 DEF Stopped, vars
  <2> QED
    BY <2>1 DEF Served
<1> QED
  BY <1>4, <1>5, <1>6, <1>7, <1>8 DEF Next

\* In the beginning nothing is left, and no signal is on its way.
LEMMA InitServed ==
  ASSUME Init
  PROVE  Served
<1>1. /\ q = EmptyPool /\ sem = 0
      /\ stack = [t \in Threads |-> <<StartFrame(t)>>]
  BY DEF Init, StartFrame
<1>2. SigOf(stack) = {}
  <2>1. \A x \in Positions(stack) : On(stack, x).at \in {"user", "test"}
    BY <1>1, InitStacks
  <2> QED
    BY <2>1 DEF SigOf, Marks
<1>3. LeftOf(q) = {}
  <2>1. PoolInv(q) /\ q.nNumStarted = [s \in Slots |-> 0] /\ q.nNumJobs = [s \in Slots |-> 0]
    BY <1>1, EmptyPoolInv DEF EmptyPool
  <2> SUFFICES ASSUME NEW y \in LeftOf(q) PROVE FALSE
    OBVIOUS
  <2>2. y[1] \in Slots /\ y[2] \in Nat /\ 0 < y[2] /\ y[2] <= 0
    BY <2>1 DEF LeftOf
  <2> QED
    BY <2>2
<1>4. IsFiniteSet({}) /\ 0 \in Nat
  BY FS_EmptySet
<1>5. Cardinality(LookAt(stack)) \in Nat
  BY WorkerSets
<1>6. Suffice(0, LookAt(stack), SleepAt(stack), {}, {})
  BY <1>4, <1>5, SufficeNone
<1> QED
  BY <1>1, <1>2, <1>3, <1>6 DEF Served

\* The words of EnoughAwake.
LEMMA InvAwake ==
  ASSUME IInv, Served
  PROVE  EnoughAwake
<1>1. Looking = LookAt(stack) /\ Sleeping = SleepAt(stack)
  BY DEF Looking, Sleeping, LookAt, SleepAt, At, Top
<1>2. Left = Cardinality(LeftOf(q))
  <2> DEFINE U == UNION {{s} \X (q.nNumStarted[s] + 1 .. q.nNumJobs[s]) : s \in Slots}
  <2>1. q.nNumStarted \in [Slots -> Nat] /\ q.nNumJobs \in [Slots -> Nat]
    BY ServedFacts, PoolTypes DEF PoolInv
  <2>2. ASSUME NEW x, NEW k PROVE <<x, k>> \in U <=> <<x, k>> \in LeftOf(q)
    <3>1. <<x, k>> \in U <=> x \in Slots /\ k \in q.nNumStarted[x] + 1 .. q.nNumJobs[x]
      OBVIOUS
    <3>2. x \in Slots => (k \in q.nNumStarted[x] + 1 .. q.nNumJobs[x]
                            <=> k \in Nat /\ q.nNumStarted[x] < k /\ k <= q.nNumJobs[x])
      BY <2>1
    <3> HIDE DEF U
    <3> QED
      BY <3>1, <3>2 DEF LeftOf
  <2>3. /\ \A y \in U : \E x, k : y = <<x, k>>
        /\ \A y \in LeftOf(q) : \E x, k : y = <<x, k>>
    BY DEF LeftOf
  <2> HIDE DEF U
  <2>4. U \subseteq LeftOf(q)
    BY <2>2, <2>3, PairsWithin
  <2>5. LeftOf(q) \subseteq U
    BY <2>2, <2>3, PairsWithin
  <2>6. U = LeftOf(q)
    BY <2>4, <2>5
  <2> QED
    BY <2>6 DEF Left, U
<1>3. Signals = Cardinality(SigOf(stack))
  <2> DEFINE M == Marks(stack, {"signal"})
             c(f) == Min({FrameAt(f).num, NumWorkers})
             V == UNION {{f} \X (1 .. c(f)) : f \in FramesIn({"signal"})}
  <2>1. FramesIn({"signal"}) = M
    BY FramesAre DEF IInv, Inv, Shape, Marks
  <2>2. ASSUME NEW x \in M PROVE Clamp(On(stack, x).num) \in Nat
    <3>1. x \in Positions(stack) /\ On(stack, x).at = "signal" /\ stack \in Stacks(Frames)
      BY DEF M, Marks, IInv, Inv, Shape
    <3>2. On(stack, x) \in Frames
      <4>1. x[1] \in Threads /\ x[2] \in Nat /\ 1 <= x[2] /\ x[2] <= Len(stack[x[1]])
        BY <3>1 DEF Positions, Depth
      <4>2. stack[x[1]] \in Seq(Frames) /\ Len(stack[x[1]]) \in Nat
        BY <3>1, <4>1 DEF Stacks
      <4>3. x[2] \in 1 .. Len(stack[x[1]])
        BY <4>1, <4>2
      <4> QED
        BY <4>2, <4>3, ElementOfSeq DEF On
    <3>3. On(stack, x).num \in Nat
      BY <3>1, <3>2, FrameFacts, ClientFacts
    <3> QED
      BY <3>3, ClampFacts
  <2>3. ASSUME NEW x, NEW k PROVE <<x, k>> \in V <=> <<x, k>> \in SigOf(stack)
    <3>1. <<x, k>> \in V <=> x \in M /\ k \in 1 .. Clamp(On(stack, x).num)
      <4>1. c(x) = Clamp(On(stack, x).num)
        BY DEF Clamp, FrameAt, On
      <4> HIDE DEF c, M
      <4>2. <<x, k>> \in V <=> x \in M /\ k \in 1 .. c(x)
        BY <2>1
      <4> QED
        BY <4>1, <4>2
    <3>2. <<x, k>> \in SigOf(stack) <=> x \in M /\ k \in Nat /\ 1 <= k /\ k <= Clamp(On(stack, x).num)
      BY DEF SigOf
    <3> HIDE DEF M, V
    <3>3. x \in M => (k \in 1 .. Clamp(On(stack, x).num)
                        <=> k \in Nat /\ 1 <= k /\ k <= Clamp(On(stack, x).num))
      BY <2>2
    <3> QED
      BY <3>1, <3>2, <3>3
  <2>4. /\ \A y \in V : \E x, k : y = <<x, k>>
        /\ \A y \in SigOf(stack) : \E x, k : y = <<x, k>>
    <3> HIDE DEF c, M
    <3> QED
      BY DEF SigOf
  <2> HIDE DEF M, V
  <2>5. V \subseteq SigOf(stack)
    BY <2>3, <2>4, PairsWithin
  <2>6. SigOf(stack) \subseteq V
    BY <2>3, <2>4, PairsWithin
  <2>7. V = SigOf(stack)
    BY <2>5, <2>6
  <2> QED
    BY <2>7 DEF Signals, V, c
<1>4. ASSUME NEW a \in Nat, NEW b \in Nat
      PROVE  Min({a, b}) \in Nat /\ Min({a, b}) <= a /\ Min({a, b}) <= b
  <2>1. {a, b} \in SUBSET Nat /\ {a, b} # {}
    OBVIOUS
  <2>2. Min({a, b}) \in {a, b} /\ \A k \in {a, b} : Min({a, b}) <= k
    BY <2>1, LeastNatural
  <2> QED
    BY <2>2
<1>5. SUFFICES ASSUME nStop = 0
      PROVE  sem + Cardinality(Looking) + Signals
               >= Min({Left, Cardinality(Looking) + Cardinality(Sleeping)})
  BY DEF EnoughAwake
<1>6. Suffice(sem, LookAt(stack), SleepAt(stack), SigOf(stack), LeftOf(q))
  BY <1>5 DEF Served
<1> DEFINE L == Left
           G == Signals
           K == Cardinality(Looking)
           Z == Cardinality(Sleeping)
<1>7. sem + K + G >= L \/ sem + G >= Z
  BY <1>1, <1>2, <1>3, <1>6 DEF Suffice
<1>8. sem \in Nat /\ K \in Nat /\ Z \in Nat /\ L \in Nat /\ G \in Nat
  <2>1. IsFiniteSet(SigOf(stack)) /\ IsFiniteSet(LeftOf(q))
    BY <1>6 DEF Suffice
  <2>2. L \in Nat /\ G \in Nat
    BY <1>2, <1>3, <2>1, FS_CardinalityType
  <2> QED
    BY <1>1, <2>2, ServedFacts
<1> HIDE DEF L, G, K, Z
<1>9. K + Z \in Nat
  BY <1>8
<1>10. Min({L, K + Z}) \in Nat /\ Min({L, K + Z}) <= L /\ Min({L, K + Z}) <= K + Z
  BY <1>4, <1>8, <1>9
<1>11. sem + K + G >= Min({L, K + Z})
  BY <1>7, <1>8, <1>10
<1> QED
  BY <1>11 DEF L, G, K, Z

\* Until the workers are told to stop, those that are awake and the signals
\* that wake others are enough for the sub-jobs that nobody has taken: no
\* worker sleeps for good while there is work.
THEOREM EnoughAreAwake == Spec => []EnoughAwake
<1>1. Init => IInv /\ Served
  BY InitInv, InitServed
<1>2. IInv /\ Served /\ [Next]_vars => IInv' /\ Served'
  BY NextInv, NextServed
<1>3. IInv /\ Served => EnoughAwake
  BY InvAwake
<1> QED
  BY <1>1, <1>2, <1>3, PTL DEF Spec

-----------------------------------------------------------------------------
(* What the pool promises *)

\* The theorems of JobPoolProofs, about the pool of the queue.
PoolFacts == INSTANCE JobPoolProofs WITH
  MaxHandle <- MaxHandle, MaxSub <- Max(SubCounts \cup {1}),
  nStartedHandle <- q.nStartedHandle, nFinishedHandle <- q.nFinishedHandle,
  nNumJobs <- q.nNumJobs, nNumStarted <- q.nNumStarted,
  num_finished_jobs <- q.num_finished_jobs, nParent <- q.nParent,
  nNextHandle <- q.nNextHandle, issued <- DOMAIN jobs

\* The constants of the pool are what its theorems assume.
LEMMA PoolConstants ==
  PoolFacts!MaxJobsAssumption /\ PoolFacts!MaxHandleAssumption /\ PoolFacts!MaxSubAssumption
<1>1. MaxAdds \in Nat /\ MaxJobs \in Nat
  BY MaxJobsAssumption, ClientAssumption
<1>2. MaxHandle \in Nat
  BY <1>1, SMT DEF MaxHandle
<1>3. Max(SubCounts \cup {1}) \in Nat
  BY MostSubJobs
<1> HIDE DEF MaxHandle
<1> QED
  BY <1>2, <1>3, MaxJobsAssumption

\* Both instances are the same specification.
LEMMA SamePoolSpec == Pool!Spec <=> PoolFacts!Spec
<1>1. Pool!vars = PoolFacts!vars
  BY DEF Pool!vars, PoolFacts!vars
<1>2. Pool!Init <=> PoolFacts!Init
  BY DEF Pool!Init, PoolFacts!Init, Pool!Slots, PoolFacts!Slots
<1>3. Pool!Slots = PoolFacts!Slots /\ Pool!Handles = PoolFacts!Handles
  BY DEF Pool!Slots, PoolFacts!Slots, Pool!Handles, PoolFacts!Handles
<1>4. ASSUME NEW h, NEW n, NEW k, NEW par
      PROVE  Pool!Issue(h, n, k, par) <=> PoolFacts!Issue(h, n, k, par)
  BY DEF Pool!Issue, PoolFacts!Issue, Pool!MayIssue, PoolFacts!MayIssue, Pool!SlotOf, PoolFacts!SlotOf,
         Pool!Pending, PoolFacts!Pending, Pool!Running, PoolFacts!Running, Pool!NextHandle,
         PoolFacts!NextHandle
<1>5. ASSUME NEW s
      PROVE  Pool!FinishSub(s) <=> PoolFacts!FinishSub(s)
  BY <1>3
     DEF Pool!FinishSub, PoolFacts!FinishSub, Pool!Running, PoolFacts!Running, Pool!Completed,
         PoolFacts!Completed, Pool!ClosedUnder, PoolFacts!ClosedUnder, Pool!Pending, PoolFacts!Pending,
         Pool!Finished, PoolFacts!Finished, Pool!Children, PoolFacts!Children
<1>6. ASSUME NEW s
      PROVE  Pool!StartSub(s) <=> PoolFacts!StartSub(s)
  BY DEF Pool!StartSub, PoolFacts!StartSub
<1>7. Pool!Next <=> PoolFacts!Next
  BY <1>3, <1>4, <1>5, <1>6
     DEF Pool!Next, PoolFacts!Next, Pool!Add, PoolFacts!Add, Pool!GroupBegin, PoolFacts!GroupBegin,
         Pool!Start, PoolFacts!Start, Pool!Finish, PoolFacts!Finish, Pool!FinishAndStart,
         PoolFacts!FinishAndStart
<1>8. [Pool!Next]_(Pool!vars) <=> [PoolFacts!Next]_(PoolFacts!vars)
  BY <1>1, <1>7 DEF Pool!vars, PoolFacts!vars
<1> QED
  BY <1>2, <1>8, PTL DEF Pool!Spec, PoolFacts!Spec

\* The queue implements the pool that the theorems of JobPoolProofs are about.
LEMMA IsPool == Spec => PoolFacts!Spec
BY ImplementsPool, SamePoolSpec, PTL DEF PoolSpec

\* What holds of the pool holds of the queue with all its threads.  A job or
\* group that was seen to be done is done for good, although its slot and its
\* nodes are used again and again.
THEOREM DoneForGood == Spec => PoolFacts!DoneStable
BY IsPool, PoolConstants, PoolFacts!DoneIsStable, PTL

\* The slot of a job is not given to another one while a thread holds a
\* sub-job of it, whatever the other threads do.
THEOREM NotRecycledWhileRunning == Spec => PoolFacts!RunningKeepsHandle
BY IsPool, PoolConstants, PoolFacts!RunningSlotKeepsHandle, PTL

\* The tree of parents that Jq2CheckFinished climbs has no cycle, because a
\* parent is pending and older than its children.
THEOREM TreeHasNoCycle == Spec => []PoolFacts!ParentOlder
BY IsPool, PoolConstants, PoolFacts!ParentsAreOlder, PTL
=============================================================================
