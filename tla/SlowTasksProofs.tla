--------------------------- MODULE SlowTasksProofs ---------------------------
(***************************************************************************)
(* The safety properties of SlowTasks hold for any number of tasks,        *)
(* priorities and threads.  Each queue is what has been enqueued less what *)
(* the background thread has taken, and the list of executed tasks is the  *)
(* end of the history of executed tasks; the invariant says where exactly. *)
(***************************************************************************)
EXTENDS SlowTasks, TLAPS

-----------------------------------------------------------------------------
(* The invariant *)

\* Where the threads are, and what they hold there.
ThreadInv ==
  /\ completedCS <=> main \in {"tick", "clear"}
  /\ taskTaken # NoTask <=> background \in {"execute", "complete"}
  /\ main = "down" => background = "exit"
  /\ main = "tick" => current \in 1 .. Len(completedTasks) + 1

Open == main # "down"
Shutting == main \in {"notify", "join", "down"}

\* All that has been enqueued, by priority: the tasks added, and the dummy
\* task of Shutdown.
Enqueued ==
  [p \in Prios |-> IF Shutting /\ p = PriorityNormal THEN Append(added[p], ExitTask)
                   ELSE added[p]]

\* How much of it the background thread has taken.
NumTaken(p) == Len(Enqueued[p]) - Len(pendingTasks[p])

\* Nothing is enqueued twice.
Distinct ==
  \A p, q \in Prios : \A i \in 1 .. Len(Enqueued[p]), j \in 1 .. Len(Enqueued[q]) :
    Enqueued[p][i] = Enqueued[q][j] => p = q /\ i = j

\* The queues hold the rest of what has been enqueued.
QueuesExact ==
  \A p \in Prios :
    /\ NumTaken(p) \in 0 .. Len(Enqueued[p])
    /\ \A i \in 1 .. Len(pendingTasks[p]) : pendingTasks[p][i] = Enqueued[p][NumTaken(p) + i]

IsExecuted(task) == \E k \in 1 .. Len(executed) : executed[k] = task

\* What has been taken has been executed, but for the task that is being
\* executed, which was the first of its queue; nothing else has been executed.
TakenExact ==
  /\ \A k \in 1 .. Len(executed) :
       \E p \in Prios : \E j \in 1 .. NumTaken(p) : executed[k] = Enqueued[p][j]
  /\ \A p \in Prios : \A j \in 1 .. NumTaken(p) :
       \/ IsExecuted(Enqueued[p][j])
       \/ background = "execute" /\ Enqueued[p][j] = taskTaken
  /\ background = "execute" =>
       /\ ~IsExecuted(taskTaken)
       /\ \E p \in Prios : NumTaken(p) >= 1 /\ taskTaken = Enqueued[p][NumTaken(p)]

\* FifoPerPriority, the dummy task included.
InOrder ==
  /\ \A k, l \in 1 .. Len(executed) : executed[k] = executed[l] => k = l
  /\ \A p \in Prios, k \in 1 .. Len(executed) :
       \A i \in 1 .. Len(Enqueued[p]) : executed[k] = Enqueued[p][i] =>
         \A j \in 1 .. i - 1 : \E l \in 1 .. k - 1 : executed[l] = Enqueued[p][j]

OrderInv == Distinct /\ InOrder /\ (Open => QueuesExact /\ TakenExact)

\* How many tasks of the list Tick has finalized, and where in the history of
\* executed tasks the list begins.
NumFinalized ==
  CASE main = "tick"  -> current - 1
    [] main = "clear" -> Len(completedTasks)
    [] OTHER          -> 0
ListStart == Len(finalized) - NumFinalized

\* The list is the end of the history, less the task that is not yet in it.
ListExact ==
  /\ ListStart \in Nat
  /\ Len(executed) = ListStart + Len(completedTasks)
                       + (IF background = "complete" THEN 1 ELSE 0)
  /\ \A i \in 1 .. Len(completedTasks) : completedTasks[i] = executed[ListStart + i]
  /\ background = "complete" => executed[Len(executed)] = taskTaken

ListInv ==
  /\ Len(finalized) <= Len(executed)
  /\ \A i \in 1 .. Len(finalized) : finalized[i] = executed[i]
  /\ Open => ListExact

IInv == TypeOK /\ ThreadInv /\ SleepIsNoticed /\ OrderInv /\ ListInv

-----------------------------------------------------------------------------
(* The initial state and types *)

\* The initial state satisfies the invariant.
LEMMA InitIInv == Init => IInv
<1> SUFFICES ASSUME Init PROVE IInv
  OBVIOUS
<1>1. TypeOK
  <2>1. /\ pendingTasks \in [Prios -> Seq(AllTasks)]
        /\ added \in [Prios -> Seq(Tasks)]
        /\ completedTasks \in Seq(AllTasks)
        /\ {executed, finalized} \subseteq Seq(AllTasks)
    BY DEF Init
  <2> QED
    BY <2>1 DEF Init, TypeOK
<1>2. Len(<<>>) = 0
  OBVIOUS
<1>3. /\ executed = <<>> /\ finalized = <<>> /\ completedTasks = <<>>
      /\ background = "loop" /\ main = "run"
      /\ \A p \in Prios : pendingTasks[p] = <<>> /\ Enqueued[p] = <<>>
  BY DEF Init, Enqueued, Shutting
<1>4. \A p \in Prios : NumTaken(p) = 0
  BY <1>2, <1>3 DEF NumTaken
<1>5. OrderInv
  BY <1>2, <1>3, <1>4 DEF OrderInv, Distinct, InOrder, QueuesExact, TakenExact
<1>6. ListInv
  BY <1>2, <1>3 DEF ListInv, ListExact, ListStart, NumFinalized
<1>7. ThreadInv /\ SleepIsNoticed
  BY DEF Init, ThreadInv, SleepIsNoticed
<1> QED
  BY <1>1, <1>5, <1>6, <1>7 DEF IInv

\* What a task enqueued does to the types.
LEMMA EnqueueType ==
  ASSUME TypeOK, NEW task \in AllTasks, NEW p \in Prios, Enqueue(task, p)
  PROVE  pendingTasks' \in [Prios -> Seq(AllTasks)] /\ totalPendingTasks' \in Nat
BY DEF TypeOK, Enqueue

\* The wake-up of a thread only concerns one that sleeps.
LEMMA WokenType ==
  ASSUME TypeOK
  PROVE  Woken \in {"loop", "take", "blocked", "execute", "complete", "check", "exit"}
BY DEF TypeOK, Woken

\* Every step keeps the types.
LEMMA NextType == ASSUME TypeOK, ThreadInv, Next PROVE TypeOK'
<1>1. ASSUME NEW t \in Threads, NEW task \in Tasks, NEW p \in Prios, Add(t, task, p)
      PROVE  TypeOK'
  <2>1. pendingTasks' \in [Prios -> Seq(AllTasks)] /\ totalPendingTasks' \in Nat
    BY <1>1, EnqueueType DEF Add, AllTasks
  <2>2. added' \in [Prios -> Seq(Tasks)]
    BY <1>1 DEF Add, TypeOK
  <2>3. notifying' \subseteq Threads
    BY <1>1 DEF Add, TypeOK
  <2> QED
    BY <1>1, <2>1, <2>2, <2>3 DEF Add, TypeOK
<1>2. ASSUME NEW t \in Threads, Notify(t) PROVE TypeOK'
  BY <1>2, WokenType DEF Notify, TypeOK, queues, history
<1>3. CASE BgLoop \/ BgWait \/ BgCheck \/ BgSpurious
  BY <1>3 DEF TypeOK, BgLoop, BgWait, BgCheck, BgSpurious, queues, history
<1>4. ASSUME NEW p \in Prios, BgTake(p) PROVE TypeOK'
  <2>1. pendingTasks[p] \in Seq(AllTasks) /\ pendingTasks[p] # <<>>
    BY <1>4 DEF TypeOK, BgTake
  <2>2. Head(pendingTasks[p]) \in AllTasks /\ Tail(pendingTasks[p]) \in Seq(AllTasks)
    BY <2>1
  <2>3. totalPendingTasks' \in Nat
    BY <1>4 DEF TypeOK, BgTake
  <2>4. pendingTasks' \in [Prios -> Seq(AllTasks)]
    BY <1>4, <2>2 DEF TypeOK, BgTake
  <2> QED
    BY <1>4, <2>2, <2>3, <2>4 DEF TypeOK, BgTake, history
<1>5. CASE BgExecute
  <2>1. taskTaken \in AllTasks /\ executed \in Seq(AllTasks)
    BY <1>5 DEF TypeOK, ThreadInv, BgExecute
  <2>2. executed' \in Seq(AllTasks)
    BY <1>5, <2>1 DEF BgExecute
  <2> QED
    BY <1>5, <2>2 DEF TypeOK, BgExecute, queues
<1>6. CASE BgComplete
  <2>1. taskTaken \in AllTasks /\ completedTasks \in Seq(AllTasks)
    BY <1>6 DEF TypeOK, ThreadInv, BgComplete
  <2>2. completedTasks' \in Seq(AllTasks)
    BY <1>6, <2>1 DEF BgComplete
  <2> QED
    BY <1>6, <2>2 DEF TypeOK, BgComplete, queues, history
<1>7. CASE TickBegin
  BY <1>7 DEF TickBegin, TypeOK, queues, history
<1>8. CASE TickLast
  BY <1>8 DEF TickLast, TypeOK, queues, history
<1>9. CASE TickEnd \/ ShutdownNotify
  <2>1. <<>> \in Seq(AllTasks)
    OBVIOUS
  <2> QED
    BY <1>9, <2>1, WokenType DEF TickEnd, ShutdownNotify, TypeOK, queues, history
<1>10. CASE ShutdownJoin
  <2>1. /\ pendingTasks' \in [Prios -> Seq(AllTasks)]
        /\ completedTasks' \in Seq(AllTasks)
    BY <1>10 DEF ShutdownJoin
  <2> QED
    BY <1>10, <2>1 DEF ShutdownJoin, TypeOK, history
<1>11. CASE TickTask
  <2>1. completedTasks[current] \in AllTasks /\ current' \in Nat
    <3>1. completedTasks \in Seq(AllTasks) /\ current \in 1 .. Len(completedTasks)
      BY <1>11 DEF TickTask, TypeOK, ThreadInv
    <3> QED
      BY <1>11, <3>1 DEF TickTask
  <2>2. finalized' \in Seq(AllTasks)
    BY <1>11, <2>1 DEF TickTask, TypeOK
  <2> QED
    BY <1>11, <2>1, <2>2 DEF TickTask, TypeOK, queues
<1>12. CASE ShutdownBegin
  <2>1. pendingTasks' \in [Prios -> Seq(AllTasks)] /\ totalPendingTasks' \in Nat
    BY <1>12, PriosAssumption, EnqueueType DEF ShutdownBegin, AllTasks, Prios
  <2> QED
    BY <1>12, <2>1, WokenType DEF ShutdownBegin, TypeOK, history
<1>13. CASE RequestExit \/ Down
  BY <1>13 DEF RequestExit, Down, vars, TypeOK, queues, history
<1> QED
  BY <1>1, <1>2, <1>3, <1>4, <1>5, <1>6, <1>7, <1>8, <1>9,
     <1>10, <1>11, <1>12, <1>13
  DEF Next, Background, Ticking, Stopping

\* Every step keeps track of where the threads are.
LEMMA NextThread == ASSUME TypeOK, ThreadInv, Next PROVE ThreadInv'
<1>1. ASSUME NEW t \in Threads, NEW task \in Tasks, NEW p \in Prios, Add(t, task, p)
      PROVE  ThreadInv'
  BY <1>1 DEF Add, ThreadInv
<1>2. ASSUME NEW t \in Threads, Notify(t) PROVE ThreadInv'
  BY <1>2 DEF Notify, Woken, ThreadInv, queues, history
<1>3. CASE BgLoop \/ BgWait \/ BgCheck \/ BgSpurious
  BY <1>3 DEF BgLoop, BgWait, BgCheck, BgSpurious, ThreadInv, queues, history
<1>4. ASSUME NEW p \in Prios, BgTake(p) PROVE ThreadInv'
  <2>1. taskTaken' # NoTask
    <3>1. pendingTasks[p] \in Seq(AllTasks) /\ pendingTasks[p] # <<>>
      BY <1>4 DEF TypeOK, BgTake
    <3>2. Head(pendingTasks[p]) \in AllTasks
      BY <3>1
    <3> QED
      BY <1>4, <3>2, TasksAssumption DEF BgTake, AllTasks
  <2> QED
    BY <1>4, <2>1 DEF BgTake, ThreadInv, history
<1>5. CASE BgExecute
  BY <1>5 DEF BgExecute, ThreadInv, queues
<1>6. CASE BgComplete
  BY <1>6 DEF BgComplete, ThreadInv, queues, history
<1>7. CASE TickBegin
  BY <1>7 DEF TickBegin, MainIdle, TypeOK, ThreadInv, queues, history
<1>8. CASE TickTask
  BY <1>8 DEF TickTask, TypeOK, ThreadInv, queues
<1>9. CASE TickLast \/ TickEnd \/ ShutdownNotify \/ ShutdownJoin
  BY <1>9 DEF TickLast, TickEnd, ShutdownNotify, ShutdownJoin, Woken, ThreadInv,
              queues, history
<1>10. CASE ShutdownBegin
  BY <1>10 DEF ShutdownBegin, MainIdle, Woken, ThreadInv, history
<1>11. CASE RequestExit \/ Down
  BY <1>11 DEF RequestExit, Down, vars, ThreadInv, queues, history
<1> QED
  BY <1>1, <1>2, <1>3, <1>4, <1>5, <1>6, <1>7, <1>8, <1>9, <1>10, <1>11
  DEF Next, Background, Ticking, Stopping

\* Every step keeps a notification on its way to a thread that sleeps over a
\* task: whoever enqueues the first one is still to notify, and ShutdownBegin
\* notifies twice.
LEMMA NextNoticed == ASSUME TypeOK, ThreadInv, SleepIsNoticed, Next PROVE SleepIsNoticed'
<1>1. ASSUME NEW t \in Threads, NEW task \in Tasks, NEW p \in Prios, Add(t, task, p)
      PROVE  SleepIsNoticed'
  BY <1>1 DEF Add, Enqueue, QueueWasEmpty, TypeOK, SleepIsNoticed
<1>2. ASSUME NEW t \in Threads, Notify(t) PROVE SleepIsNoticed'
  BY <1>2 DEF Notify, Woken, SleepIsNoticed
<1>3. CASE BgLoop \/ BgWait \/ BgCheck \/ BgSpurious \/ BgExecute \/ BgComplete
  BY <1>3 DEF BgLoop, BgWait, BgCheck, BgSpurious, BgExecute, BgComplete, SleepIsNoticed, queues
<1>4. ASSUME NEW p \in Prios, BgTake(p) PROVE SleepIsNoticed'
  BY <1>4 DEF BgTake, SleepIsNoticed
<1>5. CASE TickBegin \/ TickTask \/ TickLast \/ TickEnd
  BY <1>5 DEF TickBegin, MainIdle, TickTask, TickLast, TickEnd, SleepIsNoticed, queues
<1>6. CASE ShutdownBegin \/ ShutdownNotify \/ ShutdownJoin
  BY <1>6 DEF ShutdownBegin, ShutdownNotify, ShutdownJoin, Woken, SleepIsNoticed, queues
<1>7. CASE RequestExit \/ Down
  BY <1>7 DEF RequestExit, Down, vars, SleepIsNoticed, queues
<1> QED
  BY <1>1, <1>2, <1>3, <1>4, <1>5, <1>6, <1>7
  DEF Next, Background, Ticking, Stopping

-----------------------------------------------------------------------------
(* The order of execution *)

\* Types of what the invariant is made of.
LEMMA OrderTypes ==
  ASSUME TypeOK
  PROVE  /\ Enqueued \in [Prios -> Seq(AllTasks)]
         /\ \A p \in Prios : /\ Len(Enqueued[p]) \in Nat /\ Len(pendingTasks[p]) \in Nat
                             /\ NumTaken(p) \in Int
         /\ Len(executed) \in Nat
<1>1. \A p \in Prios : added[p] \in Seq(AllTasks) /\ Append(added[p], ExitTask) \in Seq(AllTasks)
  <2> TAKE p \in Prios
  <2>1. added[p] \in Seq(Tasks)
    BY DEF TypeOK
  <2>2. Tasks \subseteq AllTasks /\ ExitTask \in AllTasks
    BY DEF AllTasks
  <2>3. added[p] \in Seq(AllTasks)
    BY <2>1, <2>2
  <2> QED
    BY <2>2, <2>3
<1>2. Enqueued \in [Prios -> Seq(AllTasks)]
  BY <1>1 DEF Enqueued
<1>3. \A p \in Prios : Enqueued[p] \in Seq(AllTasks) /\ pendingTasks[p] \in Seq(AllTasks)
  BY <1>2 DEF TypeOK
<1>4. executed \in Seq(AllTasks)
  BY DEF TypeOK
<1> QED
  BY <1>2, <1>3, <1>4 DEF NumTaken

\* The order of what has happened only depends on the histories.
LEMMA HistoryKept ==
  ASSUME Distinct, InOrder, Enqueued' = Enqueued, executed' = executed
  PROVE  Distinct' /\ InOrder'
<1>1. Distinct'
  BY DEF Distinct
<1>2. InOrder'
  BY DEF InOrder
<1> QED
  BY <1>1, <1>2

\* A step that neither enqueues nor takes nor executes a task.
LEMMA OrderKept ==
  ASSUME OrderInv, UNCHANGED <<pendingTasks, added, executed>>,
         Shutting' = Shutting, Open' => Open,
         background = "execute" <=> background' = "execute",
         background = "execute" => taskTaken' = taskTaken
  PROVE  OrderInv'
<1>1. Enqueued' = Enqueued
  BY DEF Enqueued
<1>2. \A p \in Prios : NumTaken(p)' = NumTaken(p)
  BY <1>1 DEF NumTaken
<1>3. \A task : IsExecuted(task)' <=> IsExecuted(task)
  BY DEF IsExecuted
<1>4. Distinct' /\ InOrder'
  BY <1>1, HistoryKept DEF OrderInv
<1>5. Open' => QueuesExact' /\ TakenExact'
  <2> SUFFICES ASSUME Open' PROVE QueuesExact' /\ TakenExact'
    OBVIOUS
  <2>1. QueuesExact /\ TakenExact
    BY DEF OrderInv
  <2>2. QueuesExact'
    BY <1>1, <1>2, <2>1 DEF QueuesExact
  <2>3. TakenExact'
    BY <1>1, <1>2, <1>3, <2>1 DEF TakenExact
  <2> QED
    BY <2>2, <2>3
<1> QED
  BY <1>4, <1>5 DEF OrderInv

\* A new task is enqueued: one that has not been enqueued before.
Enqueues(task, p) ==
  /\ Open
  /\ \A q \in Prios : \A i \in 1 .. Len(Enqueued[q]) : Enqueued[q][i] # task
  /\ Enqueue(task, p)
  /\ Enqueued' = [Enqueued EXCEPT ![p] = Append(@, task)]
  /\ UNCHANGED <<executed, taskTaken>>
  /\ background = "execute" <=> background' = "execute"

\* Such a step keeps the order.
LEMMA OrderEnqueue ==
  ASSUME TypeOK, OrderInv, NEW task \in AllTasks, NEW p \in Prios, Enqueues(task, p)
  PROVE  OrderInv'
<1> DEFINE E == Enqueued
           F == Enqueued'
<1>1. /\ E \in [Prios -> Seq(AllTasks)]
      /\ pendingTasks \in [Prios -> Seq(AllTasks)]
      /\ \A q \in Prios : /\ Len(E[q]) \in Nat /\ Len(pendingTasks[q]) \in Nat
                          /\ NumTaken(q) \in Int
      /\ Len(executed) \in Nat
  BY OrderTypes DEF TypeOK
<1>2. /\ \A q \in Prios : q # p => F[q] = E[q] /\ pendingTasks'[q] = pendingTasks[q]
      /\ F[p] = Append(E[p], task)
      /\ pendingTasks'[p] = Append(pendingTasks[p], task)
  BY <1>1 DEF Enqueue, Enqueues
<1>3. /\ Len(F[p]) = Len(E[p]) + 1
      /\ F[p][Len(E[p]) + 1] = task
      /\ \A i \in 1 .. Len(E[p]) : F[p][i] = E[p][i]
      /\ Len(pendingTasks'[p]) = Len(pendingTasks[p]) + 1
      /\ pendingTasks'[p][Len(pendingTasks[p]) + 1] = task
      /\ \A i \in 1 .. Len(pendingTasks[p]) : pendingTasks'[p][i] = pendingTasks[p][i]
  <2>1. /\ E[p] \in Seq(AllTasks) /\ pendingTasks[p] \in Seq(AllTasks)
        /\ F[p] = Append(E[p], task)
        /\ pendingTasks'[p] = Append(pendingTasks[p], task)
    BY <1>1, <1>2
  <2> HIDE DEF E, F
  <2> QED
    BY <2>1
<1>4. ASSUME NEW q \in Prios PROVE NumTaken(q)' = NumTaken(q)
  <2>1. /\ NumTaken(q) = Len(E[q]) - Len(pendingTasks[q])
        /\ NumTaken(q)' = Len(F[q]) - Len(pendingTasks'[q])
    BY DEF NumTaken
  <2>2. CASE q = p
    <3>1. /\ Len(F[q]) = Len(E[q]) + 1
          /\ Len(pendingTasks'[q]) = Len(pendingTasks[q]) + 1
          /\ Len(E[q]) \in Nat /\ Len(pendingTasks[q]) \in Nat
      BY <1>1, <1>3, <2>2
    <3> HIDE DEF E, F
    <3> QED
      BY <2>1, <3>1
  <2>3. CASE q # p
    BY <1>2, <2>1, <2>3
  <2> QED
    BY <2>2, <2>3
<1>5. \A q \in Prios : \A i \in 1 .. Len(E[q]) : i \in 1 .. Len(F[q]) /\ F[q][i] = E[q][i]
  <2>1. \A i \in 1 .. Len(E[p]) : i \in 1 .. Len(F[p]) /\ F[p][i] = E[p][i]
    <3>1. Len(F[p]) = Len(E[p]) + 1 /\ Len(E[p]) \in Nat
      BY <1>1, <1>3
    <3> HIDE DEF E, F
    <3>2. \A i \in 1 .. Len(E[p]) : i \in 1 .. Len(F[p])
      BY <3>1
    <3> QED
      BY <1>3, <3>2
  <2> HIDE DEF E, F
  <2> QED
    BY <1>2, <2>1
<1>6. \A q \in Prios : \A i \in 1 .. Len(F[q]) :
        \/ i \in 1 .. Len(E[q])
        \/ q = p /\ i = Len(E[p]) + 1 /\ F[q][i] = task
  BY <1>1, <1>2, <1>3
<1>7. QueuesExact /\ TakenExact /\ Distinct /\ InOrder
  BY DEF OrderInv, Enqueues
<1>8. \A q \in Prios : NumTaken(q) \in 0 .. Len(E[q])
  BY <1>7 DEF QueuesExact
<1>9. \A e : IsExecuted(e)' <=> IsExecuted(e)
  BY DEF IsExecuted, Enqueues
<1>10. ASSUME NEW k \in 1 .. Len(executed) PROVE executed[k] # task
  <2>1. PICK q \in Prios : \E j \in 1 .. NumTaken(q) : executed[k] = E[q][j]
    BY <1>7 DEF TakenExact
  <2>2. PICK j \in 1 .. NumTaken(q) : executed[k] = E[q][j]
    BY <2>1
  <2>3. j \in 1 .. Len(E[q])
    BY <1>1, <1>8, <2>1, <2>2
  <2> QED
    BY <2>2, <2>3 DEF Enqueues
<1> HIDE DEF E, F
<1>11. Distinct'
  <2> SUFFICES ASSUME NEW q \in Prios, NEW r \in Prios,
                      NEW i \in 1 .. Len(F[q]), NEW j \in 1 .. Len(F[r]), F[q][i] = F[r][j]
               PROVE  q = r /\ i = j
    BY DEF Distinct, F
  <2>1. \A s \in Prios : \A n \in 1 .. Len(E[s]) : E[s][n] # task
    BY DEF E, Enqueues
  <2>2. \A s, t \in Prios : \A m \in 1 .. Len(E[s]), n \in 1 .. Len(E[t]) :
          E[s][m] = E[t][n] => s = t /\ m = n
    BY <1>7 DEF Distinct, E
  <2>3. CASE i \in 1 .. Len(E[q]) /\ j \in 1 .. Len(E[r])
    <3>1. F[q][i] = E[q][i] /\ F[r][j] = E[r][j]
      BY <1>5, <2>3
    <3>2. E[q][i] = E[r][j]
      BY <3>1
    <3> QED
      BY <2>2, <2>3, <3>2
  <2>4. CASE i \notin 1 .. Len(E[q])
    <3>1. q = p /\ i = Len(E[p]) + 1 /\ F[q][i] = task
      BY <1>6, <2>4
    <3>2. j \notin 1 .. Len(E[r])
      BY <1>5, <2>1, <3>1
    <3> QED
      BY <1>6, <3>1, <3>2
  <2>5. CASE j \notin 1 .. Len(E[r])
    <3>1. r = p /\ j = Len(E[p]) + 1 /\ F[r][j] = task
      BY <1>6, <2>5
    <3>2. i \notin 1 .. Len(E[q])
      BY <1>5, <2>1, <3>1
    <3> QED
      BY <1>6, <3>1, <3>2
  <2> QED
    BY <2>3, <2>4, <2>5
<1>12. InOrder'
  <2>1. \A k, l \in 1 .. Len(executed) : executed[k] = executed[l] => k = l
    BY <1>7 DEF InOrder
  <2>2. ASSUME NEW q \in Prios, NEW k \in 1 .. Len(executed), NEW i \in 1 .. Len(F[q]),
               executed[k] = F[q][i], NEW j \in 1 .. i - 1
        PROVE  \E l \in 1 .. k - 1 : executed[l] = F[q][j]
    <3>1. i \in 1 .. Len(E[q])
      BY <1>6, <1>10, <2>2
    <3>2. executed[k] = E[q][i]
      BY <1>5, <2>2, <3>1
    <3>3. j \in 1 .. Len(E[q])
      BY <1>1, <2>2, <3>1 DEF E
    <3>4. F[q][j] = E[q][j]
      BY <1>5, <3>3
    <3> QED
      BY <1>7, <2>2, <3>1, <3>2, <3>4 DEF InOrder, E
  <2> QED
    <3>1. executed' = executed
      BY DEF Enqueues
    <3> QED
      BY <2>1, <2>2, <3>1 DEF InOrder, F
<1>13. QueuesExact'
  <2>1. \A q \in Prios : NumTaken(q)' \in 0 .. Len(F[q])
    <3> SUFFICES ASSUME NEW q \in Prios PROVE NumTaken(q) \in 0 .. Len(F[q])
      BY <1>4
    <3>1. CASE q = p
      BY <1>1, <1>3, <1>8, <3>1 DEF E
    <3>2. CASE q # p
      BY <1>2, <1>8, <3>2
    <3> QED
      BY <3>1, <3>2
  <2>2. ASSUME NEW q \in Prios, NEW i \in 1 .. Len(pendingTasks'[q])
        PROVE  pendingTasks'[q][i] = F[q][NumTaken(q) + i]
    <3>1. CASE q = p /\ i = Len(pendingTasks[p]) + 1
      <4>1. NumTaken(p) + i = Len(E[p]) + 1
        BY <1>1, <3>1 DEF NumTaken, E
      <4> QED
        BY <1>3, <3>1, <4>1
    <3>2. CASE ~(q = p /\ i = Len(pendingTasks[p]) + 1)
      <4>1. i \in 1 .. Len(pendingTasks[q]) /\ pendingTasks'[q][i] = pendingTasks[q][i]
        <5>1. CASE q = p
          BY <1>1, <1>3, <3>2, <5>1
        <5>2. CASE q # p
          BY <1>2, <5>2
        <5> QED
          BY <5>1, <5>2
      <4>2. pendingTasks[q][i] = E[q][NumTaken(q) + i]
        BY <1>7, <4>1 DEF QueuesExact, E
      <4>3. NumTaken(q) + i \in 1 .. Len(E[q])
        BY <1>1, <1>8, <4>1 DEF NumTaken, E
      <4> QED
        BY <1>5, <4>1, <4>2, <4>3
    <3> QED
      BY <3>1, <3>2
  <2> QED
    BY <1>4, <2>1, <2>2 DEF QueuesExact, F
<1>14. \A q \in Prios : \A j \in 1 .. NumTaken(q) : F[q][j] = E[q][j]
  BY <1>1, <1>5, <1>8 DEF E
<1>15. TakenExact'
  <2>1. ASSUME NEW k \in 1 .. Len(executed)
        PROVE  \E q \in Prios : \E j \in 1 .. NumTaken(q) : executed[k] = F[q][j]
    BY <1>7, <1>14 DEF TakenExact, E
  <2>2. ASSUME NEW q \in Prios, NEW j \in 1 .. NumTaken(q)
        PROVE  IsExecuted(F[q][j]) \/ (background = "execute" /\ F[q][j] = taskTaken)
    BY <1>7, <1>14 DEF TakenExact, E
  <2>3. ASSUME background = "execute"
        PROVE  \E q \in Prios : NumTaken(q) >= 1 /\ taskTaken = F[q][NumTaken(q)]
    <3>1. PICK q \in Prios : NumTaken(q) >= 1 /\ taskTaken = E[q][NumTaken(q)]
      BY <1>7, <2>3 DEF TakenExact, E
    <3>2. NumTaken(q) \in 1 .. NumTaken(q)
      BY <1>1, <3>1
    <3> QED
      BY <1>14, <3>1, <3>2
  <2>4. background = "execute" => ~IsExecuted(taskTaken)
    BY <1>7 DEF TakenExact
  <2> QED
    <3>0. background' = "execute" <=> background = "execute"
      BY DEF Enqueues
    <3>1. \A q \in Prios : \A j : j \in 1 .. NumTaken(q)' <=> j \in 1 .. NumTaken(q)
      BY <1>4
    <3>2. taskTaken' = taskTaken /\ executed' = executed
      BY DEF Enqueues
    <3>3. \A q \in Prios : NumTaken(q)' >= 1 <=> NumTaken(q) >= 1
      BY <1>4
    <3>4. \A q \in Prios : F[q][NumTaken(q)'] = F[q][NumTaken(q)]
      BY <1>4
    <3> QED
      BY <1>9, <2>1, <2>2, <2>3, <2>4, <3>0, <3>1, <3>2, <3>3, <3>4 DEF TakenExact, F
<1> QED
  BY <1>11, <1>12, <1>13, <1>15 DEF OrderInv

\* The background thread takes the first task of queue p.
LEMMA OrderTake ==
  ASSUME TypeOK, ThreadInv, OrderInv, NEW p \in Prios, BgTake(p)
  PROVE  OrderInv'
<1> DEFINE n == NumTaken(p)
<1>1. /\ background = "take" /\ background' = "execute"
      /\ UNCHANGED <<added, executed, main>>
  BY DEF BgTake, history
<1>2. Enqueued' = Enqueued /\ Open
  BY <1>1 DEF Enqueued, Shutting, Open, ThreadInv
<1>3. QueuesExact /\ TakenExact /\ Distinct /\ InOrder
  BY <1>2 DEF OrderInv
<1>4. /\ pendingTasks[p] \in Seq(AllTasks) /\ pendingTasks[p] # <<>>
      /\ taskTaken' = Head(pendingTasks[p])
      /\ pendingTasks'[p] = Tail(pendingTasks[p])
      /\ \A q \in Prios : q # p => pendingTasks'[q] = pendingTasks[q]
  BY DEF BgTake, TypeOK
<1>5. /\ Len(pendingTasks[p]) \in Nat /\ Len(pendingTasks[p]) >= 1
      /\ taskTaken' = pendingTasks[p][1]
      /\ Len(pendingTasks'[p]) = Len(pendingTasks[p]) - 1
      /\ \A i \in 1 .. Len(pendingTasks[p]) - 1 : pendingTasks'[p][i] = pendingTasks[p][i + 1]
  BY <1>4
<1>6. /\ \A q \in Prios : /\ Len(Enqueued[q]) \in Nat /\ Len(pendingTasks[q]) \in Nat
                          /\ NumTaken(q) \in 0 .. Len(Enqueued[q])
      /\ Len(executed) \in Nat
  BY <1>3, OrderTypes DEF QueuesExact
<1>7. NumTaken(p)' = n + 1 /\ \A q \in Prios : q # p => NumTaken(q)' = NumTaken(q)
  <2>1. \A q \in Prios : /\ NumTaken(q) = Len(Enqueued[q]) - Len(pendingTasks[q])
                         /\ NumTaken(q)' = Len(Enqueued[q]) - Len(pendingTasks'[q])
    BY <1>2 DEF NumTaken
  <2>2. NumTaken(p)' = n + 1
    <3>1. Len(Enqueued[p]) \in Nat /\ Len(pendingTasks[p]) \in Nat
      BY <1>6
    <3>2. n = Len(Enqueued[p]) - Len(pendingTasks[p])
      BY <2>1
    <3>3. NumTaken(p)' = Len(Enqueued[p]) - (Len(pendingTasks[p]) - 1)
      BY <1>5, <2>1
    <3> HIDE DEF n
    <3> QED
      BY <3>1, <3>2, <3>3
  <2> QED
    BY <1>4, <2>1, <2>2
<1>8. n + 1 \in 1 .. Len(Enqueued[p]) /\ n \in Nat
  <2>1. n = Len(Enqueued[p]) - Len(pendingTasks[p])
    BY DEF NumTaken
  <2> HIDE DEF n
  <2>2. n \in 0 .. Len(Enqueued[p])
    BY <1>6 DEF n
  <2>3. Len(Enqueued[p]) \in Nat /\ Len(pendingTasks[p]) \in Nat /\ Len(pendingTasks[p]) >= 1
    BY <1>5, <1>6
  <2>4. n \in Nat /\ n + 1 <= Len(Enqueued[p])
    BY <2>1, <2>2, <2>3, SMT
  <2> QED
    BY <2>3, <2>4, SMT
<1>9. taskTaken' = Enqueued[p][n + 1]
  BY <1>3, <1>5 DEF QueuesExact
<1> HIDE DEF n
<1>10. ~IsExecuted(taskTaken')
  <2> SUFFICES ASSUME NEW k \in 1 .. Len(executed), executed[k] = taskTaken' PROVE FALSE
    BY DEF IsExecuted
  <2>1. PICK q \in Prios : \E j \in 1 .. NumTaken(q) : executed[k] = Enqueued[q][j]
    BY <1>3 DEF TakenExact
  <2>2. PICK j \in 1 .. NumTaken(q) : executed[k] = Enqueued[q][j]
    BY <2>1
  <2>3. j \in 1 .. Len(Enqueued[q])
    BY <1>6, <2>1, <2>2
  <2>4. q = p /\ j = n + 1
    BY <1>3, <1>8, <1>9, <2>2, <2>3 DEF Distinct
  <2> QED
    BY <1>8, <2>2, <2>4 DEF n
<1>11. QueuesExact'
  <2>1. ASSUME NEW q \in Prios PROVE NumTaken(q)' \in 0 .. Len(Enqueued[q])
    <3>1. CASE q = p
      BY <1>7, <1>8, <3>1
    <3>2. CASE q # p
      BY <1>6, <1>7, <3>2
    <3> QED
      BY <3>1, <3>2
  <2>2. ASSUME NEW q \in Prios, NEW i \in 1 .. Len(pendingTasks'[q])
        PROVE  pendingTasks'[q][i] = Enqueued[q][NumTaken(q)' + i]
    <3>1. CASE q = p
      <4>1. i \in 1 .. Len(pendingTasks[p]) - 1 /\ i + 1 \in 1 .. Len(pendingTasks[p])
        BY <1>5, <3>1
      <4>2. pendingTasks[p][i + 1] = Enqueued[p][n + (i + 1)]
        BY <1>3, <4>1 DEF QueuesExact, n
      <4>3. n + (i + 1) = (n + 1) + i
        BY <1>8, <4>1
      <4> QED
        BY <1>5, <1>7, <3>1, <4>1, <4>2, <4>3
    <3>2. CASE q # p
      BY <1>3, <1>4, <1>7, <3>2 DEF QueuesExact
    <3> QED
      BY <3>1, <3>2
  <2> QED
    BY <1>2, <2>1, <2>2 DEF QueuesExact
<1>12. \A e : IsExecuted(e)' <=> IsExecuted(e)
  BY <1>1 DEF IsExecuted
<1>13. ASSUME NEW q \in Prios, NEW j \in 1 .. NumTaken(q)'
       PROVE  j \in 1 .. NumTaken(q) \/ (q = p /\ j = n + 1)
  <2>1. CASE q = p
    BY <1>7, <1>8, <2>1 DEF n
  <2>2. CASE q # p
    BY <1>7, <2>2
  <2> QED
    BY <2>1, <2>2
<1>14. ASSUME NEW q \in Prios, NEW j \in 1 .. NumTaken(q) PROVE j \in 1 .. NumTaken(q)'
  <2>1. CASE q = p
    BY <1>7, <1>8, <2>1 DEF n
  <2>2. CASE q # p
    BY <1>7, <2>2
  <2> QED
    BY <2>1, <2>2
<1>15. TakenExact'
  <2>1. ASSUME NEW k \in 1 .. Len(executed)
        PROVE  \E q \in Prios : \E j \in 1 .. NumTaken(q)' : executed[k] = Enqueued[q][j]
    BY <1>3, <1>14 DEF TakenExact
  <2>2. ASSUME NEW q \in Prios, NEW j \in 1 .. NumTaken(q)'
        PROVE  IsExecuted(Enqueued[q][j]) \/ Enqueued[q][j] = taskTaken'
    BY <1>1, <1>3, <1>9, <1>13 DEF TakenExact
  <2>3. NumTaken(p)' >= 1 /\ taskTaken' = Enqueued[p][NumTaken(p)']
    BY <1>7, <1>8, <1>9
  <2> QED
    BY <1>1, <1>2, <1>10, <1>12, <2>1, <2>2, <2>3 DEF TakenExact
<1>16. Distinct' /\ InOrder'
  BY <1>1, <1>2, <1>3 DEF Distinct, InOrder
<1> QED
  BY <1>11, <1>15, <1>16 DEF OrderInv

\* The task that has been taken is executed.
LEMMA OrderExecute ==
  ASSUME TypeOK, ThreadInv, OrderInv, BgExecute
  PROVE  OrderInv'
<1> DEFINE n == Len(executed)
<1>1. /\ background = "execute" /\ background' = "complete"
      /\ UNCHANGED <<added, pendingTasks, main, taskTaken>>
      /\ executed' = Append(executed, taskTaken)
  BY DEF BgExecute, queues
<1>2. Enqueued' = Enqueued /\ Open /\ \A q \in Prios : NumTaken(q)' = NumTaken(q)
  BY <1>1 DEF Enqueued, Shutting, Open, ThreadInv, NumTaken
<1>3. QueuesExact /\ TakenExact /\ Distinct /\ InOrder
  BY <1>2 DEF OrderInv
<1>4. /\ n \in Nat /\ Len(executed') = n + 1 /\ executed'[n + 1] = taskTaken
      /\ \A k \in 1 .. n : executed'[k] = executed[k]
  <2>1. executed \in Seq(AllTasks)
    BY DEF TypeOK
  <2> QED
    BY <1>1, <2>1
<1> HIDE DEF n
<1>5. \A k \in 1 .. n : executed[k] # taskTaken
  BY <1>1, <1>3 DEF TakenExact, IsExecuted, n
<1>6. \A k \in 1 .. n + 1 : k \in 1 .. n \/ k = n + 1
  BY <1>4
<1>7. \A k \in 1 .. n : k \in 1 .. n + 1
  BY <1>4
<1>8. n + 1 \in 1 .. n + 1
  BY <1>4
<1>9. \A e : IsExecuted(e)' <=> IsExecuted(e) \/ e = taskTaken
  <2>1. \A e : IsExecuted(e)' <=> \E k \in 1 .. n + 1 : executed'[k] = e
    BY <1>4 DEF IsExecuted
  <2> QED
    BY <1>4, <1>6, <1>7, <1>8, <2>1 DEF IsExecuted, n
<1>10. PICK p \in Prios : NumTaken(p) >= 1 /\ taskTaken = Enqueued[p][NumTaken(p)]
  BY <1>1, <1>3 DEF TakenExact
<1>11. \A q \in Prios : Len(Enqueued[q]) \in Nat /\ NumTaken(q) \in 0 .. Len(Enqueued[q])
  BY <1>3, OrderTypes DEF QueuesExact
<1>12. NumTaken(p) \in 1 .. Len(Enqueued[p]) /\ NumTaken(p) \in 1 .. NumTaken(p)
  BY <1>10, <1>11
<1>13. TakenExact'
  <2>1. ASSUME NEW k \in 1 .. n + 1
        PROVE  \E q \in Prios : \E j \in 1 .. NumTaken(q) : executed'[k] = Enqueued[q][j]
    <3>1. CASE k \in 1 .. n
      BY <1>3, <1>4, <3>1 DEF TakenExact, n
    <3>2. CASE k = n + 1
      BY <1>4, <1>10, <1>12, <3>2
    <3> QED
      BY <1>6, <3>1, <3>2
  <2>2. ASSUME NEW q \in Prios, NEW j \in 1 .. NumTaken(q)
        PROVE  IsExecuted(Enqueued[q][j])'
    BY <1>2, <1>3, <1>9 DEF TakenExact
  <2>3. \A k \in 1 .. Len(executed') : k \in 1 .. n + 1
    BY <1>4
  <2> QED
    BY <1>1, <1>2, <2>1, <2>2, <2>3 DEF TakenExact
<1>14. InOrder'
  <2>1. ASSUME NEW k \in 1 .. n + 1, NEW l \in 1 .. n + 1, executed'[k] = executed'[l]
        PROVE  k = l
    BY <1>3, <1>4, <1>5, <1>6, <2>1 DEF InOrder, n
  <2>2. ASSUME NEW q \in Prios, NEW k \in 1 .. n + 1, NEW i \in 1 .. Len(Enqueued[q]),
               executed'[k] = Enqueued[q][i], NEW j \in 1 .. i - 1
        PROVE  \E l \in 1 .. k - 1 : executed'[l] = Enqueued[q][j]
    <3>1. CASE k \in 1 .. n
      <4>1. PICK l \in 1 .. k - 1 : executed[l] = Enqueued[q][j]
        BY <1>3, <1>4, <2>2, <3>1 DEF InOrder, n
      <4>2. l \in 1 .. n
        BY <1>4, <3>1
      <4> QED
        BY <1>4, <4>1, <4>2
    <3>2. CASE k = n + 1
      <4>1. q = p /\ i = NumTaken(p)
        BY <1>3, <1>4, <1>10, <1>12, <2>2, <3>2 DEF Distinct
      <4>2. j \in 1 .. NumTaken(p) /\ j \in 1 .. Len(Enqueued[p]) /\ j # NumTaken(p)
        BY <1>11, <1>12, <2>2, <4>1
      <4>3. Enqueued[p][j] # taskTaken
        BY <1>3, <1>10, <1>12, <4>2 DEF Distinct
      <4>4. IsExecuted(Enqueued[p][j])
        BY <1>3, <4>2, <4>3 DEF TakenExact
      <4>5. PICK l \in 1 .. n : executed[l] = Enqueued[q][j]
        BY <4>1, <4>4 DEF IsExecuted, n
      <4>6. l \in 1 .. k - 1
        BY <1>4, <3>2
      <4> QED
        BY <1>4, <4>5, <4>6
    <3> QED
      BY <1>6, <3>1, <3>2
  <2>3. \A k \in 1 .. Len(executed') : k \in 1 .. n + 1
    BY <1>4
  <2> QED
    BY <1>2, <2>1, <2>2, <2>3 DEF InOrder
<1>15. Distinct' /\ QueuesExact'
  <2>1. Distinct'
    BY <1>2, <1>3 DEF Distinct
  <2>2. QueuesExact'
    BY <1>1, <1>2, <1>3 DEF QueuesExact
  <2> QED
    BY <2>1, <2>2
<1> QED
  BY <1>13, <1>14, <1>15 DEF OrderInv

\* A task that is enqueued is a new one, and goes to the end.
LEMMA AddEnqueues ==
  ASSUME TypeOK, NEW t \in Threads, NEW task \in Tasks, NEW p \in Prios, Add(t, task, p)
  PROVE  Enqueues(task, p)
<1>1. main \in {"run", "tick", "clear"} /\ main' = main
  BY DEF Add
<1>2. Enqueued = added /\ Enqueued' = added'
  BY <1>1 DEF Enqueued, Shutting, TypeOK, Add
<1>3. \A q \in Prios : \A i \in 1 .. Len(added[q]) : added[q][i] # task
  <2> SUFFICES ASSUME NEW q \in Prios, NEW i \in 1 .. Len(added[q]), added[q][i] = task
               PROVE  FALSE
    OBVIOUS
  <2>1. added[q] \in Seq(Tasks)
    BY DEF TypeOK
  <2>2. i \in DOMAIN added[q]
    BY <2>1
  <2>3. task \in ToSet(added[q])
    BY <2>2 DEF ToSet
  <2> QED
    BY <2>3 DEF Add, AllAdded
<1> QED
  BY <1>1, <1>2, <1>3 DEF Enqueues, Open, Add

\* So is the dummy task of Shutdown.
LEMMA ShutdownEnqueues ==
  ASSUME TypeOK, ThreadInv, ShutdownBegin
  PROVE  Enqueues(ExitTask, PriorityNormal) /\ PriorityNormal \in Prios
<1>1. main = "run" /\ main' = "notify" /\ added' = added
  BY DEF ShutdownBegin, MainIdle, history
<1>2. PriorityNormal \in Prios
  BY PriosAssumption DEF Prios
<1>3. Enqueued = added
  BY <1>1 DEF Enqueued, Shutting, TypeOK
<1>4. Enqueued' = [added EXCEPT ![PriorityNormal] = Append(@, ExitTask)]
  BY <1>1 DEF Enqueued, Shutting, TypeOK
<1>5. \A q \in Prios : \A i \in 1 .. Len(added[q]) : added[q][i] # ExitTask
  <2> TAKE q \in Prios
  <2>1. added[q] \in Seq(Tasks)
    BY DEF TypeOK
  <2>2. \A i \in 1 .. Len(added[q]) : added[q][i] \in Tasks
    BY <2>1
  <2> QED
    BY <2>2, TasksAssumption
<1>6. background = "execute" <=> background' = "execute"
  BY DEF ShutdownBegin, Woken
<1> QED
  BY <1>1, <1>2, <1>3, <1>4, <1>5, <1>6 DEF Enqueues, Open, ShutdownBegin, history

\* Every step keeps the order.
LEMMA NextOrder == ASSUME TypeOK, ThreadInv, OrderInv, Next PROVE OrderInv'
<1>1. ASSUME NEW t \in Threads, NEW task \in Tasks, NEW p \in Prios, Add(t, task, p)
      PROVE  OrderInv'
  BY <1>1, AddEnqueues, OrderEnqueue DEF AllTasks
<1>2. CASE ShutdownBegin
  BY <1>2, ShutdownEnqueues, OrderEnqueue DEF AllTasks
<1>3. ASSUME NEW p \in Prios, BgTake(p) PROVE OrderInv'
  BY <1>3, OrderTake
<1>4. CASE BgExecute
  BY <1>4, OrderExecute
<1>5. ASSUME NEW t \in Threads, Notify(t) PROVE OrderInv'
  BY <1>5, OrderKept DEF Notify, Woken, Shutting, Open, queues, history
<1>6. CASE BgLoop \/ BgWait \/ BgCheck \/ BgSpurious \/ BgComplete
  BY <1>6, OrderKept
  DEF BgLoop, BgWait, BgCheck, BgSpurious, BgComplete, Shutting, Open, queues, history
<1>7. CASE TickBegin \/ TickTask \/ TickLast \/ TickEnd \/ ShutdownNotify
  BY <1>7, OrderKept
  DEF TickBegin, MainIdle, TickTask, TickLast, TickEnd, ShutdownNotify, Woken,
      Shutting, Open, queues, history
<1>8. CASE ShutdownJoin
  <2>1. Enqueued' = Enqueued /\ executed' = executed /\ ~Open'
    BY <1>8 DEF ShutdownJoin, Enqueued, Shutting, Open, history
  <2> QED
    BY <2>1, HistoryKept DEF OrderInv
<1>9. CASE RequestExit \/ Down
  BY <1>9, OrderKept DEF RequestExit, Down, vars, Shutting, Open, queues, history
<1> QED
  BY <1>1, <1>2, <1>3, <1>4, <1>5, <1>6, <1>7, <1>8, <1>9
  DEF Next, Background, Ticking, Stopping

-----------------------------------------------------------------------------
(* The list of executed tasks *)

\* A step that touches neither the lists nor what the threads do with them.
LEMMA ListKept ==
  ASSUME ListInv, UNCHANGED <<executed, finalized, completedTasks, current, taskTaken>>,
         background = "complete" <=> background' = "complete",
         \/ main' = main
         \/ main \notin {"tick", "clear", "down"} /\ main' \notin {"tick", "clear"}
  PROVE  ListInv'
<1>1. Open' => NumFinalized' = NumFinalized /\ Open
  BY DEF NumFinalized, Open
<1>2. Open' => ListStart' = ListStart /\ ListExact
  BY <1>1 DEF ListStart, ListInv
<1> QED
  BY <1>2 DEF ListInv, ListExact

\* Every step keeps the list exact.
LEMMA NextList == ASSUME TypeOK, ThreadInv, ListInv, Next PROVE ListInv'
<1> USE DEF queues, history
<1>0. /\ executed \in Seq(AllTasks) /\ finalized \in Seq(AllTasks)
      /\ completedTasks \in Seq(AllTasks)
  BY DEF TypeOK
<1>t. Len(executed) \in Nat /\ Len(finalized) \in Nat /\ Len(completedTasks) \in Nat
  BY <1>0
<1>1. ASSUME NEW t \in Threads, NEW task \in Tasks, NEW p \in Prios, Add(t, task, p)
      PROVE  ListInv'
  BY <1>1, ListKept DEF Add
<1>2. ASSUME NEW t \in Threads, Notify(t) PROVE ListInv'
  BY <1>2, ListKept DEF Notify, Woken
<1>3. CASE BgLoop \/ BgWait \/ BgCheck \/ BgSpurious
  BY <1>3, ListKept DEF BgLoop, BgWait, BgCheck, BgSpurious
<1>4. ASSUME NEW p \in Prios, BgTake(p) PROVE ListInv'
  <2>1. /\ UNCHANGED <<executed, finalized, completedTasks, current, main>>
        /\ background # "complete" /\ background' # "complete"
    BY <1>4 DEF BgTake
  <2>2. ListStart' = ListStart /\ Open' = Open
    BY <2>1 DEF ListStart, NumFinalized, Open
  <2> QED
    BY <2>1, <2>2 DEF ListInv, ListExact
<1>5. CASE BgExecute
  <2>1. /\ UNCHANGED <<finalized, completedTasks, current, main, taskTaken>>
        /\ executed' = Append(executed, taskTaken)
        /\ background = "execute" /\ background' = "complete" /\ Open
    BY <1>5 DEF BgExecute, Open, ThreadInv
  <2>2. ListStart' = ListStart /\ Open' = Open /\ ListExact
    BY <2>1 DEF ListStart, NumFinalized, Open, ListInv
  <2>3. /\ Len(executed') = Len(executed) + 1
        /\ executed'[Len(executed) + 1] = taskTaken
        /\ \A k \in 1 .. Len(executed) : executed'[k] = executed[k]
    BY <1>0, <2>1
  <2>4. /\ ListStart \in Nat /\ Len(executed) = ListStart + Len(completedTasks)
        /\ \A i \in 1 .. Len(completedTasks) : completedTasks[i] = executed[ListStart + i]
    BY <2>1, <2>2, <1>t DEF ListExact
  <2>5. \A i \in 1 .. Len(completedTasks) : completedTasks[i] = executed'[ListStart + i]
    BY <1>t, <2>3, <2>4
  <2>6. ListExact'
    BY <1>t, <2>1, <2>2, <2>3, <2>4, <2>5 DEF ListExact
  <2>7. \A i \in 1 .. Len(finalized) : finalized[i] = executed'[i]
    BY <1>t, <2>3 DEF ListInv
  <2> QED
    BY <1>t, <2>1, <2>3, <2>6, <2>7 DEF ListInv
<1>6. CASE BgComplete
  <2>1. /\ UNCHANGED <<executed, finalized, current, main>>
        /\ completedTasks' = Append(completedTasks, taskTaken)
        /\ background = "complete" /\ background' # "complete"
        /\ main \notin {"tick", "clear", "down"}
    BY <1>6 DEF BgComplete, ThreadInv
  <2>2. ListStart' = ListStart /\ Open' /\ Open /\ ListExact
    BY <2>1 DEF ListStart, NumFinalized, Open, ListInv
  <2>3. /\ Len(completedTasks') = Len(completedTasks) + 1
        /\ completedTasks'[Len(completedTasks) + 1] = taskTaken
        /\ \A k \in 1 .. Len(completedTasks) : completedTasks'[k] = completedTasks[k]
    BY <1>0, <2>1
  <2>4. /\ ListStart \in Nat /\ Len(executed) = ListStart + Len(completedTasks) + 1
        /\ executed[Len(executed)] = taskTaken
        /\ \A i \in 1 .. Len(completedTasks) : completedTasks[i] = executed[ListStart + i]
    BY <2>1, <2>2, <1>t DEF ListExact
  <2>5. \A i \in 1 .. Len(completedTasks) + 1 : completedTasks'[i] = executed[ListStart + i]
    BY <1>t, <2>3, <2>4
  <2>6. ListExact'
    BY <1>t, <2>1, <2>2, <2>3, <2>4, <2>5 DEF ListExact
  <2> QED
    BY <2>1, <2>2, <2>6 DEF ListInv
<1>7. CASE TickBegin
  <2>1. NumFinalized' = 0 /\ NumFinalized = 0 /\ Open /\ Open'
    BY <1>7 DEF TickBegin, MainIdle, NumFinalized, Open
  <2>2. ListStart' = ListStart
    BY <1>7, <2>1 DEF TickBegin, ListStart
  <2> QED
    BY <1>7, <2>1, <2>2 DEF TickBegin, ListInv, ListExact
<1>8. CASE TickTask
  <2>1. /\ UNCHANGED <<executed, completedTasks, background, taskTaken, main>>
        /\ main = "tick" /\ current' = current + 1
        /\ finalized' = Append(finalized, completedTasks[current])
        /\ current \in 1 .. Len(completedTasks)
    BY <1>8, <1>t DEF TickTask, ThreadInv
  <2>2. /\ Len(finalized') = Len(finalized) + 1
        /\ finalized'[Len(finalized) + 1] = completedTasks[current]
        /\ \A k \in 1 .. Len(finalized) : finalized'[k] = finalized[k]
    BY <1>0, <2>1
  <2>3. Open /\ Open' /\ ListExact
    BY <2>1 DEF Open, ListInv
  <2>4. ListStart = Len(finalized) - (current - 1)
    BY <2>1 DEF ListStart, NumFinalized
  <2>5. ListStart' = (Len(finalized) + 1) - ((current + 1) - 1)
    BY <2>1, <2>2 DEF ListStart, NumFinalized
  <2>6. ListStart' = ListStart /\ ListStart + current = Len(finalized) + 1
    BY <1>t, <2>1, <2>4, <2>5
  <2>7. completedTasks[current] = executed[Len(finalized) + 1]
    BY <2>1, <2>3, <2>6 DEF ListExact
  <2>8. Len(finalized) + 1 <= Len(executed)
    BY <1>t, <2>1, <2>3, <2>6 DEF ListExact
  <2>9. \A i \in 1 .. Len(finalized) + 1 : finalized'[i] = executed[i]
    BY <1>t, <2>2, <2>7 DEF ListInv
  <2> QED
    BY <2>1, <2>2, <2>3, <2>6, <2>8, <2>9 DEF ListInv, ListExact
<1>9. CASE TickLast
  <2>1. /\ UNCHANGED <<executed, finalized, completedTasks, background, taskTaken>>
        /\ main = "tick" /\ main' = "clear"
        /\ current = Len(completedTasks) + 1
    BY <1>9, <1>t DEF TickLast, ThreadInv, TypeOK
  <2>2. NumFinalized = Len(completedTasks) /\ NumFinalized' = Len(completedTasks)
    BY <1>t, <2>1 DEF NumFinalized
  <2>3. ListStart' = ListStart /\ Open /\ Open'
    BY <2>1, <2>2 DEF ListStart, Open
  <2> QED
    BY <2>1, <2>3 DEF ListInv, ListExact
<1>10. CASE TickEnd
  <2>1. /\ UNCHANGED <<executed, finalized, background, taskTaken>>
        /\ main = "clear" /\ main' = "run" /\ completedTasks' = <<>>
    BY <1>10 DEF TickEnd
  <2>2. /\ ListStart = Len(finalized) - Len(completedTasks) /\ ListStart' = Len(finalized)
        /\ Open /\ Open' /\ ListExact
    BY <1>t, <2>1 DEF ListStart, NumFinalized, Open, ListInv
  <2>3. Len(completedTasks') = 0
    BY <2>1
  <2>4. ListExact'
    BY <1>t, <2>1, <2>2, <2>3 DEF ListExact
  <2> QED
    BY <2>1, <2>4 DEF ListInv
<1>11. CASE ShutdownBegin \/ ShutdownNotify
  BY <1>11, ListKept DEF ShutdownBegin, ShutdownNotify, MainIdle, Woken
<1>12. CASE ShutdownJoin
  BY <1>12 DEF ShutdownJoin, Open, ListInv
<1>13. CASE RequestExit \/ Down
  BY <1>13, ListKept DEF RequestExit, Down, vars
<1> QED
  BY <1>1, <1>2, <1>3, <1>4, <1>5, <1>6, <1>7, <1>8, <1>9, <1>10, <1>11, <1>12, <1>13
  DEF Next, Background, Ticking, Stopping

-----------------------------------------------------------------------------
(* The theorems *)

\* The invariant holds in every reachable state.
LEMMA Invariance == Spec => []IInv
<1>1. IInv /\ [Next]_vars => IInv'
  <2>1. IInv /\ Next => IInv'
    BY NextType, NextThread, NextNoticed, NextOrder, NextList DEF IInv
  <2>2. IInv /\ UNCHANGED vars => IInv'
    <3> SUFFICES ASSUME IInv, UNCHANGED vars PROVE IInv'
      OBVIOUS
    <3>1. OrderInv'
      BY OrderKept DEF IInv, vars, queues, history, Shutting, Open
    <3>2. ListInv'
      BY ListKept DEF IInv, vars, history
    <3>3. TypeOK' /\ ThreadInv' /\ SleepIsNoticed'
      BY DEF IInv, vars, queues, history, TypeOK, ThreadInv, SleepIsNoticed
    <3> QED
      BY <3>1, <3>2, <3>3 DEF IInv
  <2> QED
    BY <2>1, <2>2
<1> QED
  BY InitIInv, <1>1, PTL DEF Spec

\* The state keeps its type.
THEOREM TypeCorrect == Spec => []TypeOK
<1>1. IInv => TypeOK
  BY DEF IInv
<1> QED
  BY Invariance, <1>1, PTL

\* The background thread never sleeps over a task without a notification on
\* its way, though add() notifies only when the queues were empty.
THEOREM NoMissedWakeUp == Spec => []SleepIsNoticed
<1>1. IInv => SleepIsNoticed
  BY DEF IInv
<1> QED
  BY Invariance, <1>1, PTL

\* Tasks of one priority are executed in the order they were added, each once.
THEOREM QueuesAreFifo == Spec => []FifoPerPriority
<1>1. ASSUME IInv PROVE FifoPerPriority
  <2>1. DOMAIN executed = 1 .. Len(executed) /\ InOrder /\ Enqueued \in [Prios -> Seq(AllTasks)]
    BY <1>1, OrderTypes DEF IInv, TypeOK, OrderInv
  <2>2. ASSUME NEW p \in Prios
        PROVE  /\ DOMAIN added[p] = 1 .. Len(added[p]) /\ Len(added[p]) \in Nat
               /\ \A i \in DOMAIN added[p] :
                    i \in 1 .. Len(Enqueued[p]) /\ Enqueued[p][i] = added[p][i]
    <3>1. added[p] \in Seq(Tasks)
      BY <1>1 DEF IInv, TypeOK
    <3>2. Enqueued[p] = added[p] \/ Enqueued[p] = Append(added[p], ExitTask)
      BY DEF Enqueued
    <3> QED
      BY <3>1, <3>2
  <2>3. IsInjective(executed)
    BY <2>1 DEF InOrder, IsInjective
  <2>4. ASSUME NEW p \in Prios, NEW k \in DOMAIN executed, NEW i \in DOMAIN added[p],
               executed[k] = added[p][i], NEW j \in 1 .. i - 1
        PROVE  \E l \in 1 .. k - 1 : executed[l] = added[p][j]
    <3>1. j \in DOMAIN added[p]
      BY <2>2, <2>4
    <3>2. executed[k] = Enqueued[p][i] /\ Enqueued[p][j] = added[p][j]
      BY <2>2, <2>4, <3>1
    <3>3. k \in 1 .. Len(executed) /\ i \in 1 .. Len(Enqueued[p])
      BY <2>1, <2>2
    <3>4. PICK l \in 1 .. k - 1 : executed[l] = Enqueued[p][j]
      BY <2>1, <2>4, <3>2, <3>3 DEF InOrder
    <3> QED
      BY <3>2, <3>4
  <2> QED
    BY <2>3, <2>4 DEF FifoPerPriority
<1> QED
  BY Invariance, <1>1, PTL

\* A task that was executed has been finalized, or is in the list, or is still
\* with the background thread.
LEMMA WhereExecuted ==
  ASSUME IInv, Open, NEW k \in 1 .. Len(executed)
  PROVE  \/ k \in 1 .. Len(finalized)
         \/ /\ executed[k] \in ToSet(completedTasks) /\ main # "clear"
         \/ executed[k] = taskTaken
<1>1. ListExact /\ ListInv
  BY DEF IInv, ListInv
<1>2. completedTasks \in Seq(AllTasks) /\ finalized \in Seq(AllTasks) /\ executed \in Seq(AllTasks)
  BY DEF IInv, TypeOK
<1>3. Len(completedTasks) \in Nat /\ Len(finalized) \in Nat /\ Len(executed) \in Nat
  BY <1>2
<1> SUFFICES ASSUME k \notin 1 .. Len(finalized)
             PROVE  (executed[k] \in ToSet(completedTasks) /\ main # "clear")
                    \/ executed[k] = taskTaken
  OBVIOUS
<1>4. k > Len(finalized)
  BY <1>3
<1>5. /\ NumFinalized \in Nat /\ (main = "clear" => NumFinalized = Len(completedTasks))
      /\ ListStart = Len(finalized) - NumFinalized
  BY <1>3 DEF NumFinalized, ListStart, IInv, ThreadInv
<1>6. CASE k <= ListStart + Len(completedTasks)
  <2> DEFINE i == k - ListStart
  <2>1. i \in 1 .. Len(completedTasks) /\ ListStart + i = k
    BY <1>1, <1>3, <1>4, <1>5, <1>6 DEF ListExact
  <2> HIDE DEF i
  <2>2. completedTasks[i] = executed[k] /\ i \in DOMAIN completedTasks
    BY <1>1, <1>2, <2>1 DEF ListExact
  <2>3. main # "clear"
    BY <1>1, <1>3, <1>4, <1>5, <1>6 DEF ListExact
  <2> QED
    BY <2>2, <2>3 DEF ToSet
<1>7. CASE ~(k <= ListStart + Len(completedTasks))
  <2>1. background = "complete" /\ k = Len(executed)
    BY <1>1, <1>3, <1>7 DEF ListExact
  <2> QED
    BY <1>1, <2>1 DEF ListExact
<1> QED
  BY <1>6, <1>7

\* Until Shutdown has joined the thread, no executed task is lost before it is
\* finalized.
THEOREM NothingIsDropped == Spec => []NothingDropped
<1>1. ASSUME IInv PROVE NothingDropped
  <2> SUFFICES ASSUME main # "down", NEW k \in DOMAIN executed,
                      executed[k] \notin ToSet(finalized)
               PROVE  executed[k] = taskTaken
                      \/ (executed[k] \in ToSet(completedTasks) /\ main # "clear")
    BY DEF NothingDropped, ToSet
  <2>1. k \in 1 .. Len(executed) /\ finalized \in Seq(AllTasks)
    BY <1>1 DEF IInv, TypeOK
  <2>2. k \notin 1 .. Len(finalized)
    <3> SUFFICES ASSUME k \in 1 .. Len(finalized) PROVE FALSE
      OBVIOUS
    <3>1. finalized[k] = executed[k] /\ k \in DOMAIN finalized
      BY <1>1, <2>1 DEF IInv, ListInv
    <3> QED
      BY <3>1 DEF ToSet
  <2> QED
    BY <1>1, <2>1, <2>2, WhereExecuted DEF Open
<1> QED
  BY Invariance, <1>1, PTL

\* Tasks are finalized in the order they were executed, each once, and never
\* while the background thread still has them.
THEOREM FinalizedLikeExecuted == Spec => []FinalizedInOrder
<1>1. ASSUME IInv PROVE FinalizedInOrder
  <2>1. /\ executed \in Seq(AllTasks) /\ finalized \in Seq(AllTasks)
        /\ Len(finalized) <= Len(executed)
        /\ \A i \in 1 .. Len(finalized) : finalized[i] = executed[i]
    BY <1>1 DEF IInv, TypeOK, ListInv
  <2>2. IsPrefix(finalized, executed)
    BY <2>1 DEF IsPrefix
  <2>3. taskTaken \notin ToSet(finalized)
    <3> SUFFICES ASSUME NEW i \in DOMAIN finalized, finalized[i] = taskTaken PROVE FALSE
      BY DEF ToSet
    <3>1. i \in 1 .. Len(finalized) /\ finalized[i] \in AllTasks
      BY <2>1
    <3>2. i \in 1 .. Len(executed) /\ executed[i] = taskTaken
      BY <2>1, <3>1
    <3>3. background \in {"execute", "complete"} /\ Open
      BY <1>1, <3>1, TasksAssumption DEF IInv, ThreadInv, AllTasks, Open
    <3>4. CASE background = "execute"
      BY <1>1, <3>2, <3>3, <3>4 DEF IInv, OrderInv, TakenExact, IsExecuted
    <3>5. CASE background = "complete"
      <4>1. ListExact /\ Len(executed) \in Nat /\ Len(completedTasks) \in Nat
            /\ Len(finalized) \in Nat /\ completedTasks \in Seq(AllTasks)
        BY <1>1, <3>3, <2>1 DEF IInv, ListInv, TypeOK
      <4>2. executed[Len(executed)] = taskTaken
        BY <3>5, <4>1 DEF ListExact
      <4>3. Len(executed) = ListStart + Len(completedTasks) + 1
        BY <3>5, <4>1 DEF ListExact
      <4>4. NumFinalized <= Len(completedTasks) /\ NumFinalized \in Int
        BY <1>1, <4>1 DEF NumFinalized, IInv, ThreadInv
      <4>5. Len(finalized) < Len(executed)
        BY <4>1, <4>3, <4>4 DEF ListStart
      <4>6. i # Len(executed) /\ Len(executed) \in 1 .. Len(executed)
        BY <3>1, <3>2, <4>1, <4>5
      <4> QED
        BY <1>1, <3>2, <4>2, <4>6 DEF IInv, OrderInv, InOrder
    <3> QED
      BY <3>3, <3>4, <3>5
  <2> QED
    BY <2>2, <2>3 DEF FinalizedInOrder
<1> QED
  BY Invariance, <1>1, PTL
=============================================================================
