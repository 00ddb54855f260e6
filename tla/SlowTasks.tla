------------------------------ MODULE SlowTasks ------------------------------
(***************************************************************************)
(* The scheduler for tasks that last more than a frame                     *)
(* (Core/Tasking/SlowTasks.cpp): any thread adds tasks to one of the       *)
(* priority queues, one background thread executes them, and the main      *)
(* thread finalizes the executed ones in Tick, once a frame, until it      *)
(* calls Shutdown.                                                          *)
(*                                                                         *)
(* The sections under pendingTasksCS are one step each.  completedTasksCS  *)
(* is a variable, because Tick holds it while it calls the tasks back, and *)
(* so is the notification that add() sends after it has unlocked.          *)
(***************************************************************************)
EXTENDS Integers, Sequences, FiniteSets, SequencesExt

CONSTANTS Tasks,        \* the tasks the program adds, each of them once
          ExitTask,     \* the dummy task of Shutdown
          NoTask,       \* no task (nil)
          NumPrios,     \* PriorityMAX
          PriorityNormal,
          Main,         \* the main thread
          Adders,       \* other threads that add tasks
          MayExit       \* TRUE: the application may be asked to exit

ASSUME TasksAssumption ==
  IsFiniteSet(Tasks) /\ ExitTask \notin Tasks /\ NoTask \notin Tasks \cup {ExitTask}
ASSUME PriosAssumption ==
  NumPrios \in Nat \ {0} /\ PriorityNormal \in 0 .. NumPrios - 1
ASSUME ThreadsAssumption == Main \notin Adders
ASSUME ExitAssumption == MayExit \in BOOLEAN

Prios == 0 .. NumPrios - 1
Threads == {Main} \cup Adders
AllTasks == Tasks \cup {ExitTask}

VARIABLES pendingTasks,       \* one queue per priority
          totalPendingTasks,
          isRunningFlag,
          completedTasks,     \* executed, to be finalized
          completedCS,        \* Tick holds the lock of completedTasks
          background,         \* where the background thread is
          taskTaken,          \* the task it has taken
          main,               \* where the main thread is
          current,            \* Tick's place in completedTasks
          notifying,          \* threads between the unlock and the notify of add()
          exitRequested,      \* G_isExitRequested()
          added,              \* history: tasks added, in order, by priority
          executed,           \* history: tasks executed, in order
          finalized           \* history: tasks finalized, in order

queues == <<pendingTasks, totalPendingTasks>>
history == <<added, executed, finalized>>
vars == <<queues, isRunningFlag, completedTasks, completedCS, background,
          taskTaken, main, current, notifying, exitRequested, history>>

\* SlowTasksManager::Initialize.
Init ==
  /\ pendingTasks = [p \in Prios |-> <<>>]
  /\ totalPendingTasks = 0
  /\ isRunningFlag = TRUE
  /\ completedTasks = <<>>
  /\ completedCS = FALSE
  /\ background = "loop"
  /\ taskTaken = NoTask
  /\ main = "run"
  /\ current = 0
  /\ notifying = {}
  /\ exitRequested = FALSE
  /\ added = [p \in Prios |-> <<>>]
  /\ executed = <<>>
  /\ finalized = <<>>

-----------------------------------------------------------------------------
(* add() *)

\* WakeConditionVariable: the only thread that can wait is the background one.
Woken == IF background = "blocked" THEN "take" ELSE background

EnqueueFirst(task, p) ==  \* mutant: the queue is a stack
  /\ pendingTasks' = [pendingTasks EXCEPT ![p] = <<task>> \o @]
  /\ totalPendingTasks' = totalPendingTasks + 1

Enqueue(task, p) ==
  /\ pendingTasks' = [pendingTasks EXCEPT ![p] = Append(@, task)]
  /\ totalPendingTasks' = totalPendingTasks + 1

EmptyAfterAppend == totalPendingTasks + 1 = 0  \* mutant: tested too late
QueueWasEmpty == totalPendingTasks = 0

AllAdded == UNION {ToSet(added[p]) : p \in Prios}

\* A thread of the application, or a callback of Tick on the main thread,
\* adds a task; it will notify if the queues were empty.
Add(t, task, p) ==
  /\ t \notin notifying /\ task \notin AllAdded
  /\ main \in {"run", "tick"} \/ (t # Main /\ main = "clear")
  /\ Enqueue(task, p)
  /\ notifying' = IF QueueWasEmpty THEN notifying \cup {t} ELSE notifying
  /\ added' = [added EXCEPT ![p] = Append(@, task)]
  /\ UNCHANGED <<isRunningFlag, completedTasks, completedCS, background,
                 taskTaken, main, current, exitRequested, executed, finalized>>

Notify(t) ==
  /\ t \in notifying
  /\ notifying' = notifying \ {t}
  /\ background' = Woken
  /\ UNCHANGED <<queues, isRunningFlag, completedTasks, completedCS, taskTaken,
                 main, current, exitRequested, history>>

-----------------------------------------------------------------------------
(* ThreadFunction *)

BgLoop ==
  /\ background = "loop"
  /\ background' = IF isRunningFlag THEN "take" ELSE "exit"
  /\ UNCHANGED <<queues, isRunningFlag, completedTasks, completedCS, taskTaken,
                 main, current, notifying, exitRequested, history>>

\* Sleep while there is nothing; SleepConditionVariableCS unlocks meanwhile.
BgWait ==
  /\ background = "take" /\ totalPendingTasks = 0
  /\ background' = "blocked"
  /\ UNCHANGED <<queues, isRunningFlag, completedTasks, completedCS, taskTaken,
                 main, current, notifying, exitRequested, history>>

BgTakeCountsQueues(p) ==  \* mutant: the count is decremented outside the `if'
  /\ background = "take" /\ totalPendingTasks # 0
  /\ pendingTasks[p] # <<>> /\ \A i \in 0 .. p - 1 : pendingTasks[i] = <<>>
  /\ taskTaken' = Head(pendingTasks[p])
  /\ pendingTasks' = [pendingTasks EXCEPT ![p] = Tail(@)]
  /\ totalPendingTasks' = totalPendingTasks - (p + 1)
  /\ background' = "execute"
  /\ UNCHANGED <<isRunningFlag, completedTasks, completedCS, main, current,
                 notifying, exitRequested, history>>

\* Take the first task of the most urgent queue that has one.
BgTake(p) ==
  /\ background = "take" /\ totalPendingTasks # 0
  /\ pendingTasks[p] # <<>> /\ \A i \in 0 .. p - 1 : pendingTasks[i] = <<>>
  /\ taskTaken' = Head(pendingTasks[p])
  /\ pendingTasks' = [pendingTasks EXCEPT ![p] = Tail(@)]
  /\ totalPendingTasks' = totalPendingTasks - 1
  /\ background' = "execute"
  /\ UNCHANGED <<isRunningFlag, completedTasks, completedCS, main, current,
                 notifying, exitRequested, history>>

\* The wait may also end without a notification; the loop tests again.
BgSpurious ==
  /\ background = "blocked"
  /\ background' = "take"
  /\ UNCHANGED <<queues, isRunningFlag, completedTasks, completedCS, taskTaken,
                 main, current, notifying, exitRequested, history>>

\* Execute_InBackgroundThread returns.
BgExecute ==
  /\ background = "execute"
  /\ executed' = Append(executed, taskTaken)
  /\ background' = "complete"
  /\ UNCHANGED <<queues, isRunningFlag, completedTasks, completedCS, taskTaken,
                 main, current, notifying, exitRequested, added, finalized>>

BgCompleteUnlocked ==  \* mutant: completedTasksCS is not taken
  /\ background = "complete"
  /\ completedTasks' = Append(completedTasks, taskTaken)
  /\ taskTaken' = NoTask
  /\ background' = "check"
  /\ UNCHANGED <<queues, isRunningFlag, completedCS, main, current, notifying,
                 exitRequested, history>>

\* Append the task to the finished items.
BgComplete ==
  /\ background = "complete" /\ ~completedCS
  /\ completedTasks' = Append(completedTasks, taskTaken)
  /\ taskTaken' = NoTask
  /\ background' = "check"
  /\ UNCHANGED <<queues, isRunningFlag, completedCS, main, current, notifying,
                 exitRequested, history>>

BgCheck ==
  /\ background = "check"
  /\ background' = IF exitRequested THEN "exit" ELSE "loop"
  /\ UNCHANGED <<queues, isRunningFlag, completedTasks, completedCS, taskTaken,
                 main, current, notifying, exitRequested, history>>

-----------------------------------------------------------------------------
(* Tick and Shutdown, on the main thread *)

MainIdle == main = "run" /\ Main \notin notifying

TickBegin ==
  /\ MainIdle
  /\ completedCS' = TRUE
  /\ current' = 1
  /\ main' = "tick"
  /\ UNCHANGED <<queues, isRunningFlag, completedTasks, background, taskTaken,
                 notifying, exitRequested, history>>

\* Finalize_InMainThread and Destroy_InMainThread of the next task, which
\* stays in the list; Finalize may call add().
TickTask ==
  /\ main = "tick" /\ Main \notin notifying
  /\ current <= Len(completedTasks)
  /\ finalized' = Append(finalized, completedTasks[current])
  /\ current' = current + 1
  /\ UNCHANGED <<queues, isRunningFlag, completedTasks, completedCS, background,
                 taskTaken, main, notifying, exitRequested, added, executed>>

TickLast ==
  /\ main = "tick" /\ Main \notin notifying
  /\ current > Len(completedTasks)
  /\ current' = 0
  /\ main' = "clear"
  /\ UNCHANGED <<queues, isRunningFlag, completedTasks, completedCS, background,
                 taskTaken, notifying, exitRequested, history>>

TickKeepsList ==  \* mutant: the list is not emptied
  /\ main = "clear"
  /\ completedCS' = FALSE
  /\ main' = "run"
  /\ UNCHANGED <<queues, isRunningFlag, completedTasks, background, taskTaken,
                 current, notifying, exitRequested, history>>

\* completedTasks.SetEmpty() and the unlock.
TickEnd ==
  /\ main = "clear"
  /\ completedTasks' = <<>>
  /\ completedCS' = FALSE
  /\ main' = "run"
  /\ UNCHANGED <<queues, isRunningFlag, background, taskTaken, current,
                 notifying, exitRequested, history>>

ShutdownWithoutTask ==  \* mutant: it notifies, but adds no task to wake up for
  /\ MainIdle /\ notifying = {}
  /\ isRunningFlag' = FALSE
  /\ main' = "notify"
  /\ UNCHANGED <<queues, completedTasks, completedCS, background, taskTaken,
                 current, notifying, exitRequested, history>>

\* Under the lock: clear the flag, then add() of the dummy task, which locks
\* again (the critical section is recursive) and may notify.  No other thread
\* is in add(): Engine.cpp has joined the workers before (Jq2Stop).
ShutdownBegin ==
  /\ MainIdle /\ notifying = {}
  /\ isRunningFlag' = FALSE
  /\ Enqueue(ExitTask, PriorityNormal)
  /\ background' = IF QueueWasEmpty THEN Woken ELSE background
  /\ main' = "notify"
  /\ UNCHANGED <<completedTasks, completedCS, taskTaken, current, notifying,
                 exitRequested, history>>

ShutdownNotify ==
  /\ main = "notify"
  /\ background' = Woken
  /\ main' = "join"
  /\ UNCHANGED <<queues, isRunningFlag, completedTasks, completedCS, taskTaken,
                 current, notifying, exitRequested, history>>

\* Join the background thread, then forget every task that is left.
ShutdownJoin ==
  /\ main = "join" /\ background = "exit"
  /\ pendingTasks' = [p \in Prios |-> <<>>]
  /\ totalPendingTasks' = 0
  /\ completedTasks' = <<>>
  /\ main' = "down"
  /\ UNCHANGED <<isRunningFlag, completedCS, background, taskTaken, current,
                 notifying, exitRequested, history>>

\* The application is asked to exit (WindowsDriver), at any time.
RequestExit ==
  /\ MayExit /\ ~exitRequested
  /\ exitRequested' = TRUE
  /\ UNCHANGED <<queues, isRunningFlag, completedTasks, completedCS, background,
                 taskTaken, main, current, notifying, history>>

Down == main = "down" /\ UNCHANGED vars

-----------------------------------------------------------------------------
Background == BgLoop \/ BgWait \/ (\E p \in Prios : BgTake(p)) \/ BgExecute \/ BgCheck
Ticking == TickTask \/ TickLast \/ TickEnd
Stopping == ShutdownNotify \/ ShutdownJoin

Next ==
  \/ \E t \in Threads, task \in Tasks, p \in Prios : Add(t, task, p)
  \/ \E t \in Threads : Notify(t)
  \/ Background \/ BgSpurious \/ BgComplete
  \/ TickBegin \/ Ticking
  \/ ShutdownBegin \/ Stopping
  \/ RequestExit \/ Down

Spec == Init /\ [][Next]_vars

\* The background thread runs and tasks and callbacks return; a thread about
\* to notify does; the main loop calls Tick again and again; the background
\* thread gets the lock that Tick releases once a frame.
Fairness ==
  /\ WF_vars(Background) /\ WF_vars(Ticking) /\ WF_vars(Stopping)
  /\ SF_vars(BgComplete) /\ SF_vars(TickBegin)
  /\ \A t \in Threads : WF_vars(Notify(t))

FairSpec == Spec /\ Fairness

-----------------------------------------------------------------------------
TypeOK ==
  /\ pendingTasks \in [Prios -> Seq(AllTasks)]
  /\ totalPendingTasks \in Nat
  /\ completedTasks \in Seq(AllTasks)
  /\ background \in {"loop", "take", "blocked", "execute", "complete", "check", "exit"}
  /\ taskTaken \in AllTasks \cup {NoTask}
  /\ main \in {"run", "tick", "clear", "notify", "join", "down"}
  /\ current \in Nat
  /\ notifying \subseteq Threads
  /\ {isRunningFlag, completedCS, exitRequested} \subseteq BOOLEAN
  /\ added \in [Prios -> Seq(Tasks)]
  /\ {executed, finalized} \subseteq Seq(AllTasks)

\* add() notifies only when the queues were empty.  Still, whenever the
\* background thread sleeps and there is a task, a notification is on its way.
SleepIsNoticed ==
  background = "blocked" /\ totalPendingTasks > 0 => notifying # {} \/ main = "notify"

\* Tasks of one priority are executed in the order they were added, each once
\* and none skipped: the ones before it have been executed before it.
FifoPerPriority ==
  /\ IsInjective(executed)
  /\ \A p \in Prios, k \in DOMAIN executed :
       \A i \in DOMAIN added[p] : executed[k] = added[p][i] =>
         \A j \in 1 .. i - 1 : \E l \in 1 .. k - 1 : executed[l] = added[p][j]

\* Tasks are finalized in the order they were executed, each once, and never
\* while the background thread still has them.
FinalizedInOrder ==
  /\ IsPrefix(finalized, executed)
  /\ taskTaken \notin ToSet(finalized)

\* Until Shutdown has joined the thread no task is lost: one that was executed
\* and is not finalized is with the thread or in the list, and Tick empties
\* the list only when it has finalized all of it.
NothingDropped ==
  main # "down" =>
    \A t \in ToSet(executed) \ ToSet(finalized) :
      t = taskTaken \/ (t \in ToSet(completedTasks) /\ main # "clear")

\* Once it has begun, Shutdown returns: the thread cannot sleep through it.
ShutdownReturns == (main = "notify") ~> (main = "down")

\* Every task is executed and finalized in the end, unless the program shuts
\* down or is asked to exit first.
TasksFinalized ==
  \A t \in Tasks :
    (t \in AllAdded) ~> (t \in ToSet(finalized) \/ ~isRunningFlag \/ exitRequested)
=============================================================================
