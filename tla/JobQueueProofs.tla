--------------------------- MODULE JobQueueProofs ---------------------------
(***************************************************************************)
(* Proofs about JobQueue for every number of threads, slots, priorities    *)
(* and sub-jobs.  Every action is a composition of a few changes of the    *)
(* pool, of the stack of one thread and of the table of jobs; the          *)
(* invariant is stated of a pool, stacks and a table, so that one lemma    *)
(* can say of each change that it keeps it, and the proof about an action  *)
(* is the composition of these lemmas.                                     *)
(***************************************************************************)
EXTENDS JobQueue, JobSlotsProofs

-----------------------------------------------------------------------------
(* The stack of a thread *)

\* The operators of sequences that change the top of a stack.
LEMMA TopFacts ==
  ASSUME NEW S, NEW sq \in Seq(S), Len(sq) >= 1, NEW f \in S
  PROVE  /\ Last(sq) = sq[Len(sq)] /\ Last(sq) \in S
         /\ Front(sq) \in Seq(S) /\ Len(Front(sq)) = Len(sq) - 1
         /\ \A i \in 1 .. Len(sq) - 1 : Front(sq)[i] = sq[i]
         /\ Append(Front(sq), f) \in Seq(S) /\ Len(Append(Front(sq), f)) = Len(sq)
         /\ \A i \in 1 .. Len(sq) : Append(Front(sq), f)[i] = IF i = Len(sq) THEN f ELSE sq[i]
<1> DEFINE n == Len(sq)
           a == Front(sq)
           b == Append(a, f)
<1>1. n \in Nat /\ n >= 1 /\ \A i \in 1 .. n : sq[i] \in S
  BY LenProperties, ElementOfSeq
<1>2. a = SubSeq(sq, 1, n - 1) /\ Last(sq) = sq[n]
  BY DEF Front, Last
<1>3. a \in Seq(S) /\ Len(a) = n - 1 /\ \A i \in 1 .. n - 1 : a[i] = sq[i]
  <2>1. 1 \in Int /\ n - 1 \in Int /\ \A i \in 1 .. n - 1 : sq[i] \in S
    BY <1>1
  <2>2. /\ SubSeq(sq, 1, n - 1) \in Seq(S)
        /\ Len(SubSeq(sq, 1, n - 1)) = IF 1 <= n - 1 THEN (n - 1) - 1 + 1 ELSE 0
        /\ \A i \in 1 .. (n - 1) - 1 + 1 : SubSeq(sq, 1, n - 1)[i] = sq[1 + i - 1]
    BY <2>1, SubSeqProperties
  <2> HIDE DEF n, a
  <2>3. (n - 1) - 1 + 1 = n - 1 /\ \A i \in 1 .. n - 1 : 1 + i - 1 = i
    BY <1>1
  <2> QED
    BY <1>1, <1>2, <2>2, <2>3
<1> HIDE DEF a
<1>4. /\ b \in Seq(S) /\ Len(b) = Len(a) + 1
      /\ \A i \in 1 .. Len(a) : b[i] = a[i]
      /\ b[Len(a) + 1] = f
  BY <1>3, AppendProperties
<1> HIDE DEF b, n
<1>5. Len(b) = n /\ \A i \in 1 .. n : b[i] = IF i = n THEN f ELSE sq[i]
  BY <1>1, <1>3, <1>4
<1> QED
  BY <1>1, <1>2, <1>3, <1>4, <1>5 DEF a, b, n

\* A pushed frame is on top, and popping takes it away again.
LEMMA AppendFacts ==
  ASSUME NEW S, NEW sq \in Seq(S), NEW f \in S
  PROVE  /\ Append(sq, f) \in Seq(S) /\ Len(Append(sq, f)) = Len(sq) + 1 /\ Len(sq) \in Nat
         /\ Append(sq, f)[Len(sq) + 1] = f
         /\ \A i \in 1 .. Len(sq) : Append(sq, f)[i] = sq[i]
         /\ Last(Append(sq, f)) = f /\ Front(Append(sq, f)) = sq
<1> DEFINE a == Append(sq, f)
<1>1. /\ a \in Seq(S) /\ Len(a) = Len(sq) + 1 /\ Len(sq) \in Nat
      /\ a[Len(sq) + 1] = f /\ \A i \in 1 .. Len(sq) : a[i] = sq[i]
  <2>1. Len(sq) \in Nat
    BY LenProperties
  <2> QED
    BY <2>1, AppendProperties
<1> HIDE DEF a
<1>2. /\ Last(a) = a[Len(a)] /\ Front(a) \in Seq(S) /\ Len(Front(a)) = Len(a) - 1
      /\ \A i \in 1 .. Len(a) - 1 : Front(a)[i] = a[i]
  <2>1. Len(a) >= 1
    BY <1>1
  <2> QED
    BY <1>1, <2>1, TopFacts
<1>3. Len(Front(a)) = Len(sq) /\ \A i \in 1 .. Len(Front(a)) : Front(a)[i] = sq[i]
  BY <1>1, <1>2
<1>4. Front(a) = sq
  BY <1>2, <1>3, SeqEqual
<1> QED
  BY <1>1, <1>2, <1>4 DEF a

\* The stacks of all threads; every thread has a frame.
Stacks(S) == {st \in [Threads -> Seq(S)] : \A t \in Threads : Len(st[t]) \in Nat /\ Len(st[t]) >= 1}
Depth(st, t) == Len(st[t])

\* r is st but for the top frame of t, a new frame of t, or the loss of one.
Retopped(st, r, t, f) ==
  /\ \A u \in Threads : u # t => r[u] = st[u]
  /\ Depth(r, t) = Depth(st, t)
  /\ \A i \in 1 .. Depth(st, t) : r[t][i] = IF i = Depth(st, t) THEN f ELSE st[t][i]
Pushed(st, r, t, f) ==
  /\ \A u \in Threads : u # t => r[u] = st[u]
  /\ Depth(r, t) = Depth(st, t) + 1
  /\ r[t][Depth(st, t) + 1] = f
  /\ \A i \in 1 .. Depth(st, t) : r[t][i] = st[t][i]
Popped(st, r, t) ==
  /\ \A u \in Threads : u # t => r[u] = st[u]
  /\ Depth(r, t) = Depth(st, t) - 1
  /\ \A i \in 1 .. Depth(st, t) - 1 : r[t][i] = st[t][i]

\* What SetTop, Push and Pop do.
LEMMA StackFacts ==
  ASSUME NEW S, NEW st \in Stacks(S), NEW t \in Threads, NEW f \in S
  PROVE  /\ SetTop(st, t, f) \in Stacks(S) /\ Retopped(st, SetTop(st, t, f), t, f)
         /\ Push(st, t, f) \in Stacks(S) /\ Pushed(st, Push(st, t, f), t, f)
         /\ Depth(st, t) > 1 => Pop(st, t) \in Stacks(S)
         /\ Popped(st, Pop(st, t), t)
         /\ Depth(st, t) \in Nat \ {0} /\ Last(st[t]) = st[t][Depth(st, t)]
<1> DEFINE n == Len(st[t])
<1>1. /\ st \in [Threads -> Seq(S)] /\ n \in Nat /\ n >= 1 /\ st[t] \in Seq(S)
      /\ \A u \in Threads : Len(st[u]) \in Nat /\ Len(st[u]) >= 1
  BY DEF Stacks
<1>2. /\ Last(st[t]) = st[t][n]
      /\ Front(st[t]) \in Seq(S) /\ Len(Front(st[t])) = n - 1
      /\ \A i \in 1 .. n - 1 : Front(st[t])[i] = st[t][i]
      /\ Append(Front(st[t]), f) \in Seq(S) /\ Len(Append(Front(st[t]), f)) = n
      /\ \A i \in 1 .. n : Append(Front(st[t]), f)[i] = IF i = n THEN f ELSE st[t][i]
  <2>1. Len(st[t]) >= 1
    BY <1>1
  <2> QED
    BY <1>1, <2>1, TopFacts
<1>3. /\ Append(st[t], f) \in Seq(S) /\ Len(Append(st[t], f)) = n + 1
      /\ Append(st[t], f)[n + 1] = f
      /\ \A i \in 1 .. n : Append(st[t], f)[i] = st[t][i]
  BY <1>1, AppendFacts
<1>4. ASSUME NEW row \in Seq(S), NEW r, r = [st EXCEPT ![t] = row]
      PROVE  /\ r \in [Threads -> Seq(S)] /\ r[t] = row
             /\ \A u \in Threads : u # t => r[u] = st[u]
             /\ Len(row) \in Nat /\ Len(row) >= 1 => r \in Stacks(S)
  BY <1>1, <1>4 DEF Stacks
<1>5. SetTop(st, t, f) \in Stacks(S) /\ Retopped(st, SetTop(st, t, f), t, f)
  <2> DEFINE row == Append(Front(st[t]), f)
             r == [st EXCEPT ![t] = row]
  <2>1. SetTop(st, t, f) = r
    BY DEF SetTop
  <2>2. row \in Seq(S)
    BY <1>2
  <2> HIDE DEF row
  <2>3. /\ r[t] = row
        /\ \A u \in Threads : u # t => r[u] = st[u]
        /\ Len(row) \in Nat /\ Len(row) >= 1 => r \in Stacks(S)
    BY <1>4, <2>2
  <2> HIDE DEF r
  <2>4. Len(row) = n /\ \A i \in 1 .. n : row[i] = IF i = n THEN f ELSE st[t][i]
    BY <1>2 DEF row
  <2> QED
    BY <1>1, <2>1, <2>3, <2>4 DEF Retopped, Depth
<1>6. Push(st, t, f) \in Stacks(S) /\ Pushed(st, Push(st, t, f), t, f)
  <2> DEFINE row == Append(st[t], f)
             r == [st EXCEPT ![t] = row]
  <2>1. Push(st, t, f) = r
    BY DEF Push
  <2>2. row \in Seq(S)
    BY <1>3
  <2> HIDE DEF row
  <2>3. /\ r[t] = row
        /\ \A u \in Threads : u # t => r[u] = st[u]
        /\ Len(row) \in Nat /\ Len(row) >= 1 => r \in Stacks(S)
    BY <1>4, <2>2
  <2> HIDE DEF r
  <2>4. Len(row) = n + 1 /\ row[n + 1] = f /\ \A i \in 1 .. n : row[i] = st[t][i]
    BY <1>3 DEF row
  <2>5. n + 1 \in Nat /\ n + 1 >= 1
    BY <1>1
  <2> QED
    BY <1>1, <2>1, <2>3, <2>4, <2>5 DEF Pushed, Depth
<1>7. (Depth(st, t) > 1 => Pop(st, t) \in Stacks(S)) /\ Popped(st, Pop(st, t), t)
  <2> DEFINE row == Front(st[t])
             r == [st EXCEPT ![t] = row]
  <2>1. Pop(st, t) = r
    BY DEF Pop
  <2>2. row \in Seq(S)
    BY <1>2
  <2> HIDE DEF row
  <2>3. /\ r[t] = row
        /\ \A u \in Threads : u # t => r[u] = st[u]
        /\ Len(row) \in Nat /\ Len(row) >= 1 => r \in Stacks(S)
    BY <1>4, <2>2
  <2> HIDE DEF r
  <2>4. Len(row) = n - 1 /\ \A i \in 1 .. n - 1 : row[i] = st[t][i]
    BY <1>2 DEF row
  <2>5. n > 1 => n - 1 \in Nat /\ n - 1 >= 1
    BY <1>1
  <2> QED
    BY <1>1, <2>1, <2>3, <2>4, <2>5 DEF Popped, Depth
<1> QED
  BY <1>1, <1>2, <1>5, <1>6, <1>7 DEF Depth

\* Two changes in a row of one thread's stack.
LEMMA Collapse ==
  ASSUME NEW S, NEW st \in Stacks(S), NEW t \in Threads, NEW f \in S, NEW g \in S
  PROVE  /\ SetTop(SetTop(st, t, f), t, g) = SetTop(st, t, g)
         /\ Pop(SetTop(st, t, f), t) = Pop(st, t)
         /\ SetTop(Push(st, t, f), t, g) = Push(st, t, g)
         /\ Push(Pop(st, t), t, g) = SetTop(st, t, g)
         /\ Pop(Push(st, t, f), t) = st
<1> DEFINE a == Append(Front(st[t]), f)
           b == Append(st[t], f)
<1>1. /\ st \in [Threads -> Seq(S)] /\ st[t] \in Seq(S)
      /\ Len(st[t]) \in Nat /\ Len(st[t]) >= 1
  BY DEF Stacks
<1>2. Front(st[t]) \in Seq(S)
  BY <1>1, TopFacts
<1>3. Front(a) = Front(st[t])
  BY <1>2, AppendFacts
<1>4. Front(b) = st[t]
  BY <1>1, AppendFacts
<1> HIDE DEF a, b
<1>5. /\ SetTop(st, t, f) = [st EXCEPT ![t] = a] /\ Push(st, t, f) = [st EXCEPT ![t] = b]
      /\ SetTop(st, t, f)[t] = a /\ Push(st, t, f)[t] = b
  BY <1>1 DEF SetTop, Push, a, b
<1>6. Pop(st, t)[t] = Front(st[t]) /\ Pop(st, t) = [st EXCEPT ![t] = Front(st[t])]
  BY <1>1 DEF Pop
<1>7. ASSUME NEW v, NEW w PROVE [[st EXCEPT ![t] = v] EXCEPT ![t] = w] = [st EXCEPT ![t] = w]
  BY <1>1
<1>8. SetTop(SetTop(st, t, f), t, g) = SetTop(st, t, g)
  <2>1. SetTop(SetTop(st, t, f), t, g) = [[st EXCEPT ![t] = a] EXCEPT ![t] = Append(Front(a), g)]
    BY <1>5 DEF SetTop
  <2>2. SetTop(st, t, g) = [st EXCEPT ![t] = Append(Front(st[t]), g)]
    BY DEF SetTop
  <2> QED
    BY <1>3, <1>7, <2>1, <2>2
<1>9. Pop(SetTop(st, t, f), t) = Pop(st, t)
  <2>1. Pop(SetTop(st, t, f), t) = [[st EXCEPT ![t] = a] EXCEPT ![t] = Front(a)]
    BY <1>5 DEF Pop
  <2> QED
    BY <1>3, <1>6, <1>7, <2>1
<1>10. SetTop(Push(st, t, f), t, g) = Push(st, t, g)
  <2>1. SetTop(Push(st, t, f), t, g) = [[st EXCEPT ![t] = b] EXCEPT ![t] = Append(Front(b), g)]
    BY <1>5 DEF SetTop
  <2>2. Push(st, t, g) = [st EXCEPT ![t] = Append(st[t], g)]
    BY DEF Push
  <2> QED
    BY <1>4, <1>7, <2>1, <2>2
<1>11. Push(Pop(st, t), t, g) = SetTop(st, t, g)
  <2>1. Push(Pop(st, t), t, g)
          = [[st EXCEPT ![t] = Front(st[t])] EXCEPT ![t] = Append(Front(st[t]), g)]
    BY <1>6 DEF Push
  <2>2. SetTop(st, t, g) = [st EXCEPT ![t] = Append(Front(st[t]), g)]
    BY DEF SetTop
  <2> QED
    BY <1>7, <2>1, <2>2
<1>12. Pop(Push(st, t, f), t) = st
  <2>1. Pop(Push(st, t, f), t) = [[st EXCEPT ![t] = b] EXCEPT ![t] = Front(b)]
    BY <1>5 DEF Pop
  <2>2. Pop(Push(st, t, f), t) = [st EXCEPT ![t] = st[t]]
    BY <1>4, <1>7, <2>1
  <2> QED
    BY <1>1, <2>2
<1> QED
  BY <1>8, <1>9, <1>10, <1>11, <1>12

-----------------------------------------------------------------------------
(* The frames *)

BaseKinds == {"test", "scan", "sleep", "exit"}
WorkKinds == {"scan", "full", "wait", "waitall"}
WaitFrames == {"wait", "block", "blocked", "woken"}
MainKinds == {"waitall", "stop", "join", "stopped"}
CallKinds == {"full", "signal"} \cup WaitFrames \cup MainKinds

Frames == FrameOf(Nat)

\* The fields of a frame by its kind.
LEMMA FrameFacts ==
  ASSUME NEW f \in Frames
  PROVE  /\ f.at \in {"user"} \cup BaseKinds \cup CallKinds
         /\ f.at \in WorkKinds \cup BaseKinds \cup WaitFrames => f.work \in Slots \cup {0}
         /\ f.at = "user" => /\ f.job \in Nat /\ f.sub \in Nat
                             /\ f.groups \in Seq(Nat) /\ f.mine \in SUBSET Nat
         /\ f.at \in WaitFrames => f.for \in Nat
         /\ f.at = "signal" => f.num \in SubCounts
         /\ f.at = "full" => f.want \in Wants
<1>1. CASE f \in [at : {"test", "scan", "sleep", "exit"}, work : Slots \cup {0}]
  BY <1>1 DEF BaseKinds, WorkKinds, WaitFrames, MainKinds, CallKinds
<1>2. CASE f \in [at : {"user"}, job : Nat, sub : Nat, groups : Seq(Nat), mine : SUBSET Nat]
  BY <1>2 DEF BaseKinds, WorkKinds, WaitFrames, MainKinds, CallKinds
<1>3. CASE f \in [at : {"full"}, work : Slots \cup {0}, want : Wants]
  BY <1>3 DEF BaseKinds, WorkKinds, WaitFrames, MainKinds, CallKinds
<1>4. CASE f \in [at : {"signal"}, num : SubCounts]
  BY <1>4 DEF BaseKinds, WorkKinds, WaitFrames, MainKinds, CallKinds
<1>5. CASE f \in [at : {"wait", "block", "blocked", "woken"}, for : Nat,
                  kind : WaitKinds, work : Slots \cup {0}]
  BY <1>5 DEF BaseKinds, WorkKinds, WaitFrames, MainKinds, CallKinds
<1>6. CASE f \in [at : {"waitall"}, stop : BOOLEAN, work : Slots \cup {0}]
  BY <1>6 DEF BaseKinds, WorkKinds, WaitFrames, MainKinds, CallKinds
<1>7. CASE f \in [at : {"stop", "join", "stopped"}]
  BY <1>7 DEF BaseKinds, WorkKinds, WaitFrames, MainKinds, CallKinds
<1> QED
  BY <1>1, <1>2, <1>3, <1>4, <1>5, <1>6, <1>7 DEF Frames, FrameOf

\* A frame that takes or returns a slot is still one.
LEMMA FrameWork ==
  ASSUME NEW f \in Frames, f.at \in WorkKinds, NEW s \in Slots \cup {0}
  PROVE  /\ [f EXCEPT !.work = s] \in Frames
         /\ [f EXCEPT !.work = s].at = f.at /\ [f EXCEPT !.work = s].work = s
         /\ f.at \in WaitFrames => [f EXCEPT !.work = s].for = f.for
         /\ f.at = "full" => [f EXCEPT !.work = s].want = f.want
<1>1. CASE f \in [at : {"test", "scan", "sleep", "exit"}, work : Slots \cup {0}]
  BY <1>1 DEF WorkKinds, WaitFrames, Frames, FrameOf
<1>2. CASE f \in [at : {"full"}, work : Slots \cup {0}, want : Wants]
  BY <1>2 DEF WorkKinds, WaitFrames, Frames, FrameOf
<1>3. CASE f \in [at : {"wait", "block", "blocked", "woken"}, for : Nat,
                  kind : WaitKinds, work : Slots \cup {0}]
  BY <1>3 DEF WorkKinds, WaitFrames, Frames, FrameOf
<1>4. CASE f \in [at : {"waitall"}, stop : BOOLEAN, work : Slots \cup {0}]
  BY <1>4 DEF WorkKinds, WaitFrames, Frames, FrameOf
<1>5. CASE f \in [at : {"user"}, job : Nat, sub : Nat, groups : Seq(Nat), mine : SUBSET Nat]
  BY <1>5 DEF WorkKinds
<1>6. CASE f \in [at : {"signal"}, num : SubCounts]
  BY <1>6 DEF WorkKinds
<1>7. CASE f \in [at : {"stop", "join", "stopped"}]
  BY <1>7 DEF WorkKinds
<1> QED
  BY <1>1, <1>2, <1>3, <1>4, <1>5, <1>6, <1>7 DEF Frames, FrameOf

\* A frame of Jq2Wait goes from one part of it to another.
LEMMA FrameWait ==
  ASSUME NEW f \in Frames, f.at \in WaitFrames, NEW a \in WaitFrames
  PROVE  /\ [f EXCEPT !.at = a] \in Frames
         /\ [f EXCEPT !.at = a].at = a /\ [f EXCEPT !.at = a].work = f.work
         /\ [f EXCEPT !.at = a].for = f.for /\ [f EXCEPT !.at = a].kind = f.kind
<1>1. f \in [at : {"wait", "block", "blocked", "woken"}, for : Nat,
             kind : WaitKinds, work : Slots \cup {0}]
  BY DEF WaitFrames, Frames, FrameOf
<1> QED
  BY <1>1 DEF WaitFrames, Frames, FrameOf

-----------------------------------------------------------------------------
(* The invariant *)

\* What frame i of the stack of t can be: the loop of a worker or the main
\* program at the bottom, above it calls from user code and the job functions
\* that such a call runs.
Level(st, t, i) ==
  IF i = 1
  THEN IF t = Main THEN st[t][i].at = "user" /\ st[t][i].job = 0
       ELSE st[t][i].at \in BaseKinds
  ELSE IF st[t][i].at = "user"
       THEN /\ st[t][i].job # 0
            /\ st[t][i - 1].at \in WorkKinds /\ st[t][i - 1].work = SlotOf(st[t][i].job)
       ELSE /\ st[t][i].at \in CallKinds /\ st[t][i - 1].at = "user"
            /\ st[t][i].at \in MainKinds => t = Main /\ i = 2

\* A thread that sleeps or blocks has no work to count.
IdleKinds == {"test", "sleep", "exit", "block", "blocked", "woken"}
Idle(f) == f.at \in IdleKinds => f.work = 0

\* The positions in the stacks, and the frame at one.
Positions(st) == {x \in Threads \X Nat : 1 <= x[2] /\ x[2] <= Depth(st, x[1])}
On(st, x) == st[x[1]][x[2]]

Shape(st) ==
  /\ st \in Stacks(Frames)
  /\ \A x \in Positions(st) : Level(st, x[1], x[2]) /\ Idle(On(st, x))

\* The frames that have to count a sub-job of s, those of them whose job
\* function has returned, and the open groups of s.
Work(st, s) == {x \in Positions(st) : On(st, x).at \in WorkKinds /\ On(st, x).work = s}
Returned(st, s) == {x \in Work(st, s) : x[2] = Depth(st, x[1])}
Open(st, s) ==
  {g \in Positions(st) \X Nat : /\ On(st, g[1]).at = "user"
                                /\ g[2] \in 1 .. Len(On(st, g[1]).groups)
                                /\ SlotOf(On(st, g[1]).groups[g[2]]) = s}

Accounted(p, st) ==
  \A s \in Slots :
    /\ IsFiniteSet(Work(st, s)) /\ IsFiniteSet(Open(st, s))
    /\ Cardinality(Work(st, s)) + Cardinality(Open(st, s))
         = p.nNumStarted[s] - p.num_finished_jobs[s]

\* Handle h was issued and owns its slot.
Owns(p, J, h) == h \in J /\ p.nStartedHandle[SlotOf(h)] = h

\* The handles in a frame.
Pinned(p, J, f) ==
  /\ f.at = "user" =>
       /\ f.job # 0 => Owns(p, J, f.job) /\ f.sub < p.nNumStarted[SlotOf(f.job)]
       /\ \A k \in 1 .. Len(f.groups) : Owns(p, J, f.groups[k])
       /\ f.mine \subseteq J
  /\ f.at \in WaitFrames => f.for \in J
AllPinned(p, st, J) == \A x \in Positions(st) : Pinned(p, J, On(st, x))

\* No sub-job is run by two frames.
Apart(st) ==
  \A x, y \in Positions(st) :
    /\ On(st, x).at = "user" /\ On(st, y).at = "user" /\ On(st, x).job # 0
    /\ On(st, x).job = On(st, y).job /\ On(st, x).sub = On(st, y).sub
    => x = y

\* The table of jobs agrees with the slots.
Table(p, js) ==
  /\ \A h \in DOMAIN js : /\ h \in Nat /\ h < p.nNextHandle /\ SlotOf(h) \in Slots
                          /\ js[h] \in [num : SubCounts \cup {1}, ended : Nat,
                                        under : DOMAIN js \cup {0}]
  /\ \A s \in Slots : /\ p.nStartedHandle[s] \in DOMAIN js \cup {0}
                      /\ p.nFinishedHandle[s] \in DOMAIN js \cup {0}

EndedOf(p, st, js) ==
  \A h \in DOMAIN js :
    IF p.nStartedHandle[SlotOf(h)] = h
    THEN /\ js[h].num = p.nNumJobs[SlotOf(h)]
         /\ js[h].ended = p.num_finished_jobs[SlotOf(h)] + Cardinality(Returned(st, SlotOf(h)))
    ELSE js[h].ended = js[h].num /\ h <= p.nFinishedHandle[SlotOf(h)]

UnderOf(p, js) ==
  \A c \in DOMAIN js :
    ~IsDone(p, c) /\ js[c].under # 0 =>
      /\ p.nParent[SlotOf(c)] = SlotOf(js[c].under)
      /\ p.nStartedHandle[SlotOf(js[c].under)] = js[c].under

Inv(p, st, js) ==
  /\ PoolInv(p) /\ Shape(st) /\ Accounted(p, st) /\ AllPinned(p, st, DOMAIN js) /\ Apart(st)
  /\ Table(p, js) /\ EndedOf(p, st, js) /\ UnderOf(p, js)

-----------------------------------------------------------------------------
(* What a change of one stack leaves alone *)

\* Two sets that differ in z at most, and both do not have it.
LEMMA SameOutside ==
  ASSUME NEW A, NEW B, NEW z, A \ {z} = B \ {z}, z \notin A, z \notin B
  PROVE  A = B
<1>1. A = A \ {z} /\ B = B \ {z}
  OBVIOUS
<1> QED
  BY <1>1

\* The positions outside of the stack of t, or no higher than m in it.
Below(st, t, m) == {x \in Positions(st) : x[1] # t \/ x[2] <= m}
Above(st, r, t, m) ==
  Below(r, t, m) = Below(st, t, m) /\ \A x \in Below(st, t, m) : On(r, x) = On(st, x)

\* A change of the stack of t above the level m.
LEMMA AboveFacts ==
  ASSUME NEW st \in Stacks(Frames), NEW r \in Stacks(Frames), NEW t \in Threads,
         NEW n \in Nat, n = Depth(st, t), NEW k \in Nat, k = Depth(r, t), NEW m \in Nat,
         \A u \in Threads : u # t => r[u] = st[u],
         m <= n /\ n <= m + 1, m <= k /\ k <= m + 1,
         \A i \in 1 .. m : r[t][i] = st[t][i]
  PROVE  /\ Above(st, r, t, m)
         /\ Positions(st) = Below(st, t, m) \cup (IF n = m + 1 THEN {<<t, m + 1>>} ELSE {})
         /\ Positions(r) = Below(st, t, m) \cup (IF k = m + 1 THEN {<<t, m + 1>>} ELSE {})
<1>1. \A u \in Threads : u # t => Depth(r, u) = Depth(st, u)
  BY DEF Depth
<1>2. ASSUME NEW u \in Threads, NEW i \in Nat
      PROVE  <<u, i>> \in Below(r, t, m) <=> <<u, i>> \in Below(st, t, m)
  BY <1>1 DEF Below, Positions
<1>3. Below(r, t, m) \in SUBSET (Threads \X Nat) /\ Below(st, t, m) \in SUBSET (Threads \X Nat)
  BY DEF Below, Positions
<1>4. Below(r, t, m) = Below(st, t, m)
  BY <1>2, <1>3
<1>5. ASSUME NEW x \in Below(st, t, m) PROVE On(r, x) = On(st, x)
  <2>1. x[1] \in Threads /\ x[2] \in Nat /\ 1 <= x[2] /\ (x[1] # t \/ x[2] <= m)
    BY DEF Below, Positions
  <2> QED
    BY <2>1 DEF On
<1>6. ASSUME NEW v, NEW d \in Nat, d = Depth(v, t), m <= d, d <= m + 1
      PROVE  Positions(v) = Below(v, t, m) \cup (IF d = m + 1 THEN {<<t, m + 1>>} ELSE {})
  <2>1. \A u \in Threads, i \in Nat :
          <<u, i>> \in Positions(v) <=> 1 <= i /\ i <= Depth(v, u)
    BY DEF Positions
  <2>2. \A u \in Threads, i \in Nat :
          <<u, i>> \in Below(v, t, m) <=> <<u, i>> \in Positions(v) /\ (u # t \/ i <= m)
    BY DEF Below, Positions
  <2>3. \A u \in Threads, i \in Nat :
          <<u, i>> \in Positions(v) <=> \/ <<u, i>> \in Below(v, t, m)
                                        \/ d = m + 1 /\ u = t /\ i = m + 1
    <3> SUFFICES ASSUME NEW u \in Threads, NEW i \in Nat
                 PROVE  <<u, i>> \in Positions(v) <=> \/ <<u, i>> \in Below(v, t, m)
                                                      \/ d = m + 1 /\ u = t /\ i = m + 1
      OBVIOUS
    <3>1. CASE u # t
      BY <2>2, <3>1
    <3>2. CASE u = t
      <4>1. <<t, i>> \in Positions(v) <=> 1 <= i /\ i <= d
        BY <1>6, <2>1
      <4>2. <<t, i>> \in Below(v, t, m) <=> 1 <= i /\ i <= d /\ i <= m
        BY <2>2, <4>1
      <4> HIDE DEF Positions, Below
      <4> QED
        BY <1>6, <3>2, <4>1, <4>2
    <3> QED
      BY <3>1, <3>2
  <2>4. Positions(v) \in SUBSET (Threads \X Nat) /\ Below(v, t, m) \in SUBSET (Threads \X Nat)
    BY DEF Below, Positions
  <2>5. <<t, m + 1>> \in Threads \X Nat
    OBVIOUS
  <2>6. ASSUME NEW x \in Threads \X Nat
        PROVE  x \in Positions(v) <=> x \in Below(v, t, m) \/ (d = m + 1 /\ x = <<t, m + 1>>)
    <3>1. PICK u \in Threads, i \in Nat : x = <<u, i>>
      OBVIOUS
    <3>2. x = <<t, m + 1>> <=> u = t /\ i = m + 1
      BY <3>1
    <3> QED
      BY <2>3, <3>1, <3>2
  <2> HIDE DEF Positions, Below
  <2>7. CASE d = m + 1
    BY <2>4, <2>5, <2>6, <2>7
  <2>8. CASE d # m + 1
    BY <2>4, <2>6, <2>8
  <2> QED
    BY <2>7, <2>8
<1>7. Positions(st) = Below(st, t, m) \cup (IF n = m + 1 THEN {<<t, m + 1>>} ELSE {})
  BY <1>6
<1>8. Positions(r) = Below(r, t, m) \cup (IF k = m + 1 THEN {<<t, m + 1>>} ELSE {})
  BY <1>6
<1> QED
  BY <1>4, <1>5, <1>7, <1>8 DEF Above

\* A change of the top frame.
LEMMA RetopAbove ==
  ASSUME NEW st \in Stacks(Frames), NEW r \in Stacks(Frames), NEW t \in Threads, NEW f,
         Retopped(st, r, t, f)
  PROVE  /\ Above(st, r, t, Depth(st, t) - 1)
         /\ Positions(st) = Below(st, t, Depth(st, t) - 1) \cup {<<t, Depth(st, t)>>}
         /\ Positions(r) = Below(st, t, Depth(st, t) - 1) \cup {<<t, Depth(st, t)>>}
         /\ On(r, <<t, Depth(st, t)>>) = f
         /\ Depth(st, t) \in Nat /\ Depth(st, t) > 0
         /\ \A u \in Threads : Depth(r, u) = Depth(st, u)
<1> DEFINE n == Depth(st, t)
           m == n - 1
<1>1. n \in Nat /\ n > 0 /\ n = Depth(st, t)
  BY DEF Stacks, Depth
<1>2. /\ \A u \in Threads : u # t => r[u] = st[u]
      /\ Depth(r, t) = n /\ \A i \in 1 .. n : r[t][i] = IF i = n THEN f ELSE st[t][i]
  BY DEF Retopped
<1>3. \A u \in Threads : Depth(r, u) = Depth(st, u)
  BY <1>2 DEF Depth
<1> HIDE DEF n
<1>4. m \in Nat /\ m + 1 = n /\ m <= n /\ n <= m + 1
  BY <1>1
<1> HIDE DEF m
<1>5. \A i \in 1 .. m : r[t][i] = st[t][i]
  BY <1>1, <1>2, <1>4
<1>6. n = Depth(r, t)
  BY <1>2
<1>7. /\ Above(st, r, t, m)
      /\ Positions(st) = Below(st, t, m) \cup (IF n = m + 1 THEN {<<t, m + 1>>} ELSE {})
      /\ Positions(r) = Below(st, t, m) \cup (IF n = m + 1 THEN {<<t, m + 1>>} ELSE {})
  BY <1>1, <1>2, <1>4, <1>5, <1>6, AboveFacts
<1>8. On(r, <<t, n>>) = f
  BY <1>1, <1>2 DEF On
<1>9. /\ Above(st, r, t, n - 1) /\ Positions(st) = Below(st, t, n - 1) \cup {<<t, n>>}
      /\ Positions(r) = Below(st, t, n - 1) \cup {<<t, n>>}
  BY <1>4, <1>7 DEF m
<1> QED
  BY <1>1, <1>3, <1>8, <1>9 DEF n

\* A new frame on top.
LEMMA PushAbove ==
  ASSUME NEW st \in Stacks(Frames), NEW r \in Stacks(Frames), NEW t \in Threads, NEW f,
         Pushed(st, r, t, f)
  PROVE  /\ Above(st, r, t, Depth(st, t))
         /\ Positions(st) = Below(st, t, Depth(st, t))
         /\ Positions(r) = Below(st, t, Depth(st, t)) \cup {<<t, Depth(st, t) + 1>>}
         /\ On(r, <<t, Depth(st, t) + 1>>) = f
         /\ Depth(st, t) \in Nat /\ Depth(st, t) > 0
         /\ Depth(r, t) = Depth(st, t) + 1
         /\ \A u \in Threads : u # t => Depth(r, u) = Depth(st, u)
<1> DEFINE n == Depth(st, t)
           k == n + 1
<1>1. n \in Nat /\ n > 0 /\ n = Depth(st, t)
  BY DEF Stacks, Depth
<1>2. /\ \A u \in Threads : u # t => r[u] = st[u]
      /\ Depth(r, t) = k /\ r[t][k] = f /\ \A i \in 1 .. n : r[t][i] = st[t][i]
  BY DEF Pushed
<1>3. \A u \in Threads : u # t => Depth(r, u) = Depth(st, u)
  BY <1>2 DEF Depth
<1> HIDE DEF n
<1>4. k \in Nat /\ k = n + 1 /\ n <= n /\ n <= n + 1 /\ n <= k /\ k <= n + 1 /\ n # n + 1
  BY <1>1
<1> HIDE DEF k
<1>5. k = Depth(r, t)
  BY <1>2
<1>6. /\ Above(st, r, t, n)
      /\ Positions(st) = Below(st, t, n) \cup (IF n = n + 1 THEN {<<t, n + 1>>} ELSE {})
      /\ Positions(r) = Below(st, t, n) \cup (IF k = n + 1 THEN {<<t, n + 1>>} ELSE {})
  BY <1>1, <1>2, <1>4, <1>5, AboveFacts
<1>7. On(r, <<t, k>>) = f
  BY <1>1, <1>2 DEF On
<1>8. /\ Above(st, r, t, n) /\ Positions(st) = Below(st, t, n)
      /\ Positions(r) = Below(st, t, n) \cup {<<t, n + 1>>}
  BY <1>4, <1>6
<1>9. Depth(r, t) = n + 1 /\ On(r, <<t, n + 1>>) = f
  BY <1>2, <1>4, <1>7
<1> QED
  BY <1>1, <1>3, <1>8, <1>9 DEF n

\* The top frame goes.
LEMMA PopAbove ==
  ASSUME NEW st \in Stacks(Frames), NEW r \in Stacks(Frames), NEW t \in Threads,
         Popped(st, r, t)
  PROVE  /\ Above(st, r, t, Depth(st, t) - 1)
         /\ Positions(st) = Below(st, t, Depth(st, t) - 1) \cup {<<t, Depth(st, t)>>}
         /\ Positions(r) = Below(st, t, Depth(st, t) - 1)
         /\ Depth(st, t) \in Nat /\ Depth(st, t) > 0
         /\ Depth(r, t) = Depth(st, t) - 1
         /\ \A u \in Threads : u # t => Depth(r, u) = Depth(st, u)
<1> DEFINE n == Depth(st, t)
           m == n - 1
<1>1. n \in Nat /\ n > 0 /\ n = Depth(st, t)
  BY DEF Stacks, Depth
<1>2. /\ \A u \in Threads : u # t => r[u] = st[u]
      /\ Depth(r, t) = m /\ \A i \in 1 .. m : r[t][i] = st[t][i]
  BY DEF Popped
<1>3. \A u \in Threads : u # t => Depth(r, u) = Depth(st, u)
  BY <1>2 DEF Depth
<1> HIDE DEF n
<1>4. /\ m \in Nat /\ m + 1 = n /\ m <= n /\ n <= m + 1 /\ m <= m /\ m <= m + 1
      /\ m # m + 1
  BY <1>1
<1> HIDE DEF m
<1>5. m = Depth(r, t)
  BY <1>2
<1>6. /\ Above(st, r, t, m)
      /\ Positions(st) = Below(st, t, m) \cup (IF n = m + 1 THEN {<<t, m + 1>>} ELSE {})
      /\ Positions(r) = Below(st, t, m) \cup (IF m = m + 1 THEN {<<t, m + 1>>} ELSE {})
  BY <1>1, <1>2, <1>4, <1>5, AboveFacts
<1>7. /\ Above(st, r, t, n - 1) /\ Positions(st) = Below(st, t, n - 1) \cup {<<t, n>>}
      /\ Positions(r) = Below(st, t, n - 1)
  BY <1>4, <1>6 DEF m
<1>8. Depth(r, t) = n - 1
  BY <1>2 DEF m
<1> QED
  BY <1>1, <1>3, <1>7, <1>8 DEF n

\* Below the change nothing is different.
LEMMA AboveKeeps ==
  ASSUME NEW st \in Stacks(Frames), NEW r, NEW t \in Threads, NEW m \in Nat, Above(st, r, t, m),
         NEW x \in Below(st, t, m)
  PROVE  /\ x \in Positions(st) /\ x \in Positions(r) /\ On(r, x) = On(st, x)
         /\ Level(r, x[1], x[2]) <=> Level(st, x[1], x[2])
         /\ \A s : x \in Work(r, s) <=> x \in Work(st, s)
         /\ \A k, s : <<x, k>> \in Open(r, s) <=> <<x, k>> \in Open(st, s)
<1>1. /\ x[1] \in Threads /\ x[2] \in Nat /\ 1 <= x[2] /\ x[2] <= Depth(st, x[1])
      /\ x = <<x[1], x[2]>> /\ (x[1] # t \/ x[2] <= m)
  BY DEF Below, Positions
<1>2. x \in Positions(st) /\ x \in Positions(r) /\ On(r, x) = On(st, x)
  BY DEF Above, Below
<1>3. ASSUME x[2] # 1
      PROVE  r[x[1]][x[2] - 1] = st[x[1]][x[2] - 1]
  <2> DEFINE y == <<x[1], x[2] - 1>>
  <2>1. Depth(st, x[1]) \in Nat
    BY <1>1 DEF Stacks, Depth
  <2>2. y \in Below(st, t, m)
    BY <1>1, <1>3, <2>1 DEF Below, Positions
  <2>3. On(r, y) = On(st, y)
    BY <2>2 DEF Above
  <2> QED
    BY <2>3 DEF On
<1>4. Level(r, x[1], x[2]) <=> Level(st, x[1], x[2])
  <2>1. r[x[1]][x[2]] = st[x[1]][x[2]]
    BY <1>2 DEF On
  <2> QED
    BY <1>3, <2>1 DEF Level
<1>5. \A s : x \in Work(r, s) <=> x \in Work(st, s)
  BY <1>2 DEF Work
<1>6. \A k, s : <<x, k>> \in Open(r, s) <=> <<x, k>> \in Open(st, s)
  BY <1>2 DEF Open
<1> QED
  BY <1>2, <1>4, <1>5, <1>6

-----------------------------------------------------------------------------
(* What the invariant says of a slot in use *)

\* The counts of a slot, as numbers.
LEMMA CountFacts ==
  ASSUME NEW p, PoolInv(p), NEW s \in Slots
  PROVE  /\ p.num_finished_jobs[s] \in Nat /\ p.nNumStarted[s] \in Nat /\ p.nNumJobs[s] \in Nat
         /\ p.num_finished_jobs[s] <= p.nNumStarted[s] /\ p.nNumStarted[s] <= p.nNumJobs[s]
         /\ p.nStartedHandle[s] \in Nat /\ p.nFinishedHandle[s] \in Nat
         /\ p.nFinishedHandle[s] <= p.nStartedHandle[s]
         /\ p.nStartedHandle[s] < p.nNextHandle /\ p.nNextHandle \in Nat
         /\ p.nStartedHandle[s] # 0 => SlotOf(p.nStartedHandle[s]) = s
<1>1. /\ p.num_finished_jobs \in [Slots -> Nat] /\ p.nNumStarted \in [Slots -> Nat]
      /\ p.nNumJobs \in [Slots -> Nat] /\ p.nStartedHandle \in [Slots -> Nat]
      /\ p.nFinishedHandle \in [Slots -> Nat] /\ p.nNextHandle \in Nat
  BY PoolTypes DEF PoolInv
<1> QED
  BY <1>1 DEF PoolInv, Counts, Handles

\* A slot that a frame or an open group holds is in use.
LEMMA HeldFacts ==
  ASSUME NEW p, PoolInv(p), NEW st, Accounted(p, st), NEW s \in Slots
  PROVE  /\ Cardinality(Work(st, s)) \in Nat /\ Cardinality(Open(st, s)) \in Nat
         /\ IsFiniteSet(Returned(st, s)) /\ Cardinality(Returned(st, s)) \in Nat
         /\ Cardinality(Returned(st, s)) <= Cardinality(Work(st, s))
         /\ \A x \in Work(st, s) : p.num_finished_jobs[s] < p.nNumStarted[s]
         /\ \A g \in Open(st, s) : p.num_finished_jobs[s] < p.nNumStarted[s]
         /\ p.num_finished_jobs[s] = p.nNumStarted[s] => /\ Work(st, s) = {} /\ Open(st, s) = {}
                                                         /\ Returned(st, s) = {}
<1> DEFINE W == Work(st, s)
           O == Open(st, s)
           R == Returned(st, s)
<1>1. /\ IsFiniteSet(W) /\ IsFiniteSet(O)
      /\ Cardinality(W) + Cardinality(O) = p.nNumStarted[s] - p.num_finished_jobs[s]
  BY DEF Accounted
<1>2. p.num_finished_jobs[s] \in Nat /\ p.nNumStarted[s] \in Nat
  BY CountFacts
<1>3. R \subseteq W
  BY DEF Returned
<1> HIDE DEF W, O, R
<1>4. Cardinality(W) \in Nat /\ Cardinality(O) \in Nat
  BY <1>1, FS_CardinalityType
<1>5. IsFiniteSet(R) /\ Cardinality(R) <= Cardinality(W)
  BY <1>1, <1>3, FS_Subset
<1>6. Cardinality(R) \in Nat
  BY <1>5, FS_CardinalityType
<1>7. (Cardinality(W) = 0 <=> W = {}) /\ (Cardinality(O) = 0 <=> O = {})
  BY <1>1, FS_EmptySet
<1>8. ASSUME W # {} \/ O # {} PROVE p.num_finished_jobs[s] < p.nNumStarted[s]
  BY <1>1, <1>2, <1>4, <1>7, <1>8
<1>9. ASSUME p.num_finished_jobs[s] = p.nNumStarted[s] PROVE W = {} /\ O = {} /\ R = {}
  BY <1>2, <1>3, <1>8, <1>9
<1> QED
  BY <1>4, <1>5, <1>6, <1>8, <1>9 DEF W, O, R

\* The frame f runs a sub-job of h, or has the group h open.
Runs(f, h) ==
  /\ f.at = "user"
  /\ \/ h = f.job /\ h # 0
     \/ \E k \in 1 .. Len(f.groups) : h = f.groups[k]

\* The frame at x runs a sub-job of h that the frame under it took.
RunsAt(p, st, x, h) ==
  /\ <<x[1], x[2] - 1>> \in Work(st, SlotOf(h)) /\ x[2] > 1
  /\ <<x[1], x[2] - 1>> \in Positions(st)
  /\ On(st, x).sub < p.nNumStarted[SlotOf(h)]

\* The slot of such a job or group.
LEMMA InUse ==
  ASSUME NEW p, NEW st, NEW js, Inv(p, st, js), NEW x \in Positions(st), NEW h,
         Runs(On(st, x), h)
  PROVE  /\ h \in DOMAIN js /\ h \in Nat /\ h # 0 /\ SlotOf(h) \in Slots
         /\ p.nStartedHandle[SlotOf(h)] = h
         /\ p.num_finished_jobs[SlotOf(h)] < p.nNumStarted[SlotOf(h)]
         /\ PendingJobs(p, SlotOf(h)) /\ ~IsDone(p, h)
         /\ h = On(st, x).job => RunsAt(p, st, x, h)
<1>1. /\ PoolInv(p) /\ Shape(st) /\ Accounted(p, st) /\ AllPinned(p, st, DOMAIN js)
      /\ Table(p, js) /\ On(st, x).at = "user"
  BY DEF Inv, Runs
<1>2. Pinned(p, DOMAIN js, On(st, x)) /\ Level(st, x[1], x[2])
  BY <1>1 DEF AllPinned, Shape
<1>3. Owns(p, DOMAIN js, h)
  BY <1>2 DEF Pinned, Runs
<1>4. h \in DOMAIN js /\ p.nStartedHandle[SlotOf(h)] = h /\ SlotOf(h) \in Slots /\ h \in Nat
  BY <1>1, <1>3 DEF Owns, Table
<1>5. h # 0
  <2>1. SlotOf(0) \notin Slots
    BY MaxJobsAssumption DEF SlotOf, Slots
  <2> QED
    BY <1>4, <2>1
<1>6. ASSUME h = On(st, x).job
      PROVE  /\ <<x[1], x[2] - 1>> \in Work(st, SlotOf(h)) /\ x[2] > 1
             /\ <<x[1], x[2] - 1>> \in Positions(st)
             /\ On(st, x).sub < p.nNumStarted[SlotOf(h)]
  <2> DEFINE t == x[1]
             i == x[2]
  <2>1. /\ t \in Threads /\ i \in Nat /\ 1 <= i /\ i <= Depth(st, t) /\ Depth(st, t) \in Nat
    BY <1>1 DEF Positions, Shape, Stacks, Depth
  <2>2. i # 1
    BY <1>1, <1>2, <1>5, <1>6 DEF Level, On, BaseKinds
  <2>3. st[t][i - 1].at \in WorkKinds /\ st[t][i - 1].work = SlotOf(h)
    BY <1>1, <1>2, <1>6, <2>2 DEF Level, On
  <2>4. <<t, i - 1>> \in Positions(st)
    BY <2>1, <2>2 DEF Positions
  <2>5. <<t, i - 1>> \in Work(st, SlotOf(h))
    BY <2>3, <2>4 DEF Work, On
  <2>6. On(st, x).sub < p.nNumStarted[SlotOf(h)]
    BY <1>1, <1>2, <1>5, <1>6 DEF Pinned
  <2> QED
    BY <2>1, <2>2, <2>4, <2>5, <2>6
<1>7. p.num_finished_jobs[SlotOf(h)] < p.nNumStarted[SlotOf(h)]
  <2>1. CASE h = On(st, x).job
    BY <1>1, <1>4, <1>6, <2>1, HeldFacts
  <2>2. CASE h # On(st, x).job
    <3>1. PICK k \in 1 .. Len(On(st, x).groups) : h = On(st, x).groups[k]
      BY <2>2 DEF Runs
    <3>2. k \in Nat
      OBVIOUS
    <3>3. <<x, k>> \in Open(st, SlotOf(h))
      BY <1>1, <3>1, <3>2 DEF Open
    <3> QED
      BY <1>1, <1>4, <3>3, HeldFacts
  <2> QED
    BY <2>1, <2>2
<1>8. PendingJobs(p, SlotOf(h))
  BY <1>1, <1>4, <1>7, BusyIsPending
<1>9. ~IsDone(p, h)
  <2>1. /\ p.nFinishedHandle[SlotOf(h)] \in Nat /\ p.nStartedHandle[SlotOf(h)] \in Nat
        /\ p.nFinishedHandle[SlotOf(h)] <= p.nStartedHandle[SlotOf(h)]
    BY <1>1, <1>4, CountFacts
  <2> QED
    BY <1>4, <1>8, <2>1 DEF IsDone, PendingJobs
<1> QED
  BY <1>4, <1>5, <1>6, <1>7, <1>8, <1>9 DEF RunsAt

-----------------------------------------------------------------------------
(* Changes of a frame that hold no slot *)

\* The sets of frames that the counts speak of are the same.
SameSets(st, r) ==
  \A s \in Slots : Work(r, s) = Work(st, s) /\ Open(r, s) = Open(st, s)
                   /\ Returned(r, s) = Returned(st, s)

\* Then so are the counts.
LEMMA SameSetsKeep ==
  ASSUME NEW p, NEW st, NEW r, NEW js, SameSets(st, r), Table(p, js)
  PROVE  /\ Accounted(p, st) => Accounted(p, r)
         /\ EndedOf(p, st, js) => EndedOf(p, r, js)
<1>1. Accounted(p, st) => Accounted(p, r)
  BY DEF SameSets, Accounted
<1>2. ASSUME EndedOf(p, st, js), NEW h \in DOMAIN js
      PROVE  IF p.nStartedHandle[SlotOf(h)] = h
             THEN /\ js[h].num = p.nNumJobs[SlotOf(h)]
                  /\ js[h].ended = p.num_finished_jobs[SlotOf(h)]
                                     + Cardinality(Returned(r, SlotOf(h)))
             ELSE js[h].ended = js[h].num /\ h <= p.nFinishedHandle[SlotOf(h)]
  <2>1. SlotOf(h) \in Slots
    BY DEF Table
  <2>2. Returned(r, SlotOf(h)) = Returned(st, SlotOf(h))
    BY <2>1 DEF SameSets
  <2> QED
    BY <1>2, <2>2 DEF EndedOf
<1> QED
  BY <1>1, <1>2 DEF EndedOf

\* Frame g is another part of the same call or loop as f, and neither of them
\* has a slot that the other has not.
Alike(f, g) ==
  /\ f.at = "user" \/ g.at = "user" => g = f
  /\ f.at \in BaseKinds <=> g.at \in BaseKinds
  /\ f.at \in CallKinds <=> g.at \in CallKinds
  /\ g.at \in MainKinds => f.at \in MainKinds
  /\ Idle(g)
  /\ \A s \in Slots : f.at \in WorkKinds /\ f.work = s <=> g.at \in WorkKinds /\ g.work = s
  /\ g.at \in WaitFrames => f.at \in WaitFrames /\ g.for = f.for

\* Stacks with such frames in the same places.
LEMMA AlikeInv ==
  ASSUME NEW p, NEW st, NEW js, Inv(p, st, js), NEW r \in Stacks(Frames),
         Positions(r) = Positions(st), \A t \in Threads : Depth(r, t) = Depth(st, t),
         \A x \in Positions(st) : Alike(On(st, x), On(r, x))
  PROVE  Inv(p, r, js)
<1>1. /\ PoolInv(p) /\ Shape(st) /\ Accounted(p, st) /\ AllPinned(p, st, DOMAIN js) /\ Apart(st)
      /\ Table(p, js) /\ EndedOf(p, st, js) /\ UnderOf(p, js)
  BY DEF Inv
<1>2. Shape(r)
  <2> SUFFICES ASSUME NEW x \in Positions(st)
               PROVE  Level(r, x[1], x[2]) /\ Idle(On(r, x))
    BY DEF Shape
  <2> DEFINE t == x[1]
             i == x[2]
             y == <<t, i - 1>>
  <2>1. /\ t \in Threads /\ i \in Nat /\ 1 <= i /\ i <= Depth(st, t) /\ Depth(st, t) \in Nat
        /\ On(r, x) = r[t][i] /\ On(st, x) = st[t][i]
    BY <1>1 DEF Positions, Shape, Stacks, Depth, On
  <2>2. Alike(st[t][i], r[t][i]) /\ Level(st, t, i)
    BY <1>1, <2>1 DEF Shape
  <2>3. CASE i = 1
    BY <2>1, <2>2, <2>3 DEF Level, Alike
  <2>4. CASE i # 1
    <3>1. y \in Positions(st) /\ On(r, y) = r[t][i - 1] /\ On(st, y) = st[t][i - 1]
      BY <2>1, <2>4 DEF Positions, On
    <3>2. Alike(st[t][i - 1], r[t][i - 1])
      BY <3>1
    <3>3. CASE st[t][i].at = "user"
      <4>1. r[t][i] = st[t][i]
        BY <2>2, <3>3 DEF Alike
      <4>2. /\ st[t][i].job # 0
            /\ st[t][i - 1].at \in WorkKinds /\ st[t][i - 1].work = SlotOf(st[t][i].job)
        BY <2>2, <2>4, <3>3 DEF Level
      <4>3. SlotOf(st[t][i].job) \in Slots
        <5>1. Runs(On(st, x), On(st, x).job)
          BY <2>1, <3>3, <4>2 DEF Runs
        <5>2. SlotOf(On(st, x).job) \in Slots
          BY <5>1, InUse
        <5> QED
          BY <2>1, <5>2
      <4>4. r[t][i - 1].at \in WorkKinds /\ r[t][i - 1].work = SlotOf(st[t][i].job)
        BY <3>2, <4>2, <4>3 DEF Alike
      <4> QED
        BY <2>1, <2>2, <2>4, <3>3, <4>1, <4>2, <4>4 DEF Level, Alike
    <3>4. CASE st[t][i].at # "user"
      BY <2>1, <2>2, <2>4, <3>2, <3>4 DEF Level, Alike
    <3> QED
      BY <3>3, <3>4
  <2> QED
    BY <2>1, <2>2, <2>3, <2>4 DEF Alike
<1>3. SameSets(st, r)
  <2> SUFFICES ASSUME NEW s \in Slots
               PROVE  /\ Work(r, s) = Work(st, s) /\ Open(r, s) = Open(st, s)
                      /\ Returned(r, s) = Returned(st, s)
    BY DEF SameSets
  <2>1. Work(r, s) = Work(st, s)
    BY DEF Work, Alike
  <2>2. Open(r, s) = Open(st, s)
    BY DEF Open, Alike
  <2>3. \A x \in Work(st, s) : x[1] \in Threads
    BY DEF Work, Positions
  <2> QED
    BY <2>1, <2>2, <2>3 DEF Returned
<1>4. AllPinned(p, r, DOMAIN js)
  BY <1>1 DEF AllPinned, Alike, Pinned
<1>5. Apart(r)
  BY <1>1 DEF Apart, Alike
<1> QED
  BY <1>1, <1>2, <1>3, <1>4, <1>5, SameSetsKeep DEF Inv

\* Another part of the same call.
LEMMA RetopInv ==
  ASSUME NEW p, NEW st, NEW js, Inv(p, st, js), NEW t \in Threads, NEW g \in Frames,
         Alike(Last(st[t]), g)
  PROVE  Inv(p, SetTop(st, t, g), js)
<1> DEFINE r == SetTop(st, t, g)
           n == Depth(st, t)
           z == <<t, n>>
<1>1. st \in Stacks(Frames) /\ Shape(st)
  BY DEF Inv, Shape
<1>2. r \in Stacks(Frames) /\ Retopped(st, r, t, g) /\ n \in Nat \ {0} /\ Last(st[t]) = st[t][n]
  BY <1>1, StackFacts
<1> HIDE DEF r
<1>3. /\ Above(st, r, t, n - 1) /\ Positions(st) = Below(st, t, n - 1) \cup {z}
      /\ Positions(r) = Below(st, t, n - 1) \cup {z} /\ On(r, z) = g
      /\ \A u \in Threads : Depth(r, u) = Depth(st, u)
  BY <1>1, <1>2, RetopAbove
<1>4. On(st, z) = Last(st[t])
  BY <1>2 DEF On
<1>5. ASSUME NEW x \in Positions(st) PROVE Alike(On(st, x), On(r, x))
  <2>1. CASE x = z
    BY <1>3, <1>4, <2>1
  <2>2. CASE x # z
    <3>1. x \in Below(st, t, n - 1)
      BY <1>3, <2>2
    <3>2. On(r, x) = On(st, x)
      BY <1>3, <3>1 DEF Above
    <3>3. Idle(On(st, x))
      BY <1>1 DEF Shape
    <3> QED
      BY <3>2, <3>3 DEF Alike
  <2> QED
    BY <2>1, <2>2
<1> HIDE DEF z
<1>6. Positions(r) = Positions(st)
  BY <1>3
<1>7. Inv(p, r, js)
  BY <1>2, <1>3, <1>5, <1>6, AlikeInv
<1> QED
  BY <1>7 DEF r

\* SleepConditionVariableCS returns in every waiting thread.
LEMMA WakeInv ==
  ASSUME NEW p, NEW st, NEW js, Inv(p, st, js)
  PROVE  /\ Inv(p, WakeAll(st), js)
         /\ \A t \in Threads : Last(st[t]).at # "blocked" => WakeAll(st)[t] = st[t]
<1> DEFINE r == WakeAll(st)
           woken(t) == [Last(st[t]) EXCEPT !.at = "woken"]
<1>1. st \in Stacks(Frames) /\ Shape(st) /\ st \in [Threads -> Seq(Frames)]
  BY DEF Inv, Shape, Stacks
<1>2. r = [t \in Threads |-> IF Last(st[t]).at = "blocked"
                             THEN Append(Front(st[t]), woken(t)) ELSE st[t]]
  BY DEF WakeAll
<1> HIDE DEF r
<1>3. ASSUME NEW t \in Threads, Last(st[t]).at = "blocked"
      PROVE  /\ woken(t) \in Frames /\ Alike(Last(st[t]), woken(t))
             /\ r[t] = SetTop(st, t, woken(t))[t]
  <2> DEFINE f == Last(st[t])
             z == <<t, Depth(st, t)>>
  <2>1. f = st[t][Depth(st, t)] /\ Depth(st, t) \in Nat \ {0} /\ f \in Frames
    <3>1. Depth(st, t) \in Nat \ {0} /\ st[t] \in Seq(Frames)
      BY <1>1 DEF Stacks, Depth
    <3>2. Len(st[t]) >= 1
      BY <3>1 DEF Depth
    <3>3. Last(st[t]) = st[t][Len(st[t])] /\ st[t][Len(st[t])] \in Frames
      BY <3>1, <3>2, ElementOfSeq DEF Last, Depth
    <3> QED
      BY <3>1, <3>3 DEF Depth
  <2>2. z \in Positions(st) /\ On(st, z) = f
    BY <2>1 DEF Positions, On
  <2>3. Idle(f)
    BY <1>1, <2>2 DEF Shape
  <2> HIDE DEF f
  <2>4. f.at = "blocked"
    BY <1>3 DEF f
  <2>5. f.at \in WaitFrames /\ "woken" \in WaitFrames
    BY <2>4 DEF WaitFrames
  <2>6. /\ [f EXCEPT !.at = "woken"] \in Frames
        /\ [f EXCEPT !.at = "woken"].at = "woken" /\ [f EXCEPT !.at = "woken"].work = f.work
        /\ [f EXCEPT !.at = "woken"].for = f.for
    BY <2>1, <2>5, FrameWait
  <2>7. Alike(f, [f EXCEPT !.at = "woken"])
    BY <2>3, <2>4, <2>6 DEF Alike, Idle, IdleKinds, BaseKinds, WorkKinds, WaitFrames, MainKinds,
                           CallKinds
  <2>8. r[t] = Append(Front(st[t]), woken(t))
    BY <1>2, <1>3
  <2>9. SetTop(st, t, woken(t))[t] = Append(Front(st[t]), woken(t))
    BY <1>1 DEF SetTop
  <2> QED
    BY <2>6, <2>7, <2>8, <2>9 DEF f
<1>4. ASSUME NEW t \in Threads
      PROVE  /\ r[t] \in Seq(Frames) /\ Len(r[t]) = Depth(st, t)
             /\ \A i \in 1 .. Depth(st, t) : Alike(st[t][i], r[t][i])
  <2>1. /\ \A i \in 1 .. Depth(st, t) : Idle(st[t][i])
        /\ st[t] \in Seq(Frames)
    <3>1. ASSUME NEW i \in 1 .. Depth(st, t) PROVE Idle(st[t][i])
      <4>1. <<t, i>> \in Positions(st) /\ On(st, <<t, i>>) = st[t][i]
        BY DEF Positions, On
      <4> QED
        BY <1>1, <4>1 DEF Shape
    <3> QED
      BY <1>1, <3>1
  <2>2. CASE Last(st[t]).at # "blocked"
    <3>1. r[t] = st[t]
      BY <1>2, <2>2
    <3> QED
      BY <2>1, <3>1 DEF Alike, Depth
  <2>3. CASE Last(st[t]).at = "blocked"
    <3> DEFINE g == woken(t)
               v == SetTop(st, t, g)
    <3>1. g \in Frames /\ Alike(Last(st[t]), g) /\ r[t] = v[t]
      BY <1>3, <2>3
    <3> HIDE DEF g
    <3>2. v \in Stacks(Frames) /\ Retopped(st, v, t, g) /\ Last(st[t]) = st[t][Depth(st, t)]
      BY <1>1, <3>1, StackFacts
    <3> HIDE DEF v
    <3>3. v[t] \in Seq(Frames)
      BY <3>2 DEF Stacks
    <3>4. /\ Depth(v, t) = Depth(st, t)
          /\ \A i \in 1 .. Depth(st, t) : v[t][i] = IF i = Depth(st, t) THEN g ELSE st[t][i]
      BY <3>2 DEF Retopped
    <3>5. \A i \in 1 .. Depth(st, t) : Alike(st[t][i], v[t][i])
      <4> SUFFICES ASSUME NEW i \in 1 .. Depth(st, t) PROVE Alike(st[t][i], v[t][i])
        OBVIOUS
      <4>1. CASE i = Depth(st, t)
        BY <3>1, <3>2, <3>4, <4>1
      <4>2. CASE i # Depth(st, t)
        <5>1. v[t][i] = st[t][i] /\ Idle(st[t][i])
          BY <2>1, <3>4, <4>2
        <5> QED
          BY <5>1 DEF Alike
      <4> QED
        BY <4>1, <4>2
    <3> QED
      BY <3>1, <3>3, <3>4, <3>5 DEF Depth
  <2> QED
    BY <2>2, <2>3
<1>5. r \in Stacks(Frames)
  <2>1. r \in [Threads -> Seq(Frames)]
    BY <1>2, <1>4
  <2> QED
    BY <1>1, <1>4, <2>1 DEF Stacks, Depth
<1>6. \A t \in Threads : Depth(r, t) = Depth(st, t)
  BY <1>4 DEF Depth
<1>7. Positions(r) = Positions(st)
  BY <1>6 DEF Positions
<1>8. ASSUME NEW x \in Positions(st) PROVE Alike(On(st, x), On(r, x))
  <2>1. x[1] \in Threads /\ x[2] \in 1 .. Depth(st, x[1])
    BY <1>1 DEF Positions, Stacks, Depth
  <2> QED
    BY <1>4, <2>1 DEF On
<1>9. Inv(p, r, js)
  BY <1>5, <1>6, <1>7, <1>8, AlikeInv
<1>10. \A t \in Threads : Last(st[t]).at # "blocked" => r[t] = st[t]
  BY <1>2
<1> QED
  BY <1>9, <1>10 DEF r

-----------------------------------------------------------------------------
(* A call and its return *)

\* The top frame of a thread.
LEMMA TopFrame ==
  ASSUME NEW p, NEW st, NEW js, Inv(p, st, js), NEW t \in Threads
  PROVE  /\ Depth(st, t) \in Nat /\ Depth(st, t) > 0
         /\ <<t, Depth(st, t)>> \in Positions(st)
         /\ On(st, <<t, Depth(st, t)>>) = Last(st[t]) /\ Last(st[t]) = st[t][Depth(st, t)]
         /\ Last(st[t]) \in Frames
         /\ Level(st, t, Depth(st, t)) /\ Idle(Last(st[t]))
         /\ Pinned(p, DOMAIN js, Last(st[t]))
         /\ st \in Stacks(Frames)
<1> DEFINE n == Depth(st, t)
           z == <<t, n>>
<1>1. Shape(st) /\ st \in Stacks(Frames) /\ AllPinned(p, st, DOMAIN js)
  BY DEF Inv, Shape
<1>2. n \in Nat /\ n > 0 /\ st[t] \in Seq(Frames) /\ Len(st[t]) = n
  BY <1>1 DEF Stacks, Depth
<1> HIDE DEF n
<1>3. Last(st[t]) = st[t][n]
  BY <1>2 DEF Last
<1>4. st[t][n] \in Frames
  BY <1>2, ElementOfSeq
<1>5. z \in Positions(st) /\ On(st, z) = st[t][n] /\ z[1] = t /\ z[2] = n
  BY <1>2 DEF Positions, On, n
<1>6. Level(st, t, n) /\ Idle(On(st, z))
  BY <1>1, <1>5 DEF Shape
<1>7. Pinned(p, DOMAIN js, On(st, z))
  BY <1>1, <1>5 DEF AllPinned
<1> QED
  BY <1>1, <1>2, <1>3, <1>4, <1>5, <1>6, <1>7 DEF n

\* User code calls a function of the queue.
LEMMA CallInv ==
  ASSUME NEW p, NEW st, NEW js, Inv(p, st, js), NEW t \in Threads, Last(st[t]).at = "user",
         NEW g \in Frames, g.at \in CallKinds, g.at \in WorkKinds => g.work = 0, Idle(g),
         g.at \in MainKinds => t = Main /\ Depth(st, t) = 1,
         g.at \in WaitFrames => g.for \in DOMAIN js
  PROVE  Inv(p, Push(st, t, g), js)
<1> DEFINE r == Push(st, t, g)
           n == Depth(st, t)
           z == <<t, n + 1>>
<1>1. /\ PoolInv(p) /\ Shape(st) /\ Accounted(p, st) /\ AllPinned(p, st, DOMAIN js) /\ Apart(st)
      /\ Table(p, js) /\ EndedOf(p, st, js) /\ UnderOf(p, js)
  BY DEF Inv
<1>2. st \in Stacks(Frames) /\ n \in Nat /\ n > 0 /\ Last(st[t]) = st[t][n]
  BY TopFrame
<1>3. r \in Stacks(Frames) /\ Pushed(st, r, t, g)
  BY <1>2, StackFacts
<1> HIDE DEF r
<1>4. /\ Above(st, r, t, n) /\ Positions(st) = Below(st, t, n)
      /\ Positions(r) = Below(st, t, n) \cup {z} /\ On(r, z) = g
      /\ Depth(r, t) = n + 1
      /\ \A u \in Threads : u # t => Depth(r, u) = Depth(st, u)
  BY <1>2, <1>3, PushAbove
<1>5. g.at # "user"
  BY DEF CallKinds, WaitFrames, MainKinds
<1>6. \A x \in Positions(st) :
         /\ x \in Positions(r) /\ On(r, x) = On(st, x)
         /\ Level(r, x[1], x[2]) <=> Level(st, x[1], x[2])
         /\ \A s : x \in Work(r, s) <=> x \in Work(st, s)
         /\ \A k, s : <<x, k>> \in Open(r, s) <=> <<x, k>> \in Open(st, s)
  BY <1>2, <1>4, AboveKeeps
<1>7. Positions(r) = Positions(st) \cup {z}
  BY <1>4
<1>8. Shape(r)
  <2>1. ASSUME NEW x \in Positions(st) PROVE Level(r, x[1], x[2]) /\ Idle(On(r, x))
    BY <1>1, <1>6 DEF Shape
  <2>2. Level(r, t, n + 1)
    <3>1. r[t][n + 1] = g /\ r[t][n] = st[t][n]
      BY <1>2, <1>3 DEF Pushed
    <3>2. n + 1 # 1 /\ (n + 1) - 1 = n /\ (n = 1 => n + 1 = 2)
      BY <1>2
    <3>3. /\ g.at \in CallKinds /\ st[t][n].at = "user"
          /\ g.at \in MainKinds => t = Main /\ n = 1
      BY <1>2
    <3> HIDE DEF n
    <3> QED
      BY <1>5, <3>1, <3>2, <3>3 DEF Level
  <2>3. Level(r, z[1], z[2]) /\ Idle(On(r, z))
    BY <1>4, <2>2
  <2> QED
    BY <1>3, <1>7, <2>1, <2>3 DEF Shape
<1>9. SameSets(st, r)
  <2> SUFFICES ASSUME NEW s \in Slots
               PROVE  /\ Work(r, s) = Work(st, s) /\ Open(r, s) = Open(st, s)
                      /\ Returned(r, s) = Returned(st, s)
    BY DEF SameSets
  <2>1. s # 0
    BY DEF Slots
  <2>2. z \notin Work(r, s) /\ \A k : <<z, k>> \notin Open(r, s)
    BY <1>4, <1>5, <2>1 DEF Work, Open
  <2>3. Work(r, s) \subseteq Positions(r) /\ Work(st, s) \subseteq Positions(st)
    BY DEF Work
  <2>4. Work(r, s) = Work(st, s)
    <3>1. \A x \in Positions(st) : x \in Work(r, s) <=> x \in Work(st, s)
      BY <1>6
    <3> HIDE DEF z
    <3> QED
      BY <1>7, <2>2, <2>3, <3>1
  <2>5. Open(r, s) \subseteq Positions(r) \X Nat /\ Open(st, s) \subseteq Positions(st) \X Nat
    BY DEF Open
  <2>6. Open(r, s) = Open(st, s)
    <3>1. \A y \in Open(r, s) : y = <<y[1], y[2]>> /\ y[1] \in Positions(r)
      BY <2>5
    <3>2. \A y \in Open(st, s) : y = <<y[1], y[2]>> /\ y[1] \in Positions(st)
      BY <2>5
    <3>3. \A y \in Open(r, s) : y \in Open(st, s)
      BY <1>6, <1>7, <2>2, <3>1
    <3>4. \A y \in Open(st, s) : y \in Open(r, s)
      BY <1>6, <3>2
    <3> QED
      BY <3>3, <3>4
  <2>7. ASSUME NEW x \in Work(st, s) PROVE x[2] = Depth(r, x[1]) <=> x[2] = Depth(st, x[1])
    <3>1. /\ x[1] \in Threads /\ x[2] \in Nat /\ x[2] <= Depth(st, x[1]) /\ x = <<x[1], x[2]>>
          /\ On(st, x).at \in WorkKinds
      BY DEF Work, Positions
    <3>2. CASE x[1] # t
      BY <1>4, <3>1, <3>2
    <3>3. CASE x[1] = t
      <4>1. x[2] # n
        BY <1>2, <3>1, <3>3 DEF On, WorkKinds
      <4> QED
        BY <1>2, <1>4, <3>1, <3>3, <4>1
    <3> QED
      BY <3>2, <3>3
  <2> QED
    BY <2>4, <2>6, <2>7 DEF Returned
<1>10. AllPinned(p, r, DOMAIN js)
  <2>1. Pinned(p, DOMAIN js, g)
    BY <1>5 DEF Pinned
  <2> QED
    BY <1>1, <1>4, <1>6, <1>7, <2>1 DEF AllPinned
<1>11. Apart(r)
  BY <1>1, <1>4, <1>5, <1>6, <1>7 DEF Apart
<1>12. Inv(p, r, js)
  BY <1>1, <1>8, <1>9, <1>10, <1>11, SameSetsKeep DEF Inv
<1> QED
  BY <1>12 DEF r

\* A function of the queue returns to user code, with no work left to count.
LEMMA ReturnInv ==
  ASSUME NEW p, NEW st, NEW js, Inv(p, st, js), NEW t \in Threads,
         Last(st[t]).at \in CallKinds, Last(st[t]).at \in WorkKinds => Last(st[t]).work = 0
  PROVE  /\ Inv(p, Pop(st, t), js) /\ Last(Pop(st, t)[t]).at = "user" /\ Depth(st, t) > 1
         /\ Depth(Pop(st, t), t) = Depth(st, t) - 1
<1> DEFINE r == Pop(st, t)
           n == Depth(st, t)
           z == <<t, n>>
<1>1. /\ PoolInv(p) /\ Shape(st) /\ Accounted(p, st) /\ AllPinned(p, st, DOMAIN js) /\ Apart(st)
      /\ Table(p, js) /\ EndedOf(p, st, js) /\ UnderOf(p, js)
  BY DEF Inv
<1>2. /\ st \in Stacks(Frames) /\ n \in Nat /\ n > 0 /\ Last(st[t]) = st[t][n]
      /\ Level(st, t, n) /\ On(st, z) = st[t][n] /\ Last(st[t]) \in Frames
  BY TopFrame
<1>3. st[t][n].at # "user" /\ st[t][n].at \notin BaseKinds
  BY <1>2 DEF CallKinds, WaitFrames, MainKinds, BaseKinds
<1>4. n > 1 /\ st[t][n - 1].at = "user"
  BY <1>2, <1>3 DEF Level
<1>5. r \in Stacks(Frames) /\ Popped(st, r, t)
  BY <1>2, <1>4, StackFacts
<1> HIDE DEF r
<1>6. /\ Above(st, r, t, n - 1) /\ Positions(st) = Below(st, t, n - 1) \cup {z}
      /\ Positions(r) = Below(st, t, n - 1)
      /\ Depth(r, t) = n - 1
      /\ \A u \in Threads : u # t => Depth(r, u) = Depth(st, u)
  BY <1>2, <1>5, PopAbove
<1>7. \A x \in Positions(r) :
         /\ x \in Positions(st) /\ On(r, x) = On(st, x)
         /\ Level(r, x[1], x[2]) <=> Level(st, x[1], x[2])
         /\ \A s : x \in Work(r, s) <=> x \in Work(st, s)
         /\ \A k, s : <<x, k>> \in Open(r, s) <=> <<x, k>> \in Open(st, s)
  <2>1. n - 1 \in Nat
    BY <1>2
  <2> QED
    BY <1>2, <1>6, <2>1, AboveKeeps
<1>8. Positions(st) = Positions(r) \cup {z}
  BY <1>6
<1>9. Shape(r)
  <2>1. ASSUME NEW x \in Positions(r) PROVE Level(r, x[1], x[2]) /\ Idle(On(r, x))
    BY <1>1, <1>7 DEF Shape
  <2> QED
    BY <1>5, <2>1 DEF Shape
<1>10. SameSets(st, r)
  <2> SUFFICES ASSUME NEW s \in Slots
               PROVE  /\ Work(r, s) = Work(st, s) /\ Open(r, s) = Open(st, s)
                      /\ Returned(r, s) = Returned(st, s)
    BY DEF SameSets
  <2>1. s # 0
    BY DEF Slots
  <2>2. z \notin Work(st, s) /\ \A k : <<z, k>> \notin Open(st, s)
    BY <1>2, <1>3, <2>1 DEF Work, Open
  <2>3. Work(r, s) \subseteq Positions(r) /\ Work(st, s) \subseteq Positions(st)
    BY DEF Work
  <2>4. Work(r, s) = Work(st, s)
    <3>1. \A x \in Positions(r) : x \in Work(r, s) <=> x \in Work(st, s)
      BY <1>7
    <3> HIDE DEF z
    <3> QED
      BY <1>8, <2>2, <2>3, <3>1
  <2>5. Open(r, s) \subseteq Positions(r) \X Nat /\ Open(st, s) \subseteq Positions(st) \X Nat
    BY DEF Open
  <2>6. Open(r, s) = Open(st, s)
    <3>1. \A y \in Open(r, s) : y = <<y[1], y[2]>> /\ y[1] \in Positions(r)
      BY <2>5
    <3>2. \A y \in Open(st, s) : y = <<y[1], y[2]>> /\ y[1] \in Positions(st)
      BY <2>5
    <3>3. \A y \in Open(r, s) : y \in Open(st, s)
      BY <1>7, <3>1
    <3>4. \A y \in Open(st, s) : y \in Open(r, s)
      BY <1>7, <1>8, <2>2, <3>2
    <3> QED
      BY <3>3, <3>4
  <2>7. ASSUME NEW x \in Work(r, s) PROVE x[2] = Depth(r, x[1]) <=> x[2] = Depth(st, x[1])
    <3>1. /\ x[1] \in Threads /\ x[2] \in Nat /\ x[2] <= Depth(r, x[1]) /\ x = <<x[1], x[2]>>
          /\ On(r, x).at \in WorkKinds
      BY DEF Work, Positions
    <3>2. CASE x[1] # t
      BY <1>6, <3>1, <3>2
    <3>3. CASE x[1] = t
      <4>1. On(st, x).at \in WorkKinds
        BY <1>7, <2>3, <3>1
      <4>2. x[2] # n - 1
        BY <1>4, <3>1, <3>3, <4>1 DEF On, WorkKinds
      <4> QED
        BY <1>2, <1>6, <3>1, <3>3, <4>2
    <3> QED
      BY <3>2, <3>3
  <2> QED
    BY <2>4, <2>6, <2>7 DEF Returned
<1>11. AllPinned(p, r, DOMAIN js)
  BY <1>1, <1>7 DEF AllPinned
<1>12. Apart(r)
  BY <1>1, <1>7 DEF Apart
<1>13. Inv(p, r, js)
  BY <1>1, <1>9, <1>10, <1>11, <1>12, SameSetsKeep DEF Inv
<1>14. Last(r[t]).at = "user"
  <2>1. Last(r[t]) = r[t][n - 1]
    BY <1>6, <1>13, TopFrame
  <2>2. r[t][n - 1] = st[t][n - 1]
    BY <1>2, <1>5, <1>4 DEF Popped
  <2> QED
    BY <1>4, <2>1, <2>2
<1> QED
  BY <1>6, <1>4, <1>13, <1>14 DEF r

-----------------------------------------------------------------------------
(* A change of the top frame *)

\* r is st with the top frame g instead of f at z, a frame of the same kind
\* that runs the same sub-job.
Reframes(st, r, z, f, g) ==
  /\ Shape(r) /\ Apart(r) /\ Positions(r) = Positions(st)
  /\ z \in Positions(st) /\ On(st, z) = f /\ On(r, z) = g
  /\ z[2] = Depth(st, z[1]) /\ z[2] = Depth(r, z[1])
  /\ \A x \in Positions(st) \ {z} : On(r, x) = On(st, x)
  /\ \A s \in Slots : /\ Work(r, s) \ {z} = Work(st, s) \ {z}
                      /\ Returned(r, s) \ {z} = Returned(st, s) \ {z}
                      /\ Open(r, s) \ ({z} \X Nat) = Open(st, s) \ ({z} \X Nat)

\* SetTop with such a frame.
LEMMA ReframeFacts ==
  ASSUME NEW p, NEW st, NEW js, Inv(p, st, js), NEW t \in Threads, NEW g \in Frames,
         NEW f, f = Last(st[t]), g.at = f.at, Idle(g),
         g.at = "user" => g.job = f.job /\ g.sub = f.sub
  PROVE  Reframes(st, SetTop(st, t, g), <<t, Depth(st, t)>>, f, g)
<1> DEFINE r == SetTop(st, t, g)
           n == Depth(st, t)
           z == <<t, n>>
<1>1. Shape(st) /\ Apart(st)
  BY DEF Inv
<1>2. /\ st \in Stacks(Frames) /\ n \in Nat /\ n > 0 /\ f = st[t][n]
      /\ Level(st, t, n) /\ On(st, z) = f /\ z \in Positions(st)
  BY TopFrame
<1>3. r \in Stacks(Frames) /\ Retopped(st, r, t, g)
  BY <1>2, StackFacts
<1> HIDE DEF r
<1>4. /\ Above(st, r, t, n - 1) /\ Positions(st) = Below(st, t, n - 1) \cup {z}
      /\ Positions(r) = Below(st, t, n - 1) \cup {z} /\ On(r, z) = g
      /\ \A u \in Threads : Depth(r, u) = Depth(st, u)
  BY <1>2, <1>3, RetopAbove
<1>5. Positions(r) = Positions(st)
  BY <1>4
<1>6. z[1] = t /\ z[2] = n
  OBVIOUS
<1> HIDE DEF z
<1>7. \A x \in Positions(st) \ {z} :
         /\ On(r, x) = On(st, x)
         /\ Level(r, x[1], x[2]) <=> Level(st, x[1], x[2])
         /\ \A s : x \in Work(r, s) <=> x \in Work(st, s)
         /\ \A k, s : <<x, k>> \in Open(r, s) <=> <<x, k>> \in Open(st, s)
  <2>1. n - 1 \in Nat
    BY <1>2
  <2>2. \A x \in Positions(st) \ {z} : x \in Below(st, t, n - 1)
    BY <1>4
  <2> QED
    BY <1>2, <1>4, <2>1, <2>2, AboveKeeps
<1>8. Shape(r)
  <2>1. ASSUME NEW x \in Positions(st) \ {z} PROVE Level(r, x[1], x[2]) /\ Idle(On(r, x))
    BY <1>1, <1>7 DEF Shape
  <2>2. Level(r, t, n)
    <3>1. r[t][n] = g /\ (n # 1 => r[t][n - 1] = st[t][n - 1])
      BY <1>2, <1>3 DEF Retopped
    <3> HIDE DEF n
    <3> QED
      BY <1>2, <3>1 DEF Level
  <2>3. Level(r, z[1], z[2]) /\ Idle(On(r, z))
    BY <1>4, <1>6, <2>2
  <2> QED
    BY <1>3, <1>5, <2>1, <2>3 DEF Shape
<1>9. Apart(r)
  <2>1. \A x \in Positions(st) : /\ On(r, x).at = On(st, x).at
                                 /\ On(r, x).at = "user" => /\ On(r, x).job = On(st, x).job
                                                            /\ On(r, x).sub = On(st, x).sub
    BY <1>2, <1>4, <1>7
  <2> QED
    BY <1>1, <1>5, <2>1 DEF Apart
<1>10. ASSUME NEW s \in Slots
       PROVE  /\ Work(r, s) \ {z} = Work(st, s) \ {z}
              /\ Returned(r, s) \ {z} = Returned(st, s) \ {z}
              /\ Open(r, s) \ ({z} \X Nat) = Open(st, s) \ ({z} \X Nat)
  <2>1. Work(r, s) \subseteq Positions(st) /\ Work(st, s) \subseteq Positions(st)
    BY <1>5 DEF Work
  <2>2. \A x \in Positions(st) \ {z} : x \in Work(r, s) <=> x \in Work(st, s)
    BY <1>7
  <2>3. Work(r, s) \ {z} = Work(st, s) \ {z}
    BY <2>1, <2>2
  <2>4. \A x \in Positions(st) : Depth(r, x[1]) = Depth(st, x[1])
    BY <1>4 DEF Positions
  <2>5. \A x : x \in Returned(r, s) \ {z} <=> x \in Returned(st, s) \ {z}
    BY <2>1, <2>2, <2>4 DEF Returned
  <2>6. Returned(r, s) \ {z} = Returned(st, s) \ {z}
    BY <2>5
  <2>7. Open(r, s) \subseteq Positions(st) \X Nat /\ Open(st, s) \subseteq Positions(st) \X Nat
    BY <1>5 DEF Open
  <2>8. \A x \in Positions(st) \ {z} :
          \A k : <<x, k>> \in Open(r, s) <=> <<x, k>> \in Open(st, s)
    BY <1>7
  <2>9. ASSUME NEW y \in Positions(st) \X Nat
        PROVE  y \in Open(r, s) \ ({z} \X Nat) <=> y \in Open(st, s) \ ({z} \X Nat)
    <3>1. PICK x \in Positions(st), k \in Nat : y = <<x, k>>
      OBVIOUS
    <3> QED
      BY <2>8, <3>1
  <2>10. Open(r, s) \ ({z} \X Nat) = Open(st, s) \ ({z} \X Nat)
    BY <2>7, <2>9
  <2> QED
    BY <2>3, <2>6, <2>10
<1>11. z[2] = Depth(st, z[1]) /\ z[2] = Depth(r, z[1])
  BY <1>4, <1>6
<1>12. Reframes(st, r, z, f, g)
  BY <1>2, <1>4, <1>5, <1>7, <1>8, <1>9, <1>10, <1>11 DEF Reframes
<1> QED
  BY <1>12 DEF r, z

-----------------------------------------------------------------------------
(* Jq2IncrementFinished *)

\* What the rest of the queue sees of a finished sub-job of s.
LEMMA FinishKeeps ==
  ASSUME NEW p, NEW st, NEW js, Inv(p, st, js), NEW s \in Slots,
         p.num_finished_jobs[s] < p.nNumStarted[s], NEW r, r = IncrementFinished(p, s)
  PROVE  /\ PoolInv(r) /\ Table(r, js) /\ UnderOf(r, js)
         /\ \A J, f : Pinned(p, J, f) => Pinned(r, J, f)
         /\ \A h \in DOMAIN js : IsDone(p, h) => IsDone(r, h)
         /\ r.num_finished_jobs = [p.num_finished_jobs EXCEPT ![s] = @ + 1]
         /\ p.num_finished_jobs \in [Slots -> Nat]
         /\ r.nStartedHandle = p.nStartedHandle /\ r.nNumJobs = p.nNumJobs
         /\ r.nNumStarted = p.nNumStarted
<1> DEFINE D == CheckFinished(Ended(p, s), s)
<1>1. /\ PoolInv(p) /\ Table(p, js) /\ EndedOf(p, st, js) /\ UnderOf(p, js)
  BY DEF Inv
<1> HIDE DEF D
<1>2. /\ PoolInv(r) /\ Finishes(p, r, s, D)
      /\ \A x \in Slots : PendingJobs(r, x) <=> PendingJobs(p, x) /\ x \notin D
  BY <1>1, FinishedInv DEF D
<1>3. /\ r.num_finished_jobs = [p.num_finished_jobs EXCEPT ![s] = @ + 1]
      /\ r.nFinishedHandle = [x \in Slots |-> IF x \in D THEN p.nStartedHandle[x]
                                              ELSE p.nFinishedHandle[x]]
      /\ r.nParent = [x \in Slots |-> IF x \in D THEN 0 ELSE p.nParent[x]]
      /\ r.nStartedHandle = p.nStartedHandle /\ r.nNumJobs = p.nNumJobs
      /\ r.nNumStarted = p.nNumStarted /\ r.nNextHandle = p.nNextHandle
  BY <1>2 DEF Finishes
<1>4. /\ p.nStartedHandle \in [Slots -> Nat] /\ p.nFinishedHandle \in [Slots -> Nat]
      /\ \A x \in Slots : p.nFinishedHandle[x] <= p.nStartedHandle[x]
      /\ p.num_finished_jobs \in [Slots -> Nat]
  BY <1>1, PoolTypes DEF PoolInv, Handles
<1>5. Table(r, js)
  BY <1>1, <1>3 DEF Table
<1>6. ASSUME NEW h \in DOMAIN js
      PROVE  /\ h \in Nat /\ SlotOf(h) \in Slots
             /\ IsDone(p, h) => IsDone(r, h)
             /\ ~IsDone(r, h) => SlotOf(h) \notin D
  <2>1. h \in Nat /\ SlotOf(h) \in Slots
    BY <1>1 DEF Table
  <2>2. IsDone(p, h) => IsDone(r, h)
    BY <1>3, <1>4, <2>1 DEF IsDone
  <2>3. ASSUME ~IsDone(p, h), SlotOf(h) \in D PROVE IsDone(r, h)
    <3>1. p.nStartedHandle[SlotOf(h)] = h
      BY <1>1, <2>3 DEF EndedOf, IsDone
    <3>2. r.nFinishedHandle[SlotOf(h)] = h
      BY <1>3, <2>1, <2>3, <3>1
    <3> QED
      BY <2>1, <3>2 DEF IsDone
  <2> QED
    BY <2>1, <2>2, <2>3
<1>7. UnderOf(r, js)
  <2> SUFFICES ASSUME NEW c \in DOMAIN js, ~IsDone(r, c), js[c].under # 0
               PROVE  /\ r.nParent[SlotOf(c)] = SlotOf(js[c].under)
                      /\ r.nStartedHandle[SlotOf(js[c].under)] = js[c].under
    BY DEF UnderOf
  <2>1. ~IsDone(p, c) /\ SlotOf(c) \in Slots /\ SlotOf(c) \notin D
    BY <1>6
  <2>2. /\ p.nParent[SlotOf(c)] = SlotOf(js[c].under)
        /\ p.nStartedHandle[SlotOf(js[c].under)] = js[c].under
    BY <1>1, <2>1 DEF UnderOf
  <2> QED
    BY <1>3, <2>1, <2>2
<1>8. \A J, f : Pinned(p, J, f) => Pinned(r, J, f)
  BY <1>3 DEF Pinned, Owns
<1> QED
  BY <1>2, <1>3, <1>4, <1>5, <1>6, <1>7, <1>8

\* A thread counts the sub-job it has run.
LEMMA FinishInv ==
  ASSUME NEW p, NEW st, NEW js, Inv(p, st, js), NEW t \in Threads,
         Last(st[t]).at \in WorkKinds, NEW w, w = Last(st[t]).work, w # 0
  PROVE  Inv(IncrementFinished(p, w), SetTop(st, t, [Last(st[t]) EXCEPT !.work = 0]), js)
<1> DEFINE f == Last(st[t])
           g == [f EXCEPT !.work = 0]
           a == SetTop(st, t, g)
           z == <<t, Depth(st, t)>>
           r == IncrementFinished(p, w)
<1>1. /\ PoolInv(p) /\ Shape(st) /\ Accounted(p, st) /\ AllPinned(p, st, DOMAIN js) /\ Apart(st)
      /\ Table(p, js) /\ EndedOf(p, st, js) /\ UnderOf(p, js)
  BY DEF Inv
<1>2. f \in Frames
  BY TopFrame
<1>3. w \in Slots
  BY <1>2, FrameFacts
<1>4. g \in Frames /\ g.at = f.at /\ g.work = 0 /\ (f.at \in WaitFrames => g.for = f.for)
  BY <1>2, FrameWork
<1>5. g.at # "user" /\ Idle(g)
  BY <1>4 DEF WorkKinds, Idle
<1> HIDE DEF g
<1>6. Reframes(st, a, z, f, g)
  BY <1>4, <1>5, ReframeFacts
<1> HIDE DEF a, z
<1>7. /\ Shape(a) /\ Apart(a) /\ Positions(a) = Positions(st)
      /\ z \in Positions(st) /\ On(st, z) = f /\ On(a, z) = g
      /\ z[2] = Depth(st, z[1])
      /\ \A x \in Positions(st) \ {z} : On(a, x) = On(st, x)
  BY <1>6 DEF Reframes
<1> HIDE DEF f
<1>8. z \in Work(st, w) /\ z \in Returned(st, w) /\ f.at \in WorkKinds /\ f.work = w
  BY <1>7 DEF Work, Returned, f
<1>9. p.num_finished_jobs[w] < p.nNumStarted[w]
  BY <1>1, <1>3, <1>8, HeldFacts
<1>10. /\ PoolInv(r) /\ Table(r, js) /\ UnderOf(r, js)
       /\ \A J, y : Pinned(p, J, y) => Pinned(r, J, y)
       /\ \A h \in DOMAIN js : IsDone(p, h) => IsDone(r, h)
       /\ r.num_finished_jobs = [p.num_finished_jobs EXCEPT ![w] = @ + 1]
       /\ p.num_finished_jobs \in [Slots -> Nat]
       /\ r.nStartedHandle = p.nStartedHandle /\ r.nNumJobs = p.nNumJobs
       /\ r.nNumStarted = p.nNumStarted
  BY <1>3, <1>9, FinishKeeps
<1> HIDE DEF r
<1>11. ASSUME NEW s \in Slots
       PROVE  /\ Work(a, s) = Work(st, s) \ {z} /\ Returned(a, s) = Returned(st, s) \ {z}
              /\ Open(a, s) = Open(st, s)
              /\ s # w => z \notin Work(st, s) /\ z \notin Returned(st, s)
  <2>1. s # 0
    BY DEF Slots
  <2>2. z \notin Work(a, s) /\ z \notin Returned(a, s)
    BY <1>4, <1>7, <2>1 DEF Work, Returned
  <2>3. \A k : <<z, k>> \notin Open(a, s)
    BY <1>5, <1>7 DEF Open
  <2>4. \A k : <<z, k>> \notin Open(st, s)
    BY <1>4, <1>5, <1>7 DEF Open
  <2>5. s # w => z \notin Work(st, s) /\ z \notin Returned(st, s)
    BY <1>7, <1>8 DEF Work, Returned
  <2>6. /\ Work(a, s) \ {z} = Work(st, s) \ {z}
        /\ Returned(a, s) \ {z} = Returned(st, s) \ {z}
        /\ Open(a, s) \ ({z} \X Nat) = Open(st, s) \ ({z} \X Nat)
    BY <1>6 DEF Reframes
  <2>7. Work(a, s) = Work(st, s) \ {z} /\ Returned(a, s) = Returned(st, s) \ {z}
    BY <2>2, <2>6
  <2>8. Open(a, s) \cap ({z} \X Nat) = {} /\ Open(st, s) \cap ({z} \X Nat) = {}
    BY <2>3, <2>4
  <2>9. Open(a, s) = Open(st, s)
    BY <2>6, <2>8
  <2> QED
    BY <2>5, <2>7, <2>9
<1>12. ASSUME NEW s \in Slots
       PROVE  /\ IsFiniteSet(Work(a, s)) /\ IsFiniteSet(Open(a, s))
              /\ Cardinality(Work(a, s)) + Cardinality(Open(a, s))
                   = r.nNumStarted[s] - r.num_finished_jobs[s]
              /\ r.num_finished_jobs[s] + Cardinality(Returned(a, s))
                   = p.num_finished_jobs[s] + Cardinality(Returned(st, s))
  <2>1. /\ IsFiniteSet(Work(st, s)) /\ IsFiniteSet(Open(st, s))
        /\ Cardinality(Work(st, s)) + Cardinality(Open(st, s))
             = p.nNumStarted[s] - p.num_finished_jobs[s]
    BY <1>1 DEF Accounted
  <2>2. /\ Cardinality(Work(st, s)) \in Nat /\ Cardinality(Open(st, s)) \in Nat
        /\ IsFiniteSet(Returned(st, s)) /\ Cardinality(Returned(st, s)) \in Nat
    BY <1>1, HeldFacts
  <2>3. p.num_finished_jobs[s] \in Nat /\ p.nNumStarted[s] \in Nat
    BY <1>1, CountFacts
  <2>4. CASE s = w
    <3>1. z \in Work(st, s) /\ z \in Returned(st, s)
      BY <1>8, <2>4
    <3>2. /\ IsFiniteSet(Work(st, s) \ {z})
          /\ Cardinality(Work(st, s) \ {z}) = Cardinality(Work(st, s)) - 1
      BY <2>1, <3>1, FS_RemoveElement
    <3>3. Cardinality(Returned(st, s) \ {z}) = Cardinality(Returned(st, s)) - 1
      BY <2>2, <3>1, FS_RemoveElement
    <3>4. r.num_finished_jobs[s] = p.num_finished_jobs[s] + 1 /\ r.nNumStarted[s] = p.nNumStarted[s]
      BY <1>10, <2>4
    <3>5. Work(a, s) = Work(st, s) \ {z} /\ Returned(a, s) = Returned(st, s) \ {z} /\ Open(a, s) = Open(st, s)
      BY <1>11
    <3> QED
      BY <2>1, <2>2, <2>3, <3>2, <3>3, <3>4, <3>5
  <2>5. CASE s # w
    <3>1. z \notin Work(st, s) /\ z \notin Returned(st, s)
      BY <1>11, <2>5
    <3>2. Work(a, s) = Work(st, s) /\ Returned(a, s) = Returned(st, s) /\ Open(a, s) = Open(st, s)
      BY <1>11, <3>1
    <3>3. r.num_finished_jobs[s] = p.num_finished_jobs[s] /\ r.nNumStarted[s] = p.nNumStarted[s]
      BY <1>10, <2>5
    <3> QED
      BY <2>1, <3>2, <3>3
  <2> QED
    BY <2>4, <2>5
<1>13. Accounted(r, a)
  BY <1>12 DEF Accounted
<1>14. EndedOf(r, a, js)
  <2> SUFFICES ASSUME NEW h \in DOMAIN js
               PROVE  IF r.nStartedHandle[SlotOf(h)] = h
                      THEN /\ js[h].num = r.nNumJobs[SlotOf(h)]
                           /\ js[h].ended = r.num_finished_jobs[SlotOf(h)]
                                              + Cardinality(Returned(a, SlotOf(h)))
                      ELSE js[h].ended = js[h].num /\ h <= r.nFinishedHandle[SlotOf(h)]
    BY DEF EndedOf
  <2>1. SlotOf(h) \in Slots
    BY <1>1 DEF Table
  <2>2. IF p.nStartedHandle[SlotOf(h)] = h
        THEN /\ js[h].num = p.nNumJobs[SlotOf(h)]
             /\ js[h].ended = p.num_finished_jobs[SlotOf(h)]
                                + Cardinality(Returned(st, SlotOf(h)))
        ELSE js[h].ended = js[h].num /\ h <= p.nFinishedHandle[SlotOf(h)]
    BY <1>1 DEF EndedOf
  <2>3. h <= p.nFinishedHandle[SlotOf(h)] => h <= r.nFinishedHandle[SlotOf(h)]
    BY <1>10 DEF IsDone
  <2> QED
    BY <1>10, <1>12, <2>1, <2>2, <2>3
<1>15. AllPinned(r, a, DOMAIN js)
  <2>1. Pinned(r, DOMAIN js, g)
    <3>1. Pinned(p, DOMAIN js, f)
      BY <1>1, <1>7 DEF AllPinned
    <3> QED
      BY <1>4, <1>5, <3>1 DEF Pinned
  <2>2. \A x \in Positions(st) : Pinned(r, DOMAIN js, On(st, x))
    BY <1>1, <1>10 DEF AllPinned
  <2> QED
    BY <1>7, <2>1, <2>2 DEF AllPinned
<1>16. Inv(r, a, js)
  BY <1>7, <1>10, <1>13, <1>14, <1>15 DEF Inv
<1> QED
  BY <1>16 DEF r, a, g, f

-----------------------------------------------------------------------------
(* User code that ends *)

\* A frame of user code that gets a handle, opens a group or closes one.
LEMMA FrameUser ==
  ASSUME NEW f \in Frames, f.at = "user", NEW G \in Seq(Nat), NEW M \in SUBSET Nat
  PROVE  /\ [f EXCEPT !.groups = G] \in Frames
         /\ [f EXCEPT !.groups = G].at = "user" /\ [f EXCEPT !.groups = G].groups = G
         /\ [f EXCEPT !.groups = G].job = f.job /\ [f EXCEPT !.groups = G].sub = f.sub
         /\ [f EXCEPT !.groups = G].mine = f.mine
         /\ [f EXCEPT !.mine = M] \in Frames
         /\ [f EXCEPT !.mine = M].at = "user" /\ [f EXCEPT !.mine = M].mine = M
         /\ [f EXCEPT !.mine = M].job = f.job /\ [f EXCEPT !.mine = M].sub = f.sub
         /\ [f EXCEPT !.mine = M].groups = f.groups
<1>1. f \in [at : {"user"}, job : Nat, sub : Nat, groups : Seq(Nat), mine : SUBSET Nat]
  BY DEF Frames, FrameOf
<1>2. [at : {"user"}, job : Nat, sub : Nat, groups : Seq(Nat), mine : SUBSET Nat] \subseteq Frames
  BY DEF Frames, FrameOf
<1>3. /\ [f EXCEPT !.groups = G] \in [at : {"user"}, job : Nat, sub : Nat, groups : Seq(Nat),
                                      mine : SUBSET Nat]
      /\ [f EXCEPT !.groups = G].at = "user" /\ [f EXCEPT !.groups = G].groups = G
      /\ [f EXCEPT !.groups = G].job = f.job /\ [f EXCEPT !.groups = G].sub = f.sub
      /\ [f EXCEPT !.groups = G].mine = f.mine
  BY <1>1
<1>4. /\ [f EXCEPT !.mine = M] \in [at : {"user"}, job : Nat, sub : Nat, groups : Seq(Nat),
                                    mine : SUBSET Nat]
      /\ [f EXCEPT !.mine = M].at = "user" /\ [f EXCEPT !.mine = M].mine = M
      /\ [f EXCEPT !.mine = M].job = f.job /\ [f EXCEPT !.mine = M].sub = f.sub
      /\ [f EXCEPT !.mine = M].groups = f.groups
  BY <1>1
<1> QED
  BY <1>2, <1>3, <1>4

\* The same, a field at a time.
WithGroups(f, G) == [f EXCEPT !.groups = G]
WithMine(f, M) == [f EXCEPT !.mine = M]

\* User code with other groups.
LEMMA FrameGroups ==
  ASSUME NEW f \in Frames, f.at = "user", NEW G \in Seq(Nat), NEW v, v = WithGroups(f, G)
  PROVE  /\ v \in Frames /\ v.at = "user" /\ v.groups = G
         /\ v.job = f.job /\ v.sub = f.sub /\ v.mine = f.mine
<1>1. {} \in SUBSET Nat
  OBVIOUS
<1> QED
  BY <1>1, FrameUser DEF WithGroups

\* User code with other handles.
LEMMA FrameMine ==
  ASSUME NEW f \in Frames, f.at = "user", NEW M, \A x \in M : x \in Nat,
         NEW v, v = WithMine(f, M)
  PROVE  /\ v \in Frames /\ v.at = "user" /\ v.mine = M
         /\ v.job = f.job /\ v.sub = f.sub /\ v.groups = f.groups
<1>1. <<>> \in Seq(Nat) /\ M \in SUBSET Nat
  OBVIOUS
<1> QED
  BY <1>1, FrameUser DEF WithMine

\* One more element.
LEMMA OneMore ==
  ASSUME NEW S, IsFiniteSet(S), NEW z, z \notin S, NEW T, T = S \cup {z}
  PROVE  IsFiniteSet(T) /\ Cardinality(T) = Cardinality(S) + 1
BY FS_AddElement

\* Table j is js but for one more ended sub-job of h.
MoreEnded(js, j, h) ==
  /\ DOMAIN j = DOMAIN js
  /\ \A x \in DOMAIN js : /\ j[x].num = js[x].num /\ j[x].under = js[x].under
                          /\ j[x].ended = js[x].ended + (IF x = h THEN 1 ELSE 0)

\* The table with one more ended sub-job.
LEMMA MoreEndedKeeps ==
  ASSUME NEW p, NEW js, Table(p, js), NEW h \in DOMAIN js,
         NEW j, j = [js EXCEPT ![h].ended = @ + 1]
  PROVE  /\ MoreEnded(js, j, h) /\ Table(p, j)
         /\ UnderOf(p, js) => UnderOf(p, j)
<1> DEFINE Row == [num : SubCounts \cup {1}, ended : Nat, under : DOMAIN js \cup {0}]
<1>1. \A x \in DOMAIN js : js[x] \in Row
  BY DEF Table
<1>2. DOMAIN j = DOMAIN js
  OBVIOUS
<1>3. \A x \in DOMAIN js : j[x] = IF x = h THEN [js[h] EXCEPT !.ended = @ + 1] ELSE js[x]
  OBVIOUS
<1>4. ASSUME NEW e \in Row
      PROVE  /\ [e EXCEPT !.ended = @ + 1] \in Row /\ [e EXCEPT !.ended = @ + 1].num = e.num
             /\ [e EXCEPT !.ended = @ + 1].under = e.under
             /\ [e EXCEPT !.ended = @ + 1].ended = e.ended + 1
             /\ e.ended \in Nat
  OBVIOUS
<1>5. ASSUME NEW x \in DOMAIN js
      PROVE  /\ j[x] \in Row /\ j[x].num = js[x].num /\ j[x].under = js[x].under
             /\ j[x].ended = js[x].ended + (IF x = h THEN 1 ELSE 0)
  BY <1>1, <1>3, <1>4
<1>6. MoreEnded(js, j, h)
  BY <1>2, <1>5 DEF MoreEnded
<1>7. Table(p, j)
  BY <1>2, <1>5 DEF Table
<1>8. UnderOf(p, js) => UnderOf(p, j)
  BY <1>2, <1>5 DEF UnderOf
<1> QED
  BY <1>6, <1>7, <1>8

\* Jq2GroupEnd.
LEMMA GroupEndInv ==
  ASSUME NEW p, NEW st, NEW js, Inv(p, st, js), NEW t \in Threads, Last(st[t]).at = "user",
         Last(st[t]).groups # <<>>, NEW h, h = Last(Last(st[t]).groups)
  PROVE  /\ Inv(IncrementFinished(p, SlotOf(h)),
                SetTop(st, t, [Last(st[t]) EXCEPT !.groups = Front(@)]),
                [js EXCEPT ![h].ended = @ + 1])
         /\ h \in DOMAIN js
<1> DEFINE f == Last(st[t])
           m == Len(f.groups)
           g == [f EXCEPT !.groups = Front(f.groups)]
           a == SetTop(st, t, g)
           z == <<t, Depth(st, t)>>
           w == SlotOf(h)
           r == IncrementFinished(p, w)
           j == [js EXCEPT ![h].ended = @ + 1]
<1>1. /\ PoolInv(p) /\ Shape(st) /\ Accounted(p, st) /\ AllPinned(p, st, DOMAIN js) /\ Apart(st)
      /\ Table(p, js) /\ EndedOf(p, st, js) /\ UnderOf(p, js)
  BY DEF Inv
<1>2. f \in Frames /\ z \in Positions(st) /\ On(st, z) = f
  BY TopFrame
<1>3. f.groups \in Seq(Nat) /\ f.mine \in SUBSET Nat
  BY <1>2, FrameFacts
<1>4. /\ m \in Nat /\ m >= 1 /\ h = f.groups[m] /\ Front(f.groups) \in Seq(Nat)
      /\ Len(Front(f.groups)) = m - 1
      /\ \A i \in 1 .. m - 1 : Front(f.groups)[i] = f.groups[i]
  <2>1. m \in Nat /\ m # 0
    BY <1>3, LenProperties, EmptySeq
  <2>2. m >= 1
    BY <2>1
  <2>3. f.groups[1] \in Nat
    BY <1>3, <2>2, ElementOfSeq
  <2> QED
    BY <1>3, <2>1, <2>2, <2>3, TopFacts
<1>5. /\ g \in Frames /\ g.at = "user" /\ g.groups = Front(f.groups)
      /\ g.job = f.job /\ g.sub = f.sub /\ g.mine = f.mine
  <2> DEFINE G == Front(f.groups)
  <2>1. G \in Seq(Nat) /\ g = WithGroups(f, G) /\ f.at = "user"
    BY <1>4 DEF WithGroups
  <2> HIDE DEF f, g, G
  <2>2. /\ g \in Frames /\ g.at = "user" /\ g.groups = G
        /\ g.job = f.job /\ g.sub = f.sub /\ g.mine = f.mine
    BY <1>2, <1>3, <2>1, FrameGroups
  <2> QED
    BY <2>2 DEF G
<1>6. Idle(g)
  BY <1>5 DEF Idle, IdleKinds
<1> HIDE DEF g
<1>7. Reframes(st, a, z, f, g)
  BY <1>5, <1>6, ReframeFacts
<1> HIDE DEF a, z
<1>8. /\ Shape(a) /\ Apart(a) /\ Positions(a) = Positions(st) /\ On(a, z) = g
      /\ \A x \in Positions(st) \ {z} : On(a, x) = On(st, x)
  BY <1>7 DEF Reframes
<1> HIDE DEF f, m
<1>9. f.at = "user" /\ m = Len(f.groups)
  BY DEF f, m
<1>10. /\ h \in DOMAIN js /\ h \in Nat /\ w \in Slots /\ p.nStartedHandle[w] = h
       /\ p.num_finished_jobs[w] < p.nNumStarted[w]
  <2>1. \E k \in 1 .. Len(On(st, z).groups) : h = On(st, z).groups[k]
    BY <1>2, <1>4, <1>9
  <2>2. Runs(On(st, z), h)
    BY <1>2, <1>9, <2>1 DEF Runs
  <2> QED
    BY <1>2, <2>2, InUse
<1> HIDE DEF w
<1>11. /\ PoolInv(r) /\ Table(r, js) /\ UnderOf(r, js)
       /\ \A J, y : Pinned(p, J, y) => Pinned(r, J, y)
       /\ \A x \in DOMAIN js : IsDone(p, x) => IsDone(r, x)
       /\ r.num_finished_jobs = [p.num_finished_jobs EXCEPT ![w] = @ + 1]
       /\ p.num_finished_jobs \in [Slots -> Nat]
       /\ r.nStartedHandle = p.nStartedHandle /\ r.nNumJobs = p.nNumJobs
       /\ r.nNumStarted = p.nNumStarted
  BY <1>10, FinishKeeps
<1> HIDE DEF r
<1>12. MoreEnded(js, j, h) /\ Table(r, j) /\ UnderOf(r, j)
  BY <1>10, <1>11, MoreEndedKeeps
<1> HIDE DEF j
<1>13. ASSUME NEW s \in Slots
       PROVE  /\ Work(a, s) = Work(st, s) /\ Returned(a, s) = Returned(st, s)
              /\ Open(a, s) = Open(st, s) \ {<<z, m>>}
              /\ <<z, m>> \in Open(st, s) <=> s = w
  <2>1. z \notin Work(a, s) /\ z \notin Work(st, s)
    BY <1>2, <1>5, <1>8, <1>9 DEF Work, WorkKinds
  <2>2. /\ Work(a, s) \ {z} = Work(st, s) \ {z}
        /\ Returned(a, s) \ {z} = Returned(st, s) \ {z}
        /\ Open(a, s) \ ({z} \X Nat) = Open(st, s) \ ({z} \X Nat)
    BY <1>7 DEF Reframes
  <2>3. z \notin Returned(a, s) /\ z \notin Returned(st, s)
    BY <2>1 DEF Returned
  <2>4. Work(a, s) = Work(st, s) /\ Returned(a, s) = Returned(st, s)
    <3>1. Work(a, s) = Work(st, s)
      BY <2>1, <2>2, SameOutside
    <3>2. Returned(a, s) = Returned(st, s)
      BY <2>2, <2>3, SameOutside
    <3> QED
      BY <3>1, <3>2
  <2>5. \A k \in Nat : <<z, k>> \in Open(st, s) <=> k \in 1 .. m /\ SlotOf(f.groups[k]) = s
    BY <1>2, <1>9 DEF Open
  <2>6. \A k \in Nat : <<z, k>> \in Open(a, s)
                         <=> k \in 1 .. m - 1 /\ SlotOf(g.groups[k]) = s
    BY <1>2, <1>4, <1>5, <1>8 DEF Open
  <2>7. \A k \in Nat : <<z, k>> \in Open(a, s) <=> <<z, k>> \in Open(st, s) /\ k # m
    BY <1>4, <1>5, <2>5, <2>6
  <2>8. <<z, m>> \in Open(st, s) <=> s = w
    BY <1>4, <2>5 DEF w
  <2>9. Open(a, s) \subseteq Positions(st) \X Nat /\ Open(st, s) \subseteq Positions(st) \X Nat
    BY <1>8 DEF Open
  <2>10. ASSUME NEW y \in Positions(st) \X Nat
         PROVE  y \in Open(a, s) <=> y \in Open(st, s) \ {<<z, m>>}
    <3>1. PICK x \in Positions(st), k \in Nat : y = <<x, k>>
      OBVIOUS
    <3>2. CASE x = z
      BY <2>7, <3>1, <3>2
    <3>3. CASE x # z
      <4>1. y \notin {z} \X Nat
        BY <3>1, <3>3
      <4>2. y \in Open(a, s) <=> y \in Open(st, s)
        BY <2>2, <4>1
      <4> QED
        BY <3>1, <3>3, <4>2
    <3> QED
      BY <3>2, <3>3
  <2>11. Open(a, s) = Open(st, s) \ {<<z, m>>}
    BY <2>9, <2>10
  <2> QED
    BY <2>4, <2>8, <2>11
<1>14. Accounted(r, a)
  <2> SUFFICES ASSUME NEW s \in Slots
               PROVE  /\ IsFiniteSet(Work(a, s)) /\ IsFiniteSet(Open(a, s))
                      /\ Cardinality(Work(a, s)) + Cardinality(Open(a, s))
                           = r.nNumStarted[s] - r.num_finished_jobs[s]
    BY DEF Accounted
  <2>1. /\ IsFiniteSet(Work(st, s)) /\ IsFiniteSet(Open(st, s))
        /\ Cardinality(Work(st, s)) + Cardinality(Open(st, s))
             = p.nNumStarted[s] - p.num_finished_jobs[s]
        /\ Cardinality(Work(st, s)) \in Nat /\ Cardinality(Open(st, s)) \in Nat
        /\ p.num_finished_jobs[s] \in Nat /\ p.nNumStarted[s] \in Nat
    BY <1>1, HeldFacts, CountFacts DEF Accounted
  <2>2. Work(a, s) = Work(st, s) /\ Open(a, s) = Open(st, s) \ {<<z, m>>}
    BY <1>13
  <2>3. CASE s = w
    <3>1. <<z, m>> \in Open(st, s)
      BY <1>13, <2>3
    <3>2. /\ IsFiniteSet(Open(st, s) \ {<<z, m>>})
          /\ Cardinality(Open(st, s) \ {<<z, m>>}) = Cardinality(Open(st, s)) - 1
      BY <2>1, <3>1, FS_RemoveElement
    <3>3. r.num_finished_jobs[s] = p.num_finished_jobs[s] + 1 /\ r.nNumStarted[s] = p.nNumStarted[s]
      BY <1>11, <2>3
    <3>4. /\ Cardinality(Work(a, s)) = Cardinality(Work(st, s))
          /\ Cardinality(Open(a, s)) = Cardinality(Open(st, s)) - 1
          /\ IsFiniteSet(Work(a, s)) /\ IsFiniteSet(Open(a, s))
      BY <2>1, <2>2, <3>2
    <3> QED
      BY <2>1, <3>3, <3>4
  <2>4. CASE s # w
    <3>1. Open(a, s) = Open(st, s)
      BY <1>13, <2>2, <2>4
    <3>2. r.num_finished_jobs[s] = p.num_finished_jobs[s] /\ r.nNumStarted[s] = p.nNumStarted[s]
      BY <1>11, <2>4
    <3> QED
      BY <2>1, <2>2, <3>1, <3>2
  <2> QED
    BY <2>3, <2>4
<1>15. EndedOf(r, a, j)
  <2> SUFFICES ASSUME NEW x \in DOMAIN js
               PROVE  IF r.nStartedHandle[SlotOf(x)] = x
                      THEN /\ j[x].num = r.nNumJobs[SlotOf(x)]
                           /\ j[x].ended = r.num_finished_jobs[SlotOf(x)]
                                             + Cardinality(Returned(a, SlotOf(x)))
                      ELSE j[x].ended = j[x].num /\ x <= r.nFinishedHandle[SlotOf(x)]
    BY <1>12 DEF EndedOf, MoreEnded
  <2>1. SlotOf(x) \in Slots /\ js[x].ended \in Nat
    BY <1>1 DEF Table
  <2>2. IF p.nStartedHandle[SlotOf(x)] = x
        THEN /\ js[x].num = p.nNumJobs[SlotOf(x)]
             /\ js[x].ended = p.num_finished_jobs[SlotOf(x)]
                                + Cardinality(Returned(st, SlotOf(x)))
        ELSE js[x].ended = js[x].num /\ x <= p.nFinishedHandle[SlotOf(x)]
    BY <1>1 DEF EndedOf
  <2>3. x <= p.nFinishedHandle[SlotOf(x)] => x <= r.nFinishedHandle[SlotOf(x)]
    BY <1>11 DEF IsDone
  <2>4. /\ j[x].num = js[x].num
        /\ j[x].ended = js[x].ended + (IF x = h THEN 1 ELSE 0)
    BY <1>12 DEF MoreEnded
  <2>5. /\ Cardinality(Returned(st, SlotOf(x))) \in Nat /\ Returned(a, SlotOf(x)) = Returned(st, SlotOf(x))
        /\ p.num_finished_jobs[SlotOf(x)] \in Nat
    BY <1>1, <1>13, <2>1, HeldFacts, CountFacts
  <2>6. CASE x = h
    <3>1. SlotOf(x) = w /\ p.nStartedHandle[SlotOf(x)] = x
      BY <1>10, <2>6 DEF w
    <3>2. r.num_finished_jobs[SlotOf(x)] = p.num_finished_jobs[SlotOf(x)] + 1
      BY <1>10, <1>11, <3>1
    <3> QED
      BY <1>11, <2>2, <2>4, <2>5, <2>6, <3>1, <3>2
  <2>7. CASE x # h
    <3>1. j[x].ended = js[x].ended
      BY <2>1, <2>4, <2>7
    <3>2. CASE p.nStartedHandle[SlotOf(x)] = x
      <4>1. SlotOf(x) # w
        BY <1>10, <2>7, <3>2
      <4>2. r.num_finished_jobs[SlotOf(x)] = p.num_finished_jobs[SlotOf(x)]
        BY <1>11, <2>1, <4>1
      <4> QED
        BY <1>11, <2>2, <2>4, <2>5, <3>1, <3>2, <4>2
    <3>3. CASE p.nStartedHandle[SlotOf(x)] # x
      BY <1>11, <2>2, <2>3, <2>4, <3>1, <3>3
    <3> QED
      BY <3>2, <3>3
  <2> QED
    BY <2>6, <2>7
<1>16. AllPinned(r, a, DOMAIN js)
  <2>1. Pinned(r, DOMAIN js, f)
    BY <1>1, <1>2, <1>11 DEF AllPinned
  <2>2. Pinned(r, DOMAIN js, g)
    <3>1. "user" \notin WaitFrames
      BY DEF WaitFrames
    <3>2. \A k \in 1 .. m - 1 : k \in 1 .. m /\ g.groups[k] = f.groups[k]
      BY <1>4, <1>5
    <3>3. Len(g.groups) = m - 1
      BY <1>4, <1>5
    <3> QED
      BY <1>5, <1>9, <2>1, <3>1, <3>2, <3>3 DEF Pinned
  <2>3. \A x \in Positions(st) : Pinned(r, DOMAIN js, On(st, x))
    BY <1>1, <1>11 DEF AllPinned
  <2> QED
    BY <1>8, <2>2, <2>3 DEF AllPinned
<1>17. Inv(r, a, j)
  <2>1. DOMAIN j = DOMAIN js
    BY <1>12 DEF MoreEnded
  <2> QED
    BY <1>8, <1>11, <1>12, <1>14, <1>15, <1>16, <2>1 DEF Inv
<1> QED
  BY <1>10, <1>17 DEF r, a, g, f, j, w

\* A job function returns.
LEMMA BodyReturnInv ==
  ASSUME NEW p, NEW st, NEW js, Inv(p, st, js), NEW t \in Threads, Last(st[t]).at = "user",
         NEW h, h = Last(st[t]).job, h # 0, Last(st[t]).groups = <<>>
  PROVE  /\ Inv(p, Pop(st, t), [js EXCEPT ![h].ended = @ + 1])
         /\ h \in DOMAIN js
         /\ Last(Pop(st, t)[t]).at \in WorkKinds /\ Last(Pop(st, t)[t]).work = SlotOf(h)
<1> DEFINE r == Pop(st, t)
           n == Depth(st, t)
           z == <<t, n>>
           y == <<t, n - 1>>
           f == Last(st[t])
           w == SlotOf(h)
           j == [js EXCEPT ![h].ended = @ + 1]
<1>1. /\ PoolInv(p) /\ Shape(st) /\ Accounted(p, st) /\ AllPinned(p, st, DOMAIN js) /\ Apart(st)
      /\ Table(p, js) /\ EndedOf(p, st, js) /\ UnderOf(p, js)
  BY DEF Inv
<1>2. /\ st \in Stacks(Frames) /\ n \in Nat /\ n > 0 /\ f = st[t][n]
      /\ Level(st, t, n) /\ On(st, z) = f /\ f \in Frames /\ z \in Positions(st)
  BY TopFrame
<1>3. f.at = "user" /\ f.job = h /\ f.groups = <<>>
  OBVIOUS
<1> HIDE DEF f
<1>4. n > 1 /\ st[t][n - 1].at \in WorkKinds /\ st[t][n - 1].work = w
  BY <1>2, <1>3 DEF Level, BaseKinds
<1>5. h \in DOMAIN js /\ h \in Nat /\ w \in Slots /\ p.nStartedHandle[w] = h
  <2>1. Runs(On(st, z), h)
    BY <1>2, <1>3 DEF Runs
  <2> QED
    BY <1>2, <2>1, InUse
<1>6. r \in Stacks(Frames) /\ Popped(st, r, t)
  BY <1>2, <1>4, StackFacts
<1> HIDE DEF r, w
<1>7. /\ Above(st, r, t, n - 1) /\ Positions(st) = Below(st, t, n - 1) \cup {z}
      /\ Positions(r) = Below(st, t, n - 1)
      /\ Depth(r, t) = n - 1
      /\ \A u \in Threads : u # t => Depth(r, u) = Depth(st, u)
  BY <1>2, <1>6, PopAbove
<1>8. \A x \in Positions(r) :
         /\ x \in Positions(st) /\ On(r, x) = On(st, x)
         /\ Level(r, x[1], x[2]) <=> Level(st, x[1], x[2])
         /\ \A s : x \in Work(r, s) <=> x \in Work(st, s)
         /\ \A k, s : <<x, k>> \in Open(r, s) <=> <<x, k>> \in Open(st, s)
  <2>1. n - 1 \in Nat
    BY <1>2
  <2> QED
    BY <1>2, <1>7, <2>1, AboveKeeps
<1>9. Positions(st) = Positions(r) \cup {z}
  BY <1>7
<1>10. Shape(r)
  <2>1. ASSUME NEW x \in Positions(r) PROVE Level(r, x[1], x[2]) /\ Idle(On(r, x))
    BY <1>1, <1>8 DEF Shape
  <2> QED
    BY <1>6, <2>1 DEF Shape
<1>11. Apart(r)
  BY <1>1, <1>8 DEF Apart
<1>12. AllPinned(p, r, DOMAIN js)
  BY <1>1, <1>8 DEF AllPinned
<1>13. MoreEnded(js, j, h) /\ Table(p, j) /\ UnderOf(p, j)
  BY <1>1, <1>5, MoreEndedKeeps
<1> HIDE DEF j
<1>14. y \in Positions(r) /\ On(r, y) = st[t][n - 1] /\ y[1] = t /\ y[2] = n - 1
  <2>1. y \in Positions(r)
    BY <1>2, <1>4, <1>7 DEF Positions
  <2> QED
    BY <1>8, <2>1 DEF On
<1>15. ASSUME NEW s \in Slots
       PROVE  /\ Work(r, s) = Work(st, s) /\ Open(r, s) = Open(st, s)
              /\ Returned(r, s) = Returned(st, s) \cup (IF s = w THEN {y} ELSE {})
              /\ y \notin Returned(st, s)
  <2>1. z \notin Work(st, s) /\ \A k : <<z, k>> \notin Open(st, s)
    BY <1>2, <1>3 DEF Work, Open, WorkKinds
  <2>2. Work(r, s) \subseteq Positions(r) /\ Work(st, s) \subseteq Positions(st)
    BY DEF Work
  <2>3. Work(r, s) = Work(st, s)
    <3>1. \A x \in Positions(r) : x \in Work(r, s) <=> x \in Work(st, s)
      BY <1>8
    <3> HIDE DEF z
    <3> QED
      BY <1>9, <2>1, <2>2, <3>1
  <2>4. Open(r, s) \subseteq Positions(r) \X Nat /\ Open(st, s) \subseteq Positions(st) \X Nat
    BY DEF Open
  <2>5. Open(r, s) = Open(st, s)
    <3>1. \A x \in Open(r, s) : x = <<x[1], x[2]>> /\ x[1] \in Positions(r)
      BY <2>4
    <3>2. \A x \in Open(st, s) : x = <<x[1], x[2]>> /\ x[1] \in Positions(st)
      BY <2>4
    <3>3. \A x \in Open(r, s) : x \in Open(st, s)
      BY <1>8, <3>1
    <3>4. \A x \in Open(st, s) : x \in Open(r, s)
      BY <1>8, <1>9, <2>1, <3>2
    <3> QED
      BY <3>3, <3>4
  <2>6. y \in Work(r, s) <=> s = w
    BY <1>4, <1>14 DEF Work
  <2>7. ASSUME NEW x \in Work(r, s)
        PROVE  x[2] = Depth(r, x[1]) <=> x[2] = Depth(st, x[1]) \/ x = y
    <3>1. /\ x[1] \in Threads /\ x[2] \in Nat /\ x[2] <= Depth(r, x[1]) /\ x = <<x[1], x[2]>>
      BY DEF Work, Positions
    <3>2. CASE x[1] # t
      BY <1>7, <3>1, <3>2
    <3>3. CASE x[1] = t
      BY <1>2, <1>7, <3>1, <3>3
    <3> QED
      BY <3>2, <3>3
  <2>8. \A x : x \in Returned(r, s) <=> x \in Returned(st, s) \/ (x = y /\ s = w)
    BY <2>3, <2>6, <2>7 DEF Returned
  <2>9. Returned(r, s) = Returned(st, s) \cup (IF s = w THEN {y} ELSE {})
    BY <2>8
  <2>10. y \notin Returned(st, s)
    BY <1>2, <1>14 DEF Returned
  <2> QED
    BY <2>3, <2>5, <2>9, <2>10
<1> HIDE DEF y, z
<1>16. Accounted(p, r)
  BY <1>1, <1>15 DEF Accounted
<1>17. EndedOf(p, r, j)
  <2> SUFFICES ASSUME NEW x \in DOMAIN js
               PROVE  IF p.nStartedHandle[SlotOf(x)] = x
                      THEN /\ j[x].num = p.nNumJobs[SlotOf(x)]
                           /\ j[x].ended = p.num_finished_jobs[SlotOf(x)]
                                             + Cardinality(Returned(r, SlotOf(x)))
                      ELSE j[x].ended = j[x].num /\ x <= p.nFinishedHandle[SlotOf(x)]
    BY <1>13 DEF EndedOf, MoreEnded
  <2>1. SlotOf(x) \in Slots /\ js[x].ended \in Nat
    BY <1>1 DEF Table
  <2>2. IF p.nStartedHandle[SlotOf(x)] = x
        THEN /\ js[x].num = p.nNumJobs[SlotOf(x)]
             /\ js[x].ended = p.num_finished_jobs[SlotOf(x)]
                                + Cardinality(Returned(st, SlotOf(x)))
        ELSE js[x].ended = js[x].num /\ x <= p.nFinishedHandle[SlotOf(x)]
    BY <1>1 DEF EndedOf
  <2>3. /\ j[x].num = js[x].num
        /\ j[x].ended = js[x].ended + (IF x = h THEN 1 ELSE 0)
    BY <1>13 DEF MoreEnded
  <2>4. /\ IsFiniteSet(Returned(st, SlotOf(x))) /\ Cardinality(Returned(st, SlotOf(x))) \in Nat
        /\ p.num_finished_jobs[SlotOf(x)] \in Nat
    BY <1>1, <2>1, HeldFacts, CountFacts
  <2>5. CASE x = h
    <3>1. SlotOf(x) = w /\ p.nStartedHandle[SlotOf(x)] = x
      BY <1>5, <2>5 DEF w
    <3>2. Returned(r, SlotOf(x)) = Returned(st, SlotOf(x)) \cup {y} /\ y \notin Returned(st, SlotOf(x))
      BY <1>15, <2>1, <3>1
    <3>3. Cardinality(Returned(r, SlotOf(x))) = Cardinality(Returned(st, SlotOf(x))) + 1
      BY <2>4, <3>2, FS_AddElement
    <3> QED
      BY <2>2, <2>3, <2>4, <2>5, <3>1, <3>3
  <2>6. CASE x # h
    <3>1. j[x].ended = js[x].ended
      BY <2>1, <2>3, <2>6
    <3>2. CASE p.nStartedHandle[SlotOf(x)] = x
      <4>1. SlotOf(x) # w
        BY <1>5, <2>6, <3>2
      <4>2. Returned(r, SlotOf(x)) = Returned(st, SlotOf(x))
        BY <1>15, <2>1, <4>1
      <4> QED
        BY <2>2, <2>3, <3>1, <3>2, <4>2
    <3>3. CASE p.nStartedHandle[SlotOf(x)] # x
      BY <2>2, <2>3, <3>1, <3>3
    <3> QED
      BY <3>2, <3>3
  <2> QED
    BY <2>5, <2>6
<1>18. Inv(p, r, j)
  <2>1. DOMAIN j = DOMAIN js
    BY <1>13 DEF MoreEnded
  <2> QED
    BY <1>1, <1>10, <1>11, <1>12, <1>13, <1>16, <1>17, <2>1 DEF Inv
<1>19. Last(r[t]) = st[t][n - 1]
  <2>1. Last(r[t]) = r[t][n - 1]
    BY <1>7, <1>18, TopFrame
  <2> QED
    BY <1>14, <2>1 DEF On
<1> QED
  BY <1>4, <1>5, <1>18, <1>19 DEF r, j, w

-----------------------------------------------------------------------------
(* Jq2IncrementStarted and Jq2ExecuteJob *)

\* The sub-index of a job function.
LEMMA FrameSub ==
  ASSUME NEW st, Shape(st), NEW x \in Positions(st), On(st, x).at = "user"
  PROVE  On(st, x).sub \in Nat /\ On(st, x) \in Frames
<1>1. /\ x[1] \in Threads /\ x[2] \in Nat /\ 1 <= x[2] /\ x[2] <= Depth(st, x[1])
      /\ st[x[1]] \in Seq(Frames) /\ Depth(st, x[1]) = Len(st[x[1]])
      /\ Depth(st, x[1]) \in Nat
  BY DEF Shape, Stacks, Positions, Depth
<1>2. x[2] \in 1 .. Len(st[x[1]])
  BY <1>1
<1>3. On(st, x) \in Frames
  BY <1>1, <1>2, ElementOfSeq DEF On
<1> QED
  BY <1>3, FrameFacts

\* A thread takes a sub-job and runs it.
LEMMA StartInv ==
  ASSUME NEW p, NEW st, NEW js, Inv(p, st, js), NEW t \in Threads,
         Last(st[t]).at \in WorkKinds, Last(st[t]).work = 0, NEW s \in Slots, Startable(p, s)
  PROVE  Inv(IncrementStarted(p, s),
             Push(SetTop(st, t, [Last(st[t]) EXCEPT !.work = s]), t, BodyOf(p, s)), js)
<1> DEFINE f == Last(st[t])
           g == [f EXCEPT !.work = s]
           n == Depth(st, t)
           z == <<t, n>>
           y == <<t, n + 1>>
           a == SetTop(st, t, g)
           b == BodyOf(p, s)
           c == Push(a, t, b)
           r == IncrementStarted(p, s)
           h == p.nStartedHandle[s]
<1>1. /\ PoolInv(p) /\ Shape(st) /\ Accounted(p, st) /\ AllPinned(p, st, DOMAIN js) /\ Apart(st)
      /\ Table(p, js) /\ EndedOf(p, st, js) /\ UnderOf(p, js)
  BY DEF Inv
<1>2. f \in Frames /\ n \in Nat /\ n > 0 /\ z \in Positions(st) /\ On(st, z) = f
  BY TopFrame
<1>3. /\ g \in Frames /\ g.at = f.at /\ g.work = s /\ (f.at \in WaitFrames => g.for = f.for)
  BY <1>2, FrameWork
<1>4. g.at # "user" /\ Idle(g) /\ f.at \in WorkKinds /\ f.work = 0
  BY <1>3 DEF WorkKinds, Idle, IdleKinds
<1> HIDE DEF g
<1>5. Reframes(st, a, z, f, g)
  BY <1>3, <1>4, ReframeFacts
<1> HIDE DEF f
<1>6. /\ Shape(a) /\ Apart(a) /\ Positions(a) = Positions(st) /\ On(a, z) = g
      /\ \A x \in Positions(st) \ {z} : On(a, x) = On(st, x)
      /\ z[2] = Depth(a, z[1])
  BY <1>5 DEF Reframes
<1>7. Depth(a, t) = n /\ a \in Stacks(Frames)
  BY <1>6 DEF Shape
<1> HIDE DEF a
<1>8. /\ PoolInv(r)
      /\ r.nNumStarted = [p.nNumStarted EXCEPT ![s] = @ + 1]
      /\ r.nStartedHandle = p.nStartedHandle /\ r.nFinishedHandle = p.nFinishedHandle
      /\ r.nNumJobs = p.nNumJobs /\ r.num_finished_jobs = p.num_finished_jobs
      /\ r.nParent = p.nParent /\ r.nNextHandle = p.nNextHandle
  <2>1. r = IncrementStarted(p, s)
    OBVIOUS
  <2> HIDE DEF r
  <2>2. PoolInv(r) /\ Starts(p, r, s)
    BY <1>1, <2>1, StartedInv
  <2> QED
    BY <2>2 DEF Starts
<1> HIDE DEF r
<1>9. /\ h \in Nat /\ h # 0 /\ SlotOf(h) = s /\ h \in DOMAIN js
  <2>1. PendingJobs(p, s)
    BY <1>1, BusyIsPending
  <2>2. h \in Nat /\ p.nFinishedHandle[s] \in Nat /\ p.nFinishedHandle[s] <= h
    BY <1>1, CountFacts
  <2>3. h # 0
    BY <2>1, <2>2 DEF PendingJobs
  <2>4. SlotOf(h) = s
    BY <1>1, <2>3, CountFacts
  <2> QED
    BY <1>1, <2>2, <2>3, <2>4 DEF Table
<1> HIDE DEF h
<1>10. p.nNumStarted[s] \in Nat /\ p.nNumStarted \in [Slots -> Nat]
  BY <1>1, CountFacts, PoolTypes DEF PoolInv
<1>11. /\ b \in Frames /\ b.at = "user" /\ b.job = h /\ b.sub = p.nNumStarted[s]
       /\ b.groups = <<>> /\ b.mine = {}
  <2>1. b = [at |-> "user", job |-> h, sub |-> p.nNumStarted[s], groups |-> <<>>, mine |-> {}]
    BY DEF BodyOf, UserFrame, h
  <2>2. <<>> \in Seq(Nat)
    BY EmptySeq
  <2>3. b \in [at : {"user"}, job : Nat, sub : Nat, groups : Seq(Nat), mine : SUBSET Nat]
    BY <1>9, <1>10, <2>1, <2>2
  <2>4. b \in Frames
    BY <2>3 DEF Frames, FrameOf
  <2> QED
    BY <2>1, <2>4
<1> HIDE DEF b
<1>12. c \in Stacks(Frames) /\ Pushed(a, c, t, b)
  BY <1>7, <1>11, StackFacts
<1> HIDE DEF c
<1>13. /\ Above(a, c, t, n) /\ Positions(a) = Below(a, t, n)
       /\ Positions(c) = Below(a, t, n) \cup {y} /\ On(c, y) = b
       /\ Depth(c, t) = n + 1
       /\ \A u \in Threads : u # t => Depth(c, u) = Depth(a, u)
  <2>1. Depth(a, t) = n
    BY <1>7
  <2> HIDE DEF n
  <2> QED
    BY <1>7, <1>12, <2>1, PushAbove
<1>14. \A x \in Positions(a) :
         /\ x \in Positions(c) /\ On(c, x) = On(a, x)
         /\ Level(c, x[1], x[2]) <=> Level(a, x[1], x[2])
         /\ \A v : x \in Work(c, v) <=> x \in Work(a, v)
         /\ \A k, v : <<x, k>> \in Open(c, v) <=> <<x, k>> \in Open(a, v)
  BY <1>2, <1>7, <1>13, AboveKeeps
<1>15. Positions(c) = Positions(st) \cup {y}
  BY <1>6, <1>13
<1>16. Shape(c)
  <2>1. ASSUME NEW x \in Positions(a) PROVE Level(c, x[1], x[2]) /\ Idle(On(c, x))
    BY <1>6, <1>14 DEF Shape
  <2>2. Level(c, t, n + 1)
    <3>1. c[t][n + 1] = b /\ c[t][n] = g
      <4>1. On(c, y) = c[t][n + 1] /\ On(c, z) = c[t][n]
        BY DEF On
      <4>2. On(c, z) = g
        BY <1>2, <1>6, <1>14
      <4> QED
        BY <1>13, <4>1, <4>2
    <3>2. n + 1 # 1 /\ (n + 1) - 1 = n
      BY <1>2
    <3> HIDE DEF n
    <3> QED
      BY <1>3, <1>4, <1>9, <1>11, <3>1, <3>2 DEF Level
  <2>3. Idle(b)
    BY <1>11 DEF Idle, IdleKinds
  <2>4. Level(c, y[1], y[2]) /\ Idle(On(c, y))
    BY <1>13, <2>2, <2>3
  <2> HIDE DEF y
  <2> QED
    BY <1>6, <1>12, <1>15, <2>1, <2>4 DEF Shape
<1>17. ASSUME NEW v \in Slots
       PROVE  /\ Work(c, v) = Work(st, v) \cup (IF v = s THEN {z} ELSE {})
              /\ z \notin Work(st, v)
              /\ Open(c, v) = Open(st, v) /\ Returned(c, v) = Returned(st, v)
  <2>1. v # 0
    BY DEF Slots
  <2>2. z \notin Work(st, v) /\ \A k : <<z, k>> \notin Open(st, v)
    BY <1>2, <1>3, <1>4, <2>1 DEF Work, Open
  <2>3. (z \in Work(a, v) <=> v = s) /\ \A k : <<z, k>> \notin Open(a, v)
    BY <1>2, <1>3, <1>4, <1>6 DEF Work, Open
  <2>4. y \notin Work(c, v) /\ \A k : <<y, k>> \notin Open(c, v)
    <3>1. y \notin Work(c, v)
      BY <1>11, <1>13 DEF Work, WorkKinds
    <3>2. Len(On(c, y).groups) = 0
      BY <1>11, <1>13, EmptySeq
    <3>3. \A k : <<y, k>> \notin Open(c, v)
      BY <3>2 DEF Open
    <3> QED
      BY <3>1, <3>3
  <2>5. /\ Work(a, v) \ {z} = Work(st, v) \ {z}
        /\ Returned(a, v) \ {z} = Returned(st, v) \ {z}
        /\ Open(a, v) \ ({z} \X Nat) = Open(st, v) \ ({z} \X Nat)
    BY <1>5 DEF Reframes
  <2>6. Work(c, v) \subseteq Positions(c) /\ Work(a, v) \subseteq Positions(a)
    BY DEF Work
  <2>7. Work(c, v) = Work(a, v)
    <3>1. \A x \in Positions(a) : x \in Work(c, v) <=> x \in Work(a, v)
      BY <1>14
    <3> HIDE DEF y
    <3> QED
      BY <1>6, <1>15, <2>4, <2>6, <3>1
  <2>8. Work(a, v) = Work(st, v) \cup (IF v = s THEN {z} ELSE {})
    <3> HIDE DEF z
    <3>1. CASE v = s
      BY <2>2, <2>3, <2>5, <3>1
    <3>2. CASE v # s
      BY <2>2, <2>3, <2>5, <3>2
    <3> QED
      BY <3>1, <3>2
  <2>9. Open(a, v) = Open(st, v)
    <3>1. Open(a, v) \cap ({z} \X Nat) = {} /\ Open(st, v) \cap ({z} \X Nat) = {}
      BY <2>2, <2>3
    <3> QED
      BY <2>5, <3>1
  <2>10. Open(c, v) \subseteq Positions(c) \X Nat /\ Open(a, v) \subseteq Positions(a) \X Nat
    BY DEF Open
  <2>11. Open(c, v) = Open(a, v)
    <3>1. \A x \in Open(c, v) : x = <<x[1], x[2]>> /\ x[1] \in Positions(c)
      BY <2>10
    <3>2. \A x \in Open(a, v) : x = <<x[1], x[2]>> /\ x[1] \in Positions(a)
      BY <2>10
    <3>3. \A x \in Open(c, v) : x \in Open(a, v)
      BY <1>6, <1>14, <1>15, <2>4, <3>1
    <3>4. \A x \in Open(a, v) : x \in Open(c, v)
      BY <1>14, <3>2
    <3> QED
      BY <3>3, <3>4
  <2>12. z \notin Returned(c, v) /\ z \notin Returned(st, v)
    <3>1. z[1] = t /\ z[2] = n
      OBVIOUS
    <3>2. z \notin Returned(c, v)
      BY <1>2, <1>13, <3>1 DEF Returned
    <3>3. z \notin Returned(st, v)
      BY <2>2 DEF Returned
    <3> QED
      BY <3>2, <3>3
  <2>13. ASSUME NEW x \in Positions(st), x # z
         PROVE  x[2] = Depth(c, x[1]) <=> x[2] = Depth(a, x[1])
    <3>1. /\ x[1] \in Threads /\ x[2] \in Nat /\ x[2] <= Depth(a, x[1]) /\ x = <<x[1], x[2]>>
      BY <1>6 DEF Positions
    <3>2. CASE x[1] # t
      BY <1>13, <3>1, <3>2
    <3>3. CASE x[1] = t
      BY <1>2, <1>7, <1>13, <2>13, <3>1, <3>3
    <3> QED
      BY <3>2, <3>3
  <2>14. \A x : x \in Returned(c, v) \ {z} <=> x \in Returned(a, v) \ {z}
    BY <1>6, <2>6, <2>7, <2>13 DEF Returned
  <2>15. Returned(c, v) \ {z} = Returned(st, v) \ {z}
    <3>1. Returned(c, v) \ {z} = Returned(a, v) \ {z}
      BY <2>14
    <3> QED
      BY <2>5, <3>1
  <2>16. Returned(c, v) = Returned(st, v)
    BY <2>12, <2>15, SameOutside
  <2> QED
    BY <2>2, <2>7, <2>8, <2>9, <2>11, <2>16
<1>18. Accounted(r, c)
  <2> SUFFICES ASSUME NEW v \in Slots
               PROVE  /\ IsFiniteSet(Work(c, v)) /\ IsFiniteSet(Open(c, v))
                      /\ Cardinality(Work(c, v)) + Cardinality(Open(c, v))
                           = r.nNumStarted[v] - r.num_finished_jobs[v]
    BY DEF Accounted
  <2>1. /\ IsFiniteSet(Work(st, v)) /\ IsFiniteSet(Open(st, v))
        /\ Cardinality(Work(st, v)) + Cardinality(Open(st, v))
             = p.nNumStarted[v] - p.num_finished_jobs[v]
        /\ Cardinality(Work(st, v)) \in Nat /\ Cardinality(Open(st, v)) \in Nat
        /\ p.num_finished_jobs[v] \in Nat /\ p.nNumStarted[v] \in Nat
    BY <1>1, HeldFacts, CountFacts DEF Accounted
  <2>2. Open(c, v) = Open(st, v) /\ r.num_finished_jobs[v] = p.num_finished_jobs[v]
    BY <1>8, <1>17
  <2>3. CASE v = s
    <3>1. Work(c, v) = Work(st, v) \cup {z} /\ z \notin Work(st, v)
      BY <1>17, <2>3
    <3>2. IsFiniteSet(Work(c, v)) /\ Cardinality(Work(c, v)) = Cardinality(Work(st, v)) + 1
      BY <2>1, <3>1, OneMore, Zenon
    <3>3. r.nNumStarted[v] = p.nNumStarted[v] + 1
      BY <1>8, <1>10, <2>3
    <3> DEFINE held == Cardinality(Work(st, v))
               open == Cardinality(Open(st, v))
               begun == p.nNumStarted[v]
               over == p.num_finished_jobs[v]
    <3>4. held \in Nat /\ open \in Nat /\ begun \in Nat /\ over \in Nat /\ held + open = begun - over
      BY <2>1
    <3>5. /\ Cardinality(Work(c, v)) = held + 1 /\ Cardinality(Open(c, v)) = open
          /\ r.nNumStarted[v] = begun + 1 /\ r.num_finished_jobs[v] = over
      BY <2>2, <3>2, <3>3
    <3> HIDE DEF held, open, begun, over
    <3>6. (held + 1) + open = (begun + 1) - over
      BY <3>4
    <3>7. IsFiniteSet(Open(c, v))
      BY <2>1, <2>2
    <3> QED
      BY <3>2, <3>5, <3>6, <3>7, Zenon
  <2>4. CASE v # s
    <3>1. Work(c, v) = Work(st, v) /\ r.nNumStarted[v] = p.nNumStarted[v]
      BY <1>8, <1>10, <1>17, <2>4
    <3> QED
      BY <2>1, <2>2, <3>1
  <2> QED
    BY <2>3, <2>4
<1>19. EndedOf(r, c, js)
  <2> SUFFICES ASSUME NEW x \in DOMAIN js
               PROVE  IF r.nStartedHandle[SlotOf(x)] = x
                      THEN /\ js[x].num = r.nNumJobs[SlotOf(x)]
                           /\ js[x].ended = r.num_finished_jobs[SlotOf(x)]
                                              + Cardinality(Returned(c, SlotOf(x)))
                      ELSE js[x].ended = js[x].num /\ x <= r.nFinishedHandle[SlotOf(x)]
    BY DEF EndedOf
  <2>1. SlotOf(x) \in Slots
    BY <1>1 DEF Table
  <2>2. Returned(c, SlotOf(x)) = Returned(st, SlotOf(x))
    BY <1>17, <2>1
  <2> QED
    BY <1>1, <1>8, <2>2 DEF EndedOf
<1>20. AllPinned(r, c, DOMAIN js)
  <2>1. ASSUME NEW x \in Positions(st) PROVE Pinned(r, DOMAIN js, On(st, x))
    <3>1. Pinned(p, DOMAIN js, On(st, x))
      BY <1>1 DEF AllPinned
    <3>2. ASSUME On(st, x).at = "user", On(st, x).job # 0
          PROVE  On(st, x).sub < r.nNumStarted[SlotOf(On(st, x).job)]
      <4>1. Runs(On(st, x), On(st, x).job)
        BY <3>2 DEF Runs
      <4>2. SlotOf(On(st, x).job) \in Slots
        BY <4>1, InUse
      <4>3. On(st, x).sub < p.nNumStarted[SlotOf(On(st, x).job)]
        BY <3>1, <3>2 DEF Pinned
      <4>4. On(st, x).sub \in Nat
        BY <1>1, <3>2, FrameSub
      <4>5. r.nNumStarted[SlotOf(On(st, x).job)] \in Nat
            /\ r.nNumStarted[SlotOf(On(st, x).job)] >= p.nNumStarted[SlotOf(On(st, x).job)]
            /\ p.nNumStarted[SlotOf(On(st, x).job)] \in Nat
        BY <1>8, <1>10, <4>2
      <4> QED
        BY <4>3, <4>4, <4>5
    <3> QED
      BY <1>8, <3>1, <3>2 DEF Pinned, Owns
  <2>2. Pinned(r, DOMAIN js, g)
    <3>1. Pinned(r, DOMAIN js, f)
      BY <1>2, <2>1
    <3> QED
      BY <1>3, <1>4, <3>1 DEF Pinned
  <2>3. Pinned(r, DOMAIN js, b)
    <3>1. Owns(r, DOMAIN js, h)
      BY <1>8, <1>9 DEF Owns, h
    <3>2. b.sub < r.nNumStarted[SlotOf(h)]
      BY <1>8, <1>9, <1>10, <1>11
    <3>3. Len(b.groups) = 0
      BY <1>11, EmptySeq
    <3> QED
      BY <1>11, <3>1, <3>2, <3>3 DEF Pinned, WaitFrames
  <2>4. \A x \in Positions(st) : On(c, x) = IF x = z THEN g ELSE On(st, x)
    BY <1>6, <1>14
  <2> HIDE DEF y, z
  <2> QED
    BY <1>13, <1>15, <2>1, <2>2, <2>3, <2>4 DEF AllPinned
<1>21. Apart(c)
  <2>1. ASSUME NEW x \in Positions(st), On(c, x).at = "user", On(c, x).job = h
        PROVE  On(c, x).sub # b.sub
    <3>1. x # z /\ On(c, x) = On(st, x)
      BY <1>2, <1>4, <1>6, <1>14, <2>1
    <3>2. Pinned(p, DOMAIN js, On(st, x))
      BY <1>1 DEF AllPinned
    <3>3. On(st, x).sub < p.nNumStarted[s]
      BY <1>9, <2>1, <3>1, <3>2 DEF Pinned
    <3>4. On(st, x).sub \in Nat
      BY <1>1, <2>1, <3>1, FrameSub
    <3> QED
      BY <1>10, <1>11, <3>1, <3>3, <3>4
  <2>2. ASSUME NEW x \in Positions(st), NEW x2 \in Positions(st),
               On(c, x).at = "user", On(c, x2).at = "user", On(c, x).job # 0,
               On(c, x).job = On(c, x2).job, On(c, x).sub = On(c, x2).sub
        PROVE  x = x2
    BY <1>6, <1>14, <2>2 DEF Apart
  <2> HIDE DEF y
  <2> QED
    BY <1>11, <1>13, <1>15, <2>1, <2>2 DEF Apart
<1>22. Table(r, js) /\ UnderOf(r, js)
  BY <1>1, <1>8 DEF Table, UnderOf, IsDone
<1>23. Inv(r, c, js)
  BY <1>8, <1>16, <1>18, <1>19, <1>20, <1>21, <1>22 DEF Inv
<1> QED
  BY <1>23 DEF r, c, a, b, g, f

-----------------------------------------------------------------------------
(* Jq2Add and Jq2GroupBegin *)

\* Jq2Self() of a user frame: no handle, or one in use.
LEMMA SelfFacts ==
  ASSUME NEW p, NEW st, NEW js, Inv(p, st, js), NEW t \in Threads, Last(st[t]).at = "user",
         NEW self, self = SelfOf(Last(st[t]))
  PROVE  /\ self \in DOMAIN js \cup {0} /\ SlotOf(self) \in Slots \cup {0}
         /\ SlotOf(self) = 0 <=> self = 0
         /\ self # 0 => /\ PendingJobs(p, SlotOf(self)) /\ p.nStartedHandle[SlotOf(self)] = self
                        /\ p.num_finished_jobs[SlotOf(self)] < p.nNumStarted[SlotOf(self)]
<1> DEFINE f == Last(st[t])
           z == <<t, Depth(st, t)>>
<1>1. f \in Frames /\ z \in Positions(st) /\ On(st, z) = f
  BY TopFrame
<1> HIDE DEF z
<1>2. f.groups \in Seq(Nat)
  BY <1>1, FrameFacts
<1>3. ASSUME self # 0 PROVE Runs(f, self)
  <2>1. CASE f.groups = <<>>
    BY <1>3, <2>1 DEF SelfOf, Runs
  <2>2. CASE f.groups # <<>>
    <3>1. Len(f.groups) \in Nat \ {0}
      BY <1>2, <2>2, EmptySeq
    <3>2. self = f.groups[Len(f.groups)]
      BY <2>2 DEF SelfOf, Last
    <3> QED
      BY <3>1, <3>2 DEF Runs
  <2> QED
    BY <2>1, <2>2
<1> HIDE DEF f
<1>4. ASSUME self # 0
      PROVE  /\ self \in DOMAIN js /\ SlotOf(self) \in Slots
             /\ PendingJobs(p, SlotOf(self)) /\ p.nStartedHandle[SlotOf(self)] = self
             /\ p.num_finished_jobs[SlotOf(self)] < p.nNumStarted[SlotOf(self)]
  <2>1. Runs(On(st, z), self)
    BY <1>1, <1>3, <1>4
  <2> QED
    BY <1>1, <2>1, InUse
<1>5. SlotOf(0) = 0 /\ 0 \notin Slots
  BY MaxJobsAssumption DEF SlotOf, Slots
<1> QED
  BY <1>4, <1>5

\* Table j is js with a new job h of n sub-jobs, added under self.
Enters(js, j, h, n, self) ==
  /\ DOMAIN j = DOMAIN js \cup {h}
  /\ j[h] = [num |-> n, ended |-> 0, under |-> self]
  /\ \A x \in DOMAIN js : x # h => j[x] = js[x]

\* g is the user frame f with the new handle h, as that of a group if k = 1.
Receives(f, g, h, k) ==
  /\ g \in Frames /\ g.at = "user" /\ g.job = f.job /\ g.sub = f.sub
  /\ g.mine = f.mine \cup {h}
  /\ g.groups = IF k = 1 THEN Append(f.groups, h) ELSE f.groups

\* A new handle is issued to user code: that of a group, whose sub-job is
\* started, or of a job.
LEMMA IssueInv ==
  ASSUME NEW p, NEW st, NEW js, Inv(p, st, js), NEW t \in Threads, Last(st[t]).at = "user",
         NEW self, self = SelfOf(Last(st[t])),
         NEW h \in Nat, NEW s \in Slots, s = SlotOf(h), h >= p.nNextHandle, ~PendingJobs(p, s),
         NEW n \in SubCounts \cup {1}, NEW k \in {0, 1},
         NEW r, PoolInv(r), Issues(p, r, h, s, n, k, SlotOf(self)),
         NEW j, Enters(js, j, h, n, self),
         NEW g, Receives(Last(st[t]), g, h, k)
  PROVE  Inv(r, SetTop(st, t, g), j)
<1> DEFINE f == Last(st[t])
           m == Len(f.groups)
           a == SetTop(st, t, g)
           z == <<t, Depth(st, t)>>
           par == SlotOf(self)
<1>1. /\ PoolInv(p) /\ Shape(st) /\ Accounted(p, st) /\ AllPinned(p, st, DOMAIN js) /\ Apart(st)
      /\ Table(p, js) /\ EndedOf(p, st, js) /\ UnderOf(p, js)
  BY DEF Inv
<1>2. f \in Frames /\ z \in Positions(st) /\ On(st, z) = f /\ f.at = "user"
  BY TopFrame
<1>3. f.groups \in Seq(Nat) /\ f.mine \in SUBSET Nat /\ m \in Nat
  BY <1>2, FrameFacts, LenProperties
<1>4. /\ g \in Frames /\ g.at = "user" /\ g.job = f.job /\ g.sub = f.sub
      /\ g.mine = f.mine \cup {h}
      /\ g.groups = IF k = 1 THEN Append(f.groups, h) ELSE f.groups
  BY DEF Receives
<1>5. /\ Len(g.groups) = m + k
      /\ \A i \in 1 .. m : g.groups[i] = f.groups[i]
      /\ k = 1 => g.groups[m + 1] = h
  <2>1. /\ Len(Append(f.groups, h)) = m + 1 /\ Append(f.groups, h)[m + 1] = h
        /\ \A i \in 1 .. m : Append(f.groups, h)[i] = f.groups[i]
    BY <1>3, AppendFacts
  <2>2. CASE k = 1
    BY <1>4, <2>1, <2>2
  <2>3. CASE k = 0
    BY <1>3, <1>4, <2>3
  <2> QED
    BY <2>2, <2>3
<1>6. Idle(g)
  BY <1>4 DEF Idle, IdleKinds
<1>7. Reframes(st, a, z, f, g)
  BY <1>4, <1>6, ReframeFacts
<1> HIDE DEF a, z
<1>8. /\ Shape(a) /\ Apart(a) /\ Positions(a) = Positions(st) /\ On(a, z) = g
      /\ \A x \in Positions(st) \ {z} : On(a, x) = On(st, x)
  BY <1>7 DEF Reframes
<1>9. /\ self \in DOMAIN js \cup {0} /\ par \in Slots \cup {0} /\ (par = 0 <=> self = 0)
      /\ self # 0 => PendingJobs(p, par) /\ p.nStartedHandle[par] = self
  BY SelfFacts
<1> HIDE DEF f, m, par
<1>10. /\ p.nStartedHandle \in [Slots -> Nat] /\ p.nFinishedHandle \in [Slots -> Nat]
       /\ p.nNumJobs \in [Slots -> Nat] /\ p.nNumStarted \in [Slots -> Nat]
       /\ p.num_finished_jobs \in [Slots -> Nat] /\ p.nNextHandle \in Nat
       /\ p.nParent \in [Slots -> Slots \cup {0}]
  BY <1>1, PoolTypes DEF PoolInv
<1>11. /\ r.nStartedHandle = [p.nStartedHandle EXCEPT ![s] = h]
       /\ r.nFinishedHandle = p.nFinishedHandle
       /\ r.nNumJobs = [p.nNumJobs EXCEPT ![s] = n]
       /\ r.nNumStarted = [p.nNumStarted EXCEPT ![s] = k]
       /\ r.num_finished_jobs = [p.num_finished_jobs EXCEPT ![s] = 0]
       /\ r.nParent = [p.nParent EXCEPT ![s] = par]
       /\ r.nNextHandle = NextHandle(h)
  BY DEF Issues, par
<1>12. \A v \in Slots : v # s => /\ r.nStartedHandle[v] = p.nStartedHandle[v]
                                 /\ r.nNumJobs[v] = p.nNumJobs[v]
                                 /\ r.nNumStarted[v] = p.nNumStarted[v]
                                 /\ r.num_finished_jobs[v] = p.num_finished_jobs[v]
                                 /\ r.nParent[v] = p.nParent[v]
  BY <1>10, <1>11
<1>13. /\ r.nStartedHandle[s] = h /\ r.nNumJobs[s] = n /\ r.nNumStarted[s] = k
       /\ r.num_finished_jobs[s] = 0 /\ r.nParent[s] = par
  BY <1>10, <1>11
<1>14. NextHandle(h) \in Nat /\ NextHandle(h) > h
  BY NextHandleFacts
<1>15. /\ DOMAIN j = DOMAIN js \cup {h}
       /\ j[h] = [num |-> n, ended |-> 0, under |-> self]
       /\ \A x \in DOMAIN js : x # h => j[x] = js[x]
  BY DEF Enters
<1>16. ASSUME NEW x \in DOMAIN js
       PROVE  x \in Nat /\ SlotOf(x) \in Slots /\ x < p.nNextHandle /\ x # h /\ j[x] = js[x]
  BY <1>1, <1>10, <1>15 DEF Table
\* The slot was free: nothing of it was left.
<1>17. /\ p.nFinishedHandle[s] = p.nStartedHandle[s]
       /\ p.num_finished_jobs[s] = p.nNumJobs[s] /\ p.num_finished_jobs[s] = p.nNumStarted[s]
       /\ Work(st, s) = {} /\ Open(st, s) = {} /\ Returned(st, s) = {}
  <2>1. p.nFinishedHandle[s] = p.nStartedHandle[s]
    BY DEF PendingJobs
  <2>2. ~(p.num_finished_jobs[s] < p.nNumJobs[s])
    BY <1>1 DEF PoolInv, PendingIff
  <2>3. p.num_finished_jobs[s] = p.nNumJobs[s] /\ p.num_finished_jobs[s] = p.nNumStarted[s]
    BY <1>1, <2>2, CountFacts
  <2> QED
    BY <1>1, <2>1, <2>3, HeldFacts
<1>18. ASSUME NEW x \in Positions(st), NEW v, Runs(On(st, x), v)
       PROVE  SlotOf(v) \in Slots /\ SlotOf(v) # s
  <2>1. SlotOf(v) \in Slots /\ PendingJobs(p, SlotOf(v))
    BY <1>18, InUse
  <2> QED
    BY <2>1
<1>19. ASSUME NEW v \in Slots
       PROVE  /\ Work(a, v) = Work(st, v) /\ Returned(a, v) = Returned(st, v)
              /\ v # s \/ k = 0 => Open(a, v) = Open(st, v)
              /\ v = s /\ k = 1 => Open(a, v) = {<<z, m + 1>>}
  <2>1. /\ Work(a, v) \ {z} = Work(st, v) \ {z}
        /\ Returned(a, v) \ {z} = Returned(st, v) \ {z}
        /\ Open(a, v) \ ({z} \X Nat) = Open(st, v) \ ({z} \X Nat)
    BY <1>7 DEF Reframes
  <2>2. z \notin Work(a, v) /\ z \notin Work(st, v)
    BY <1>2, <1>4, <1>8 DEF Work, WorkKinds
  <2>3. z \notin Returned(a, v) /\ z \notin Returned(st, v)
    BY <2>2 DEF Returned
  <2>4. Work(a, v) = Work(st, v)
    BY <2>1, <2>2, SameOutside
  <2>5. Returned(a, v) = Returned(st, v)
    BY <2>1, <2>3, SameOutside
  <2>6. \A i \in Nat : <<z, i>> \in Open(st, v) <=> i \in 1 .. m /\ SlotOf(f.groups[i]) = v
    BY <1>2 DEF Open, m
  <2>7. \A i \in Nat : <<z, i>> \in Open(a, v) <=> i \in 1 .. m + k /\ SlotOf(g.groups[i]) = v
    BY <1>2, <1>4, <1>5, <1>8 DEF Open
  <2>8. \A i \in Nat : <<z, i>> \in Open(a, v)
                         <=> <<z, i>> \in Open(st, v) \/ (i = m + 1 /\ k = 1 /\ v = s)
    BY <1>3, <1>5, <2>6, <2>7
  <2>9. Open(a, v) \subseteq Positions(st) \X Nat /\ Open(st, v) \subseteq Positions(st) \X Nat
    BY <1>8 DEF Open
  <2>10. ASSUME NEW y \in Positions(st) \X Nat
         PROVE  y \in Open(a, v) <=> y \in Open(st, v) \/ (y = <<z, m + 1>> /\ k = 1 /\ v = s)
    <3>1. PICK x \in Positions(st), i \in Nat : y = <<x, i>>
      OBVIOUS
    <3>2. CASE x = z
      BY <2>8, <3>1, <3>2
    <3>3. CASE x # z
      <4>1. y \notin {z} \X Nat
        BY <3>1, <3>3
      <4>2. y \in Open(a, v) <=> y \in Open(st, v)
        BY <2>1, <4>1
      <4> QED
        BY <3>1, <3>3, <4>2
    <3> QED
      BY <3>2, <3>3
  <2>11. <<z, m + 1>> \in Positions(st) \X Nat
    BY <1>2, <1>3
  <2>12. ASSUME v # s \/ k = 0 PROVE Open(a, v) = Open(st, v)
    <3>1. \A y \in Positions(st) \X Nat : y \in Open(a, v) <=> y \in Open(st, v)
      BY <2>10, <2>12
    <3> QED
      BY <2>9, <3>1
  <2>13. v = s /\ k = 1 => Open(a, v) = {<<z, m + 1>>}
    BY <1>17, <2>9, <2>10, <2>11
  <2> QED
    BY <2>4, <2>5, <2>12, <2>13
<1>20. Accounted(r, a)
  <2> SUFFICES ASSUME NEW v \in Slots
               PROVE  /\ IsFiniteSet(Work(a, v)) /\ IsFiniteSet(Open(a, v))
                      /\ Cardinality(Work(a, v)) + Cardinality(Open(a, v))
                           = r.nNumStarted[v] - r.num_finished_jobs[v]
    BY DEF Accounted
  <2>1. CASE v # s
    BY <1>1, <1>12, <1>19, <2>1 DEF Accounted
  <2>2. CASE v = s
    <3>1. IsFiniteSet(Work(a, v)) /\ Cardinality(Work(a, v)) = 0
      BY <1>17, <1>19, <2>2, FS_EmptySet
    <3>2. IsFiniteSet(Open(a, v)) /\ Cardinality(Open(a, v)) = k
      <4>1. CASE k = 0
        BY <1>17, <1>19, <2>2, <4>1, FS_EmptySet
      <4>2. CASE k = 1
        BY <1>19, <2>2, <4>2, FS_Singleton
      <4> QED
        BY <4>1, <4>2
    <3> QED
      BY <1>13, <2>2, <3>1, <3>2
  <2> QED
    BY <2>1, <2>2
<1>21. Table(r, j)
  <2>1. j[h] \in [num : SubCounts \cup {1}, ended : Nat, under : DOMAIN j \cup {0}]
    BY <1>9, <1>15
  <2>2. ASSUME NEW x \in DOMAIN js
        PROVE  /\ x < r.nNextHandle
               /\ j[x] \in [num : SubCounts \cup {1}, ended : Nat, under : DOMAIN j \cup {0}]
    <3>1. js[x] \in [num : SubCounts \cup {1}, ended : Nat, under : DOMAIN js \cup {0}]
      BY <1>1 DEF Table
    <3>2. x < r.nNextHandle
      BY <1>10, <1>11, <1>14, <1>16
    <3> QED
      BY <1>15, <1>16, <3>1, <3>2
  <2>3. \A v \in Slots : /\ r.nStartedHandle[v] \in DOMAIN j \cup {0}
                         /\ r.nFinishedHandle[v] \in DOMAIN j \cup {0}
    BY <1>1, <1>11, <1>12, <1>13, <1>15 DEF Table
  <2>4. h < r.nNextHandle
    BY <1>11, <1>14
  <2> QED
    BY <1>15, <1>16, <2>1, <2>2, <2>3, <2>4 DEF Table
<1>22. ASSUME NEW x \in DOMAIN js, SlotOf(x) = s
       PROVE  js[x].ended = js[x].num /\ x <= p.nFinishedHandle[s]
  <2>1. IF p.nStartedHandle[s] = x
        THEN /\ js[x].num = p.nNumJobs[s]
             /\ js[x].ended = p.num_finished_jobs[s] + Cardinality(Returned(st, s))
        ELSE js[x].ended = js[x].num /\ x <= p.nFinishedHandle[s]
    BY <1>1, <1>22 DEF EndedOf
  <2>2. CASE p.nStartedHandle[s] = x
    <3>1. Cardinality(Returned(st, s)) = 0 /\ p.num_finished_jobs[s] \in Nat
      BY <1>10, <1>17, FS_EmptySet
    <3>2. x <= p.nFinishedHandle[s]
      BY <1>10, <1>17, <2>2
    <3> QED
      BY <1>17, <2>1, <2>2, <3>1, <3>2
  <2>3. CASE p.nStartedHandle[s] # x
    BY <2>1, <2>3
  <2> QED
    BY <2>2, <2>3
<1>23. EndedOf(r, a, j)
  <2> SUFFICES ASSUME NEW x \in DOMAIN j
               PROVE  IF r.nStartedHandle[SlotOf(x)] = x
                      THEN /\ j[x].num = r.nNumJobs[SlotOf(x)]
                           /\ j[x].ended = r.num_finished_jobs[SlotOf(x)]
                                             + Cardinality(Returned(a, SlotOf(x)))
                      ELSE j[x].ended = j[x].num /\ x <= r.nFinishedHandle[SlotOf(x)]
    BY DEF EndedOf
  <2>1. CASE x = h
    <3>1. Cardinality(Returned(a, s)) = 0
      BY <1>17, <1>19, FS_EmptySet
    <3> QED
      BY <1>13, <1>15, <2>1, <3>1
  <2>2. CASE x # h
    <3>1. x \in DOMAIN js /\ j[x] = js[x] /\ SlotOf(x) \in Slots
      BY <1>15, <1>16, <2>2
    <3>2. CASE SlotOf(x) = s
      BY <1>11, <1>13, <1>22, <2>2, <3>1, <3>2
    <3>3. CASE SlotOf(x) # s
      <4>1. Returned(a, SlotOf(x)) = Returned(st, SlotOf(x))
        BY <1>19, <3>1
      <4> QED
        BY <1>1, <1>11, <1>12, <3>1, <3>3, <4>1 DEF EndedOf
    <3> QED
      BY <3>2, <3>3
  <2> QED
    BY <2>1, <2>2
<1>24. UnderOf(r, j)
  <2> SUFFICES ASSUME NEW c \in DOMAIN j, ~IsDone(r, c), j[c].under # 0
               PROVE  /\ r.nParent[SlotOf(c)] = SlotOf(j[c].under)
                      /\ r.nStartedHandle[SlotOf(j[c].under)] = j[c].under
    BY DEF UnderOf
  <2>1. CASE c = h
    <3>1. j[c].under = self /\ self # 0
      BY <1>15, <2>1
    <3>2. par \in Slots /\ par # s
      BY <1>9, <3>1
    <3> QED
      BY <1>9, <1>12, <1>13, <2>1, <3>1, <3>2 DEF par
  <2>2. CASE c # h
    <3>1. c \in DOMAIN js /\ j[c] = js[c] /\ SlotOf(c) \in Slots /\ ~IsDone(p, c) /\ c \in Nat
      BY <1>11, <1>15, <1>16, <2>2 DEF IsDone
    <3>2. SlotOf(c) # s
      BY <1>22, <3>1 DEF IsDone
    <3> DEFINE u == js[c].under
               v == SlotOf(u)
    <3>3. p.nParent[SlotOf(c)] = v /\ p.nStartedHandle[v] = u
      BY <1>1, <3>1 DEF UnderOf
    <3>4. u \in DOMAIN js /\ v \in Slots
      <4>1. u \in DOMAIN js \cup {0}
        BY <1>1, <3>1 DEF Table
      <4> QED
        BY <1>16, <3>1, <4>1
    <3> HIDE DEF v, u
    <3>5. PendingJobs(p, SlotOf(c))
      <4>1. p.nStartedHandle[SlotOf(c)] = c
        BY <1>1, <3>1 DEF EndedOf, IsDone
      <4> QED
        BY <1>10, <3>1, <4>1 DEF PendingJobs, IsDone
    <3>6. Has(p.children[v], SlotOf(c))
      BY <1>1, <3>1, <3>3, <3>4, <3>5 DEF PoolInv, Tree
    <3>7. PendingJobs(p, v)
      BY <1>1, <3>1, <3>4, <3>6 DEF PoolInv, PendingIff
    <3>8. v # s
      BY <3>7
    <3>9. r.nParent[SlotOf(c)] = v /\ r.nStartedHandle[v] = u
      BY <1>12, <3>1, <3>2, <3>3, <3>4, <3>8
    <3> QED
      BY <3>1, <3>9 DEF v, u
  <2> QED
    BY <2>1, <2>2
<1>25. AllPinned(r, a, DOMAIN j)
  <2>1. ASSUME NEW x \in Positions(st)
        PROVE  Pinned(r, DOMAIN j, On(st, x))
    <3>1. Pinned(p, DOMAIN js, On(st, x))
      BY <1>1 DEF AllPinned
    <3>2. ASSUME NEW v, Runs(On(st, x), v)
          PROVE  /\ Owns(p, DOMAIN js, v) => Owns(r, DOMAIN j, v)
                 /\ r.nNumStarted[SlotOf(v)] = p.nNumStarted[SlotOf(v)]
      <4>1. SlotOf(v) \in Slots /\ SlotOf(v) # s
        BY <1>18, <3>2
      <4> QED
        BY <1>12, <1>15, <4>1 DEF Owns
    <3>3. ASSUME On(st, x).at = "user", On(st, x).job # 0
          PROVE  /\ Owns(r, DOMAIN j, On(st, x).job)
                 /\ On(st, x).sub < r.nNumStarted[SlotOf(On(st, x).job)]
      <4>1. Runs(On(st, x), On(st, x).job)
        BY <3>3 DEF Runs
      <4> QED
        BY <3>1, <3>2, <3>3, <4>1 DEF Pinned
    <3>4. ASSUME On(st, x).at = "user", NEW i \in 1 .. Len(On(st, x).groups)
          PROVE  Owns(r, DOMAIN j, On(st, x).groups[i])
      <4>1. Runs(On(st, x), On(st, x).groups[i])
        BY <3>4 DEF Runs
      <4>2. Owns(p, DOMAIN js, On(st, x).groups[i])
        BY <3>1, <3>4 DEF Pinned
      <4> QED
        BY <3>2, <4>1, <4>2
    <3> QED
      BY <1>15, <3>1, <3>3, <3>4 DEF Pinned
  <2>2. Pinned(r, DOMAIN j, g)
    <3>1. Pinned(r, DOMAIN j, f)
      BY <1>2, <2>1
    <3>2. Owns(r, DOMAIN j, h)
      BY <1>13, <1>15 DEF Owns
    <3>3. ASSUME NEW i \in 1 .. Len(g.groups) PROVE Owns(r, DOMAIN j, g.groups[i])
      <4>1. CASE i \in 1 .. m
        BY <1>2, <1>5, <3>1, <4>1 DEF Pinned, m
      <4>2. CASE i \notin 1 .. m
        <5>1. i = m + 1 /\ k = 1
          BY <1>3, <1>5, <4>2
        <5> QED
          BY <1>5, <3>2, <5>1
      <4> QED
        BY <4>1, <4>2
    <3>4. g.mine \subseteq DOMAIN j
      BY <1>2, <1>4, <1>15, <3>1 DEF Pinned
    <3> QED
      BY <1>2, <1>4, <3>1, <3>3, <3>4 DEF Pinned, WaitFrames
  <2> QED
    BY <1>8, <2>1, <2>2 DEF AllPinned
<1>26. Inv(r, a, j)
  BY <1>8, <1>20, <1>21, <1>23, <1>24, <1>25 DEF Inv
<1> QED
  BY <1>26 DEF a
=============================================================================
