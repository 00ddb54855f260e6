---------------------------- MODULE JobPoolProofs ----------------------------
(***************************************************************************)
(* Proofs about JobPool for every number of slots, handles and sub-jobs.   *)
(* The invariants of JobPool are inductive only together: a completed job  *)
(* has no pending child because PendingExact and ParentOlder held before,  *)
(* and a recycled slot loses no handle because its last one was finished.  *)
(***************************************************************************)
EXTENDS JobPool, TLAPS

IInv ==
  /\ TypeOK
  /\ Counted
  /\ OwnHandles
  /\ PendingExact
  /\ ParentOlder
  /\ NotDoneOwnsSlot

-----------------------------------------------------------------------------
\* The slot of a handle is a slot.
LEMMA SlotOfHandle ==
  ASSUME NEW h \in Handles
  PROVE  SlotOf(h) \in Slots
BY MaxJobsAssumption, MaxHandleAssumption, SMT DEF Handles, SlotOf, Slots

\* The handle after h is bigger than h and not one of slot 0.
LEMMA NextHandleIncreases ==
  ASSUME NEW h \in Handles
  PROVE  /\ NextHandle(h) \in Nat /\ NextHandle(h) > h
         /\ NextHandle(h) % MaxJobs # 0
<1>1. h \in Nat
  BY MaxHandleAssumption, SMT DEF Handles
<1>2. CASE (h + 1) % MaxJobs = 0
  BY <1>1, <1>2, MaxJobsAssumption, SMT DEF NextHandle
<1>3. CASE (h + 1) % MaxJobs # 0
  BY <1>1, <1>3, MaxJobsAssumption, SMT DEF NextHandle
<1> QED
  BY <1>2, <1>3

\* What Jq2CheckFinished completes: pending jobs with all sub-jobs finished,
\* their children with them, and every job that has nothing else left.
LEMMA CompletedFacts ==
  ASSUME NEW s \in Slots
  PROVE  /\ \A t \in Completed(s) : /\ t \in Slots
                                    /\ Pending(t)
                                    /\ Finished(s, t) = nNumJobs[t]
                                    /\ Children(t) \subseteq Completed(s)
         /\ ClosedUnder(s, Completed(s))
<1> DEFINE Over == {t \in Slots : Pending(t) /\ Finished(s, t) = nNumJobs[t]}
           Down == {t \in Completed(s) : Children(t) \subseteq Completed(s)}
<1>1. ClosedUnder(s, Completed(s))
  <2> SUFFICES ASSUME NEW t \in Slots, Pending(t), Finished(s, t) = nNumJobs[t],
                      Children(t) \subseteq Completed(s),
                      NEW C \in SUBSET Slots, ClosedUnder(s, C)
               PROVE  t \in C
    BY Zenon DEF ClosedUnder, Completed
  <2>1. Completed(s) \subseteq C
    BY Zenon DEF Completed
  <2> QED
    BY <2>1, Zenon DEF ClosedUnder
<1>2. Completed(s) \subseteq Over
  <2>1. Over \in SUBSET Slots /\ ClosedUnder(s, Over)
    BY Zenon DEF ClosedUnder
  <2> QED
    BY <2>1, Zenon DEF Completed
<1>3. Completed(s) \subseteq Down
  <2>1. Down \in SUBSET Slots
    BY Zenon DEF Completed
  <2>2. ClosedUnder(s, Down)
    BY <1>1, Zenon DEF ClosedUnder
  <2> QED
    BY <2>1, <2>2, Zenon DEF Completed
<1> QED
  BY <1>1, <1>2, <1>3, Zenon

-----------------------------------------------------------------------------
(* One lemma per kind of step *)

\* The initial pool satisfies the inductive invariant.
LEMMA InitIInv == Init => IInv
<1> SUFFICES ASSUME Init PROVE IInv
  OBVIOUS
<1>1. TypeOK
  BY MaxJobsAssumption, SMT DEF Init, TypeOK, Slots, Handles
<1>2. Counted /\ OwnHandles /\ PendingExact /\ ParentOlder /\ NotDoneOwnsSlot
  BY MaxJobsAssumption, SMT
  DEF Init, Counted, OwnHandles, PendingExact, ParentOlder, NotDoneOwnsSlot,
      Pending, Children, Slots
<1> QED
  BY <1>1, <1>2 DEF IInv

\* A job with a sub-job in the hands of a thread is pending.
LEMMA RunningIsPending ==
  ASSUME IInv, NEW s \in Slots, Running(s)
  PROVE  Pending(s)
BY SMT DEF IInv, TypeOK, Counted, PendingExact, Running

\* Issuing a handle (Jq2Add, Jq2GroupBegin) preserves the invariant.
LEMMA IssueIInv ==
  ASSUME IInv, NEW h \in Handles, NEW n \in Nat, NEW k \in Nat,
         n >= 1, k <= n, NEW par \in Slots \cup {0}, Issue(h, n, k, par)
  PROVE  IInv'
<1> USE DEF MayIssue
<1> DEFINE s == SlotOf(h)
<1>1. s \in Slots /\ h \in Nat /\ h >= 1
  BY SlotOfHandle, MaxHandleAssumption, SMT DEF Handles
<1>2. NextHandle(h) \in Nat /\ NextHandle(h) > h /\ NextHandle(h) % MaxJobs # 0
  BY NextHandleIncreases
<1>3. par # 0 => par # s /\ Pending(par)
  BY <1>1, RunningIsPending DEF Issue
<1>4. nFinishedHandle[s] = nStartedHandle[s] /\ nStartedHandle[s] < h
  BY <1>1, SMT DEF IInv, TypeOK, OwnHandles, Issue, Pending
<1>5. Children(s) = {}
  BY <1>1 DEF IInv, PendingExact, Issue
<1> HIDE DEF s
<1>6. TypeOK'
  BY <1>1, <1>2, SMT DEF IInv, TypeOK, Issue, s
<1>7. Counted'
  BY <1>1, SMT DEF IInv, TypeOK, Counted, Issue, s
<1>8. OwnHandles'
  BY <1>1, <1>2, <1>4, SMT DEF IInv, TypeOK, OwnHandles, Issue, s
<1>9. \A t \in Slots : Pending(t)' <=> (Pending(t) \/ t = s)
  BY <1>1, <1>4, SMT DEF IInv, TypeOK, Issue, Pending, s
<1>10. \A t, c \in Slots :
          (Pending(c)' /\ nParent'[c] = t) <=> \/ Pending(c) /\ nParent[c] = t
                                               \/ t = par /\ c = s
  <2> SUFFICES ASSUME NEW t \in Slots, NEW c \in Slots
               PROVE  (Pending(c)' /\ nParent'[c] = t) <=> \/ Pending(c) /\ nParent[c] = t
                                                           \/ t = par /\ c = s
    OBVIOUS
  <2>1. nParent'[c] = IF c = s THEN par ELSE nParent[c]
    BY <1>1 DEF IInv, TypeOK, Issue, s
  <2>2. ~Pending(s)
    BY DEF Issue, s
  <2> QED
    BY <1>9, <2>1, <2>2
<1>11. PendingExact'
  <2> SUFFICES ASSUME NEW t \in Slots
               PROVE  Pending(t)' <=> \/ num_finished_jobs'[t] < nNumJobs'[t]
                                      \/ Children(t)' # {}
    BY DEF PendingExact
  <2>1. CASE t = s
    <3>1. num_finished_jobs'[t] = 0 /\ nNumJobs'[t] = n
      BY <1>1, <2>1 DEF IInv, TypeOK, Issue, s
    <3> QED
      BY <1>9, <2>1, <3>1, SMT
  <2>2. CASE t # s
    <3>1. num_finished_jobs'[t] = num_finished_jobs[t] /\ nNumJobs'[t] = nNumJobs[t]
      BY <1>1, <2>2 DEF IInv, TypeOK, Issue, s
    <3>2. Pending(t) <=> num_finished_jobs[t] < nNumJobs[t] \/ Children(t) # {}
      BY DEF IInv, PendingExact
    <3>3. CASE t = par
      <4>1. Pending(t)' /\ s \in Children(t)'
        BY <1>1, <1>3, <1>9, <1>10, <3>3, MaxJobsAssumption, SMT DEF Slots, Children
      <4> QED
        BY <4>1
    <3>4. CASE t # par
      <4>1. Children(t)' = Children(t)
        BY <1>10, <3>4, Zenon DEF Children
      <4> QED
        BY <1>9, <2>2, <3>1, <3>2, <4>1
    <3> QED
      BY <3>3, <3>4
  <2> QED
    BY <2>1, <2>2
<1>12. ParentOlder'
  <2> SUFFICES ASSUME NEW c \in Slots, Pending(c)', nParent'[c] # 0
               PROVE  /\ Pending(nParent[c])'
                      /\ nStartedHandle'[nParent'[c]] < nStartedHandle'[c]
    BY DEF ParentOlder
  <2>1. CASE c = s
    <3>1. nParent'[c] = par /\ nStartedHandle'[c] = h
      BY <1>1, <2>1 DEF IInv, TypeOK, Issue, s
    <3>2. par \in Slots /\ par # s /\ Pending(par)
      BY <1>3, <3>1
    <3>3. nStartedHandle'[par] = nStartedHandle[par] /\ nStartedHandle[par] < h
      BY <1>1, <3>2, SMT DEF IInv, TypeOK, OwnHandles, Issue, s
    <3>4. Pending(nParent[c])' <=> Pending(par)'
      BY <3>1 DEF Pending
    <3> QED
      BY <1>9, <3>1, <3>2, <3>3, <3>4
  <2>2. CASE c # s
    <3>1. nParent'[c] = nParent[c] /\ Pending(c) /\ nParent[c] \in Slots
      BY <1>1, <1>9, <2>2 DEF IInv, TypeOK, Issue, s
    <3>2. Pending(nParent[c]) /\ nStartedHandle[nParent[c]] < nStartedHandle[c]
      BY <3>1 DEF IInv, ParentOlder
    <3>3. nParent[c] # s
      BY <3>2 DEF Issue, s
    <3>4. /\ nStartedHandle'[nParent[c]] = nStartedHandle[nParent[c]]
          /\ nStartedHandle'[c] = nStartedHandle[c]
      BY <1>1, <2>2, <3>1, <3>3 DEF IInv, TypeOK, Issue, s
    <3>5. Pending(nParent[c])'
      BY <3>1, <3>2, <3>4 DEF Pending, Issue
    <3> QED
      BY <3>1, <3>2, <3>4, <3>5
  <2> QED
    BY <2>1, <2>2
<1>13. NotDoneOwnsSlot'
  <2> SUFFICES ASSUME NEW g \in issued'
               PROVE  IsDone(g)' \/ nStartedHandle'[SlotOf(g)] = g
    BY DEF NotDoneOwnsSlot
  <2>1. IsDone(g)' <=> IsDone(g)
    BY DEF IsDone, Issue
  <2>2. CASE g = h
    BY <1>1, <2>2 DEF IInv, TypeOK, Issue, s
  <2>3. CASE g # h
    <3>1. g \in issued /\ g \in Handles /\ SlotOf(g) \in Slots
      BY <2>3, SlotOfHandle DEF IInv, TypeOK, Issue
    <3>2. IsDone(g) \/ nStartedHandle[SlotOf(g)] = g
      BY <3>1 DEF IInv, NotDoneOwnsSlot
    <3>3. CASE SlotOf(g) = s
      <4>1. nFinishedHandle[SlotOf(g)] \in Nat /\ nFinishedHandle[SlotOf(g)] = nStartedHandle[SlotOf(g)]
        BY <1>1, <1>4, <3>3 DEF IInv, TypeOK
      <4> QED
        BY <2>1, <3>2, <4>1, SMT DEF IsDone
    <3>4. CASE SlotOf(g) # s
      BY <1>1, <2>1, <3>1, <3>2, <3>4 DEF IInv, TypeOK, Issue, s
    <3> QED
      BY <3>3, <3>4
  <2> QED
    BY <2>2, <2>3
<1> QED
  BY <1>6, <1>7, <1>8, <1>11, <1>12, <1>13 DEF IInv

\* Finishing a sub-job preserves the invariant, whether or not the same
\* critical section starts another one.
LEMMA FinishIInv ==
  ASSUME IInv, NEW s \in Slots, FinishSub(s),
         UNCHANGED <<nStartedHandle, nNumJobs, nNextHandle, issued>>,
         nNumStarted' \in [Slots -> Nat],
         \A t \in Slots : /\ nNumStarted[t] <= nNumStarted'[t]
                          /\ nNumStarted'[t] <= nNumJobs[t]
  PROVE  IInv'
<1> DEFINE F == Completed(s)
<1>1. /\ \A t \in F : /\ t \in Slots
                      /\ Pending(t)
                      /\ Finished(s, t) = nNumJobs[t]
                      /\ Children(t) \subseteq F
      /\ ClosedUnder(s, F)
  BY CompletedFacts
<1>2. \A t \in Slots :
        /\ num_finished_jobs'[t] = Finished(s, t)
        /\ nFinishedHandle'[t] = IF t \in F THEN nStartedHandle[t] ELSE nFinishedHandle[t]
        /\ nParent'[t] = IF t \in F THEN 0 ELSE nParent[t]
  BY SMT DEF FinishSub, Finished, IInv, TypeOK
<1> HIDE DEF F
<1>3. TypeOK'
  <2>1. num_finished_jobs' \in [Slots -> Nat]
    BY SMT DEF FinishSub, IInv, TypeOK
  <2>2. nFinishedHandle' \in [Slots -> Nat] /\ nParent' \in [Slots -> Slots \cup {0}]
    BY DEF FinishSub, IInv, TypeOK
  <2> QED
    BY <2>1, <2>2 DEF IInv, TypeOK, Handles
<1>4. Counted'
  <2> SUFFICES ASSUME NEW t \in Slots
               PROVE  /\ num_finished_jobs'[t] <= nNumStarted'[t]
                      /\ nNumStarted'[t] <= nNumJobs[t]
    BY DEF Counted
  <2>1. /\ num_finished_jobs[t] \in Nat /\ nNumStarted[t] \in Nat /\ nNumStarted'[t] \in Nat
        /\ num_finished_jobs[t] <= nNumStarted[t]
        /\ t = s => num_finished_jobs[t] < nNumStarted[t]
    BY DEF IInv, TypeOK, Counted, FinishSub, Running
  <2>2. num_finished_jobs'[t] = num_finished_jobs[t] + IF t = s THEN 1 ELSE 0
    BY <1>2 DEF Finished
  <2> QED
    BY <2>1, <2>2, SMT
<1>5. OwnHandles'
  BY <1>2, SMT DEF IInv, TypeOK, OwnHandles, SlotOf
<1>6. \A t \in Slots : Pending(t)' <=> (Pending(t) /\ t \notin F)
  BY <1>1, <1>2 DEF Pending
<1>7. \A t \in Slots : Children(t)' = Children(t) \ F
  <2> SUFFICES ASSUME NEW t \in Slots, NEW c \in Slots
               PROVE  (Pending(c)' /\ nParent'[c] = t) <=> (Pending(c) /\ nParent[c] = t /\ c \notin F)
    BY Zenon DEF Children
  <2> QED
    BY <1>2, <1>6
<1>8. PendingExact'
  <2> SUFFICES ASSUME NEW t \in Slots
               PROVE  Pending(t)' <=> \/ num_finished_jobs'[t] < nNumJobs[t]
                                      \/ Children(t)' # {}
    BY DEF PendingExact
  <2>1. Pending(t) <=> num_finished_jobs[t] < nNumJobs[t] \/ Children(t) # {}
    BY DEF IInv, PendingExact
  <2>2. /\ num_finished_jobs'[t] \in Nat /\ nNumJobs[t] \in Nat
        /\ num_finished_jobs'[t] <= nNumJobs[t]
    BY <1>3, <1>4, SMT DEF TypeOK, Counted
  <2>3. CASE t \in F
    <3>1. Children(t)' = {}
      BY <1>1, <1>7, <2>3
    <3>2. num_finished_jobs'[t] = nNumJobs[t]
      BY <1>1, <1>2, <2>3
    <3> QED
      BY <1>6, <2>2, <2>3, <3>1, <3>2, SMT
  <2>4. CASE t \notin F /\ Pending(t)
    <3> SUFFICES ASSUME num_finished_jobs'[t] = nNumJobs[t], Children(t)' = {}
                 PROVE  FALSE
      BY <1>6, <2>2, <2>4, SMT
    <3>1. Children(t) \subseteq F
      BY <1>7
    <3>2. Finished(s, t) = nNumJobs[t]
      BY <1>2
    <3> QED
      BY <1>1, <2>4, <3>1, <3>2 DEF ClosedUnder
  <2>5. CASE ~Pending(t)
    <3>1. t # s
      BY <2>5, RunningIsPending DEF FinishSub
    <3>2. num_finished_jobs'[t] = num_finished_jobs[t]
      BY <3>1 DEF FinishSub, IInv, TypeOK
    <3>3. Children(t)' = {}
      BY <1>7, <2>1, <2>5
    <3> QED
      BY <1>6, <2>1, <2>5, <3>2, <3>3
  <2> QED
    BY <2>3, <2>4, <2>5
<1>9. ParentOlder'
  <2> SUFFICES ASSUME NEW c \in Slots, Pending(c)', nParent'[c] # 0
               PROVE  /\ Pending(nParent[c])'
                      /\ nStartedHandle[nParent'[c]] < nStartedHandle[c]
    BY DEF ParentOlder
  <2>1. Pending(c) /\ c \notin F /\ nParent'[c] = nParent[c] /\ nParent[c] \in Slots
    BY <1>2, <1>6 DEF IInv, TypeOK
  <2>2. Pending(nParent[c]) /\ nStartedHandle[nParent[c]] < nStartedHandle[c]
    BY <2>1 DEF IInv, ParentOlder
  <2>3. c \in Children(nParent[c])
    BY <2>1 DEF Children
  <2>4. nParent[c] \notin F
    BY <1>1, <2>1, <2>3
  <2>5. nFinishedHandle'[nParent[c]] = nFinishedHandle[nParent[c]]
    BY <1>2, <2>1, <2>4
  <2> QED
    BY <2>1, <2>2, <2>5 DEF Pending
<1>10. NotDoneOwnsSlot'
  <2> SUFFICES ASSUME NEW g \in issued
               PROVE  IsDone(g)' \/ nStartedHandle[SlotOf(g)] = g
    BY DEF NotDoneOwnsSlot
  <2>1. g \in Nat /\ SlotOf(g) \in Slots
    BY SlotOfHandle, MaxHandleAssumption DEF IInv, TypeOK, Handles
  <2>2. IsDone(g) \/ nStartedHandle[SlotOf(g)] = g
    BY DEF IInv, NotDoneOwnsSlot
  <2>3. nFinishedHandle[SlotOf(g)] <= nFinishedHandle'[SlotOf(g)]
    BY <1>2, <2>1, SMT DEF IInv, TypeOK, OwnHandles
  <2> QED
    BY <1>3, <2>1, <2>2, <2>3, SMT DEF IsDone, IInv, TypeOK
<1> QED
  BY <1>3, <1>4, <1>5, <1>8, <1>9, <1>10 DEF IInv

\* Starting a sub-job preserves the invariant.
LEMMA StartIInv ==
  ASSUME IInv, NEW s \in Slots, Start(s)
  PROVE  IInv'
<1>1. TypeOK' /\ Counted'
  BY SMT DEF IInv, TypeOK, Counted, Start, StartSub, Handles
<1>2. \A t \in Slots : (Pending(t)' <=> Pending(t)) /\ Children(t)' = Children(t)
  BY DEF Start, Pending, Children
<1>3. OwnHandles' /\ NotDoneOwnsSlot'
  BY DEF IInv, OwnHandles, NotDoneOwnsSlot, IsDone, Start
<1>4. PendingExact'
  BY <1>2 DEF IInv, PendingExact, Start
<1>5. ParentOlder'
  BY DEF IInv, ParentOlder, Pending, Start
<1> QED
  BY <1>1, <1>3, <1>4, <1>5 DEF IInv

\* How many sub-jobs StartSub leaves started.
LEMMA StartSubBounds ==
  ASSUME IInv, NEW t \in Slots, StartSub(t)
  PROVE  /\ nNumStarted' \in [Slots -> Nat]
         /\ \A u \in Slots : /\ nNumStarted[u] <= nNumStarted'[u]
                             /\ nNumStarted'[u] <= nNumJobs[u]
BY SMT DEF IInv, TypeOK, Counted, StartSub

\* Every step preserves the inductive invariant.
LEMMA NextIInv == IInv /\ [Next]_vars => IInv'
<1> SUFFICES ASSUME IInv, [Next]_vars PROVE IInv'
  OBVIOUS
<1>1. ASSUME NEW h \in Handles, NEW n \in 1 .. MaxSub, NEW par \in Slots \cup {0},
             Add(h, n, par)
      PROVE  IInv'
  <2>1. n \in Nat /\ n >= 1 /\ 0 \in Nat /\ 0 <= n
    BY MaxSubAssumption, SMT
  <2> QED
    BY <1>1, <2>1, IssueIInv DEF Add
<1>2. ASSUME NEW h \in Handles, NEW par \in Slots \cup {0}, GroupBegin(h, par)
      PROVE  IInv'
  BY <1>2, IssueIInv DEF GroupBegin
<1>3. ASSUME NEW s \in Slots, Start(s)
      PROVE  IInv'
  BY <1>3, StartIInv
<1>4. ASSUME NEW s \in Slots, Finish(s)
      PROVE  IInv'
  <2>1. /\ nNumStarted' \in [Slots -> Nat]
        /\ \A t \in Slots : /\ nNumStarted[t] <= nNumStarted'[t]
                            /\ nNumStarted'[t] <= nNumJobs[t]
    BY <1>4, SMT DEF Finish, IInv, TypeOK, Counted
  <2> QED
    BY <1>4, <2>1, FinishIInv DEF Finish
<1>5. ASSUME NEW s \in Slots, NEW t \in Slots, FinishAndStart(s, t)
      PROVE  IInv'
  <2>1. /\ nNumStarted' \in [Slots -> Nat]
        /\ \A u \in Slots : /\ nNumStarted[u] <= nNumStarted'[u]
                            /\ nNumStarted'[u] <= nNumJobs[u]
    BY <1>5, StartSubBounds DEF FinishAndStart
  <2> QED
    BY <1>5, <2>1, FinishIInv DEF FinishAndStart
<1>6. ASSUME UNCHANGED vars
      PROVE  IInv'
  BY <1>6 DEF vars, IInv, TypeOK, Counted, OwnHandles, PendingExact, ParentOlder,
              NotDoneOwnsSlot, Pending, Children, IsDone
<1> QED
  BY <1>1, <1>2, <1>3, <1>4, <1>5, <1>6 DEF Next

-----------------------------------------------------------------------------
\* The inductive invariant holds in every reachable state.
THEOREM Invariance == Spec => []IInv
BY InitIInv, NextIInv, PTL DEF Spec

\* The pool keeps its types for any number of slots and handles.
THEOREM TypeCorrect == Spec => []TypeOK
<1>1. IInv => TypeOK
  BY DEF IInv
<1> QED
  BY <1>1, Invariance, PTL

\* A job is pending exactly while a sub-job or a job under it is left.
THEOREM PendingIsExact == Spec => []PendingExact
<1>1. IInv => PendingExact
  BY DEF IInv
<1> QED
  BY <1>1, Invariance, PTL

\* The parents of pending jobs are pending and older: the job tree is a
\* forest, and no parent slot is recycled under its children.
THEOREM ParentsAreOlder == Spec => []ParentOlder
<1>1. IInv => ParentOlder
  BY DEF IInv
<1> QED
  BY <1>1, Invariance, PTL

\* A handle that is not done owns its slot.
THEOREM UnfinishedHandleOwnsSlot == Spec => []NotDoneOwnsSlot
<1>1. IInv => NotDoneOwnsSlot
  BY DEF IInv
<1> QED
  BY <1>1, Invariance, PTL

\* The finished handle of a slot never decreases.
LEMMA FinishedMonotonic ==
  ASSUME IInv, [Next]_vars, NEW s \in Slots
  PROVE  nFinishedHandle[s] <= nFinishedHandle'[s]
<1>1. nFinishedHandle[s] \in Nat /\ nFinishedHandle[s] <= nStartedHandle[s]
  BY DEF IInv, TypeOK, OwnHandles
<1>2. nFinishedHandle'[s] \in {nFinishedHandle[s], nStartedHandle[s]}
  BY DEF Next, vars, Add, GroupBegin, Issue, Start, Finish, FinishAndStart, FinishSub
<1> QED
  BY <1>1, <1>2, SMT

\* Jq2IsDone never takes its answer back.
THEOREM DoneIsStable == Spec => DoneStable
<1>1. IInv /\ IInv' /\ [Next]_vars => [\A h \in issued : IsDone(h) => IsDone(h)']_vars
  <2> SUFFICES ASSUME IInv, IInv', [Next]_vars, NEW h \in issued, IsDone(h)
               PROVE  IsDone(h)'
    OBVIOUS
  <2>1. h \in Nat /\ SlotOf(h) \in Slots
    BY SlotOfHandle, MaxHandleAssumption DEF IInv, TypeOK, Handles
  <2>2. nFinishedHandle[SlotOf(h)] <= nFinishedHandle'[SlotOf(h)]
    BY <2>1, FinishedMonotonic
  <2>3. nFinishedHandle[SlotOf(h)] \in Nat /\ nFinishedHandle'[SlotOf(h)] \in Nat
    BY <2>1 DEF IInv, TypeOK
  <2> QED
    BY <2>1, <2>2, <2>3, SMT DEF IsDone
<1> QED
  BY <1>1, Invariance, PTL DEF Spec, DoneStable

\* While a thread runs a sub-job of a slot, the slot keeps its handle.
THEOREM RunningSlotKeepsHandle == Spec => RunningKeepsHandle
<1>1. IInv /\ [Next]_vars =>
        [\A s \in Slots : Running(s) => nStartedHandle'[s] = nStartedHandle[s]]_vars
  <2> SUFFICES ASSUME IInv, [Next]_vars, NEW s \in Slots, Running(s)
               PROVE  nStartedHandle'[s] = nStartedHandle[s]
    OBVIOUS
  <2>1. Pending(s)
    BY RunningIsPending
  <2>2. nStartedHandle \in [Slots -> Nat]
    BY DEF IInv, TypeOK
  <2>3. ASSUME NEW h \in Handles, NEW n, NEW k, NEW par, Issue(h, n, k, par)
        PROVE  nStartedHandle'[s] = nStartedHandle[s]
    BY <2>1, <2>2, <2>3 DEF Issue, MayIssue
  <2> QED
    BY <2>3 DEF Next, vars, Add, GroupBegin, Start, Finish, FinishAndStart
<1> QED
  BY <1>1, Invariance, PTL DEF Spec, RunningKeepsHandle
=============================================================================
