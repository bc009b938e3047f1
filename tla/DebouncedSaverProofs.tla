------------------------ MODULE DebouncedSaverProofs ------------------------
(***************************************************************************)
(* Proofs about DebouncedSaver for every number of snapshots and every set *)
(* of flush loops.  IInv is inductive; the safety invariants follow from   *)
(* it, and each step of the saver is a step of SaveContract or a stutter.  *)
(***************************************************************************)
EXTENDS DebouncedSaver, TLAPS

\* Facts about the numbers and answers the later proofs would unfold again.
LEMMA AnswerTypes ==
    /\ Snapshots \subseteq SnapshotOrNone
    /\ SnapshotOrNone \subseteq Nat
    /\ 0 \in SnapshotOrNone /\ 0 \notin Snapshots
    /\ Contract!Pending \in Contract!Answers
    /\ Contract!Aborted \in Contract!Answers
    /\ \A j \in SnapshotOrNone :
          Contract!Saved(j) \in Contract!Answers /\ Contract!Failed(j) \in Contract!Answers
    /\ \A j \in SnapshotOrNone :
          Contract!Saved(j).status = "saved" /\ Contract!Failed(j).status = "failed"
    /\ Contract!Pending.status = "pending" /\ Contract!Aborted.status = "aborted"
  BY SaverAssumption DEF Snapshots, SnapshotOrNone, Contract!Snapshots, Contract!Answers,
     Contract!Pending, Contract!Aborted, Contract!Saved, Contract!Failed

LEMMA InitEstablishes == Init => IInv
<1> SUFFICES ASSUME Init PROVE IInv
  OBVIOUS
<1>1. TypeOK
  BY SaverAssumption, AnswerTypes DEF Init, TypeOK
<1>2. OneSaveInFlight /\ RunningNamesTask /\ OwnerSetsRunning /\ NoLostSnapshot
  BY DEF Init, OneSaveInFlight, RunningNamesTask, OwnerSetsRunning, NoLostSnapshot
<1>3. InOrder
  BY DEF Init, InOrder
<1>4. CallersAccounted
  BY DEF Init, CallersAccounted
<1> QED BY <1>1, <1>2, <1>3, <1>4 DEF IInv

\* A turn of any flush loop preserves the invariant.  The two hypotheses are
\* what its three callers establish: a turn that starts with nothing running
\* really is alone, and one that starts with a save running did not start it.
LEMMA TurnPreserves ==
    ASSUME IInv, NEW f \in Flushers, NEW now, NEW armed \in BOOLEAN,
           Turn(f, now, armed),
           now = 0 => inflight = {} /\ \A g \in Flushers : pc[g] = "own" => g = f,
           now # 0 => now = running /\ pc[f] # "own",
           since' \in [Flushers -> SnapshotOrNone],
           \A g \in Flushers : since'[g] <= seq,
           UNCHANGED <<seq, answer, durable>>
    PROVE  IInv'
<1> USE DEF IInv
<1>1. CASE now # 0
  <2>1. /\ pc' = [pc EXCEPT ![f] = "join"]
        /\ awaited' = [awaited EXCEPT ![f] = running]
        /\ running' = running /\ timer' = armed
        /\ UNCHANGED <<latest, waiters, inflight>>
    BY <1>1 DEF Turn, Join, Claim, Return
  <2>2. TypeOK'
    BY <2>1 DEF TypeOK
  <2>3. OneSaveInFlight' /\ RunningNamesTask' /\ InOrder' /\ CallersAccounted'
    BY <2>1 DEF OneSaveInFlight, RunningNamesTask, InOrder, CallersAccounted
  <2>4. OwnerSetsRunning'
    BY <2>1, <1>1 DEF OwnerSetsRunning, TypeOK
  <2>5. NoLostSnapshot'
    BY <2>1 DEF NoLostSnapshot, TypeOK
  <2> QED BY <2>2, <2>3, <2>4, <2>5
<1>2. CASE now = 0 /\ latest # 0
  <2> DEFINE new == [job |-> latest, callers |-> waiters]
  <2>1. /\ inflight' = {new}
        /\ running' = latest
        /\ awaited' = [awaited EXCEPT ![f] = latest]
        /\ pc' = [pc EXCEPT ![f] = "own"]
        /\ latest' = 0 /\ waiters' = {} /\ timer' = FALSE
    BY <1>2 DEF Turn, Join, Claim, Return
  <2>2. new \in Task
    BY <1>2 DEF TypeOK, Task, SnapshotOrNone, Snapshots, Contract!Snapshots
  <2>3. TypeOK'
    BY <2>1, <2>2, AnswerTypes DEF TypeOK
  <2>4. OneSaveInFlight' /\ RunningNamesTask' /\ NoLostSnapshot'
    BY <2>1 DEF OneSaveInFlight, RunningNamesTask, NoLostSnapshot
  <2>5. OwnerSetsRunning'
    BY <2>1, <1>2 DEF OwnerSetsRunning, TypeOK
  <2>6. InOrder'
    BY <2>1, <1>2, SaverAssumption DEF InOrder, TypeOK, SnapshotOrNone
  <2>7. CallersAccounted'
    BY <2>1, <1>2 DEF CallersAccounted
  <2> QED BY <2>3, <2>4, <2>5, <2>6, <2>7
<1>3. CASE now = 0 /\ latest = 0
  <2>1. /\ pc' = [pc EXCEPT ![f] = "idle"]
        /\ running' = 0 /\ timer' = armed
        /\ UNCHANGED <<latest, waiters, inflight, awaited>>
    BY <1>3 DEF Turn, Join, Claim, Return
  <2>2. TypeOK'
    BY <2>1, AnswerTypes DEF TypeOK
  <2>3. OneSaveInFlight' /\ RunningNamesTask' /\ NoLostSnapshot'
    BY <2>1, <1>3 DEF OneSaveInFlight, RunningNamesTask, NoLostSnapshot
  <2>4. OwnerSetsRunning'
    BY <2>1, <1>3 DEF OwnerSetsRunning, TypeOK
  <2>5. InOrder' 
    BY <2>1, <1>3 DEF InOrder, TypeOK, SnapshotOrNone
  <2>6. CallersAccounted'
    BY <2>1, <1>3 DEF CallersAccounted
  <2> QED BY <2>2, <2>3, <2>4, <2>5, <2>6
<1> QED BY <1>1, <1>2, <1>3

LEMMA FlushPreserves ==
    ASSUME IInv, NEW f \in Flushers, Flush(f)
    PROVE  IInv'
<1> USE DEF IInv
<1>1. running = 0 => inflight = {} /\ \A g \in Flushers : pc[g] # "own"
  BY AnswerTypes DEF RunningNamesTask, OwnerSetsRunning, TypeOK, Task
<1>2. since' \in [Flushers -> SnapshotOrNone] /\ \A g \in Flushers : since'[g] <= seq
  BY DEF Flush, TypeOK, InOrder, SnapshotOrNone
<1>3. Turn(f, running, FALSE) /\ pc[f] # "own" /\ UNCHANGED <<seq, answer, durable>>
  BY DEF Flush
<1> QED BY <1>1, <1>2, <1>3, TurnPreserves

\* When the owner of the running save resumes, no save is left in flight.
LEMMA ResumeAlone ==
    ASSUME IInv, NEW f \in Flushers, Resume(f)
    PROVE  /\ running = awaited[f] /\ inflight = {}
           /\ Turn(f, 0, timer)
           /\ \A g \in Flushers : pc[g] = "own" => g = f
<1>1. running = awaited[f] /\ \A g \in Flushers : pc[g] = "own" => g = f
  BY DEF IInv, OwnerSetsRunning, Resume
<1>2. inflight = {}
  BY <1>1 DEF IInv, RunningNamesTask, Resume, TaskDone
<1>3. Turn(f, 0, timer)
  BY <1>1 DEF Resume
<1> QED BY <1>1, <1>2, <1>3

LEMMA ResumePreserves ==
    ASSUME IInv, NEW f \in Flushers, Resume(f)
    PROVE  IInv'
<1>1. since' \in [Flushers -> SnapshotOrNone] /\ \A g \in Flushers : since'[g] <= seq
  BY DEF Resume, IInv, TypeOK, InOrder
<1>2. timer \in BOOLEAN /\ UNCHANGED <<seq, answer, durable>>
  BY DEF Resume, IInv, TypeOK
<1> QED BY <1>1, <1>2, ResumeAlone, TurnPreserves

LEMMA RejoinPreserves ==
    ASSUME IInv, NEW f \in Flushers, Rejoin(f)
    PROVE  IInv'
<1>1. since' \in [Flushers -> SnapshotOrNone] /\ \A g \in Flushers : since'[g] <= seq
  BY DEF Rejoin, IInv, TypeOK, InOrder
<1>2. running = 0 => inflight = {} /\ \A g \in Flushers : pc[g] # "own"
  BY AnswerTypes DEF IInv, RunningNamesTask, OwnerSetsRunning, TypeOK, Task
<1>3. timer \in BOOLEAN /\ Turn(f, running, timer) /\ pc[f] # "own"
      /\ UNCHANGED <<seq, answer, durable>>
  BY DEF Rejoin, IInv, TypeOK
<1> QED BY <1>1, <1>2, <1>3, TurnPreserves

\* The callers that wait belong to snapshots already scheduled.
LEMMA WaitersBounded ==
    ASSUME IInv
    PROVE  \A n \in waiters :
              n \in Snapshots /\ n <= seq /\ n <= seq + 1 /\ answer[n] = Contract!Pending
<1> SUFFICES ASSUME NEW n \in waiters
             PROVE  n \in Snapshots /\ n <= seq /\ n <= seq + 1 /\ answer[n] = Contract!Pending
  OBVIOUS
<1>1. n \in Snapshots /\ n \in Nat
  BY DEF IInv, TypeOK, Snapshots, Contract!Snapshots
<1>2. n <= latest /\ answer[n] = Contract!Pending
  BY DEF IInv, CallersAccounted
<1>3. latest <= seq /\ latest \in Nat /\ seq \in Nat
  BY SaverAssumption DEF IInv, InOrder, TypeOK, SnapshotOrNone
<1> QED BY <1>1, <1>2, <1>3

LEMMA SchedulePreserves ==
    ASSUME IInv, Schedule
    PROVE  IInv'
<1> USE SaverAssumption DEF IInv
<1>1. seq + 1 \in Snapshots /\ seq' = seq + 1 /\ latest' = seq + 1 /\ timer' = TRUE
      /\ waiters' = waiters \cup {seq + 1}
      /\ UNCHANGED <<running, inflight, pc, awaited, since, answer, durable>>
  BY DEF Schedule, Enqueue, TypeOK, SnapshotOrNone, Snapshots, Contract!Snapshots
<1>2. TypeOK'
  BY <1>1, AnswerTypes DEF TypeOK
<1>3. OneSaveInFlight' /\ RunningNamesTask' /\ OwnerSetsRunning' /\ NoLostSnapshot'
  BY <1>1 DEF OneSaveInFlight, RunningNamesTask, OwnerSetsRunning, NoLostSnapshot
<1>4. InOrder'
  BY <1>1 DEF InOrder, TypeOK, SnapshotOrNone
<1>5. CallersAccounted'
  <2>1. \A n \in Snapshots : n > seq + 1 => n > seq
    BY DEF TypeOK, SnapshotOrNone, Snapshots, Contract!Snapshots
  <2>2. answer[seq + 1] = Contract!Pending
    BY <1>1 DEF CallersAccounted, TypeOK, SnapshotOrNone
  <2>3. \A n \in waiters \cup {seq + 1} : n <= seq + 1 /\ answer[n] = Contract!Pending
    <3>1. seq + 1 <= seq + 1
      BY DEF TypeOK, SnapshotOrNone
    <3>2. \A n \in waiters : n <= seq + 1 /\ answer[n] = Contract!Pending
      BY WaitersBounded
    <3> QED BY <3>1, <3>2, <2>2
  <2>4. \A task \in inflight : \A n \in task.callers : n # seq + 1
    <3> SUFFICES ASSUME NEW task \in inflight, NEW n \in task.callers PROVE n # seq + 1
      OBVIOUS
    <3>1. n <= task.job /\ task.job = running /\ running <= seq
      BY DEF CallersAccounted, RunningNamesTask, InOrder
    <3>2. n \in Nat /\ running \in Nat /\ seq \in Nat
      BY DEF TypeOK, Task, SnapshotOrNone, Snapshots, Contract!Snapshots
    <3> QED BY <3>1, <3>2
  <2>5. \A n \in 1..(seq + 1) : n = seq + 1 \/ n \in 1..seq
    BY DEF TypeOK, SnapshotOrNone
  <2> QED BY <1>1, <2>1, <2>3, <2>4, <2>5 DEF CallersAccounted
<1> QED BY <1>2, <1>3, <1>4, <1>5

LEMMA CancelPreserves ==
    ASSUME IInv, Cancel
    PROVE  IInv'
<1> USE DEF IInv
<1>1. /\ timer' = FALSE /\ latest' = 0 /\ waiters' = {}
      /\ answer' = [n \in Snapshots |-> IF n \in waiters THEN Contract!Aborted ELSE answer[n]]
      /\ UNCHANGED <<seq, running, inflight, pc, awaited, since, durable>>
  BY DEF Cancel, CancelTelling, Contract!Tell, Snapshots
<1>2. TypeOK'
  BY <1>1, AnswerTypes DEF TypeOK
<1>3. OneSaveInFlight' /\ RunningNamesTask' /\ OwnerSetsRunning' /\ NoLostSnapshot'
  BY <1>1 DEF OneSaveInFlight, RunningNamesTask, OwnerSetsRunning, NoLostSnapshot
<1>4. InOrder'
  BY <1>1 DEF InOrder, TypeOK, SnapshotOrNone
<1>5. CallersAccounted'
  <2>1. \A n \in waiters : n \in Snapshots /\ n <= seq
    BY WaitersBounded
  <2>2. \A task \in inflight : task.callers \subseteq Snapshots
    BY DEF TypeOK, Task
  <2>3. \A n \in Snapshots \ waiters : answer'[n] = answer[n]
    BY <1>1
  <2>4. \A n \in waiters : answer'[n].status = "aborted"
    BY <1>1, <2>1, AnswerTypes
  <2>5. 1..seq \subseteq Snapshots
    BY SaverAssumption DEF TypeOK, SnapshotOrNone, Snapshots, Contract!Snapshots
  <2>6. \A n \in Snapshots : n > seq => n \notin waiters
    BY <2>1 DEF TypeOK, SnapshotOrNone, Snapshots, Contract!Snapshots
  <2>7. \A n \in Snapshots : n > seq => answer'[n] = Contract!Pending
    BY <2>3, <2>6 DEF CallersAccounted
  <2>8. \A task \in inflight : \A n \in task.callers :
          n <= task.job /\ answer'[n] = Contract!Pending
    BY <2>2, <2>3 DEF CallersAccounted
  <2>9. \A n \in 1..seq : answer'[n].status = "pending" =>
          \E task \in inflight : n \in task.callers
    BY <2>3, <2>4, <2>5 DEF CallersAccounted
  <2> QED BY <1>1, <2>7, <2>8, <2>9 DEF CallersAccounted
<1> QED BY <1>2, <1>3, <1>4, <1>5

LEMMA SettlePreserves ==
    ASSUME IInv, NEW task \in inflight, NEW ok \in BOOLEAN, Settle(task, ok)
    PROVE  IInv'
<1> USE DEF IInv
<1> DEFINE told == IF ok THEN Contract!Saved(task.job) ELSE Contract!Failed(task.job)
<1>1. /\ inflight' = {}
      /\ durable' = IF ok THEN task.job ELSE durable
      /\ answer' = [n \in Snapshots |-> IF n \in task.callers THEN told ELSE answer[n]]
      /\ UNCHANGED <<seq, timer, latest, waiters, running, pc, awaited, since>>
  BY DEF Settle, SettleTelling, Result, Contract!Tell, Snapshots, OneSaveInFlight
<1>2. task \in Task /\ task.job = running
  BY DEF TypeOK, RunningNamesTask
<1>3. told \in Contract!Answers /\ told.status # "pending"
  BY <1>2, AnswerTypes DEF Task
<1>4. TypeOK'
  <2>1. durable' \in SnapshotOrNone
    BY <1>1, <1>2, AnswerTypes DEF TypeOK, Task
  <2>2. answer' \in [Snapshots -> Contract!Answers]
    <3> HIDE DEF told
    <3> QED BY <1>1, <1>3 DEF TypeOK
  <2> QED BY <1>1, <2>1, <2>2 DEF TypeOK
<1>5. OneSaveInFlight' /\ RunningNamesTask' /\ OwnerSetsRunning' /\ NoLostSnapshot'
  BY <1>1 DEF OneSaveInFlight, RunningNamesTask, OwnerSetsRunning, NoLostSnapshot
<1>6. InOrder'
  BY <1>1, <1>2 DEF InOrder
<1>7. CallersAccounted'
  <2> HIDE DEF told
  <2>1. \A n \in task.callers : n \in Snapshots /\ n <= seq /\ n \notin waiters
    BY <1>2 DEF CallersAccounted, InOrder, TypeOK, Task, SnapshotOrNone, Snapshots,
       Contract!Snapshots
  <2>2. \A n \in Snapshots \ task.callers : answer'[n] = answer[n]
    BY <1>1
  <2>3. \A n \in task.callers : answer'[n].status # "pending"
    BY <1>1, <1>3, <2>1
  <2>4. \A n \in Snapshots : n > seq => n \notin task.callers
    BY <2>1 DEF TypeOK, SnapshotOrNone, Snapshots, Contract!Snapshots
  <2>5. 1..seq \subseteq Snapshots
    BY SaverAssumption DEF TypeOK, SnapshotOrNone, Snapshots, Contract!Snapshots
  <2>6. \A n \in 1..seq : answer'[n].status = "pending" => n \in waiters
    BY <2>2, <2>3, <2>5 DEF CallersAccounted, OneSaveInFlight
  <2>7. \A n \in Snapshots : n > seq => answer'[n] = Contract!Pending
    BY <2>2, <2>4 DEF CallersAccounted
  <2>8. \A n \in waiters : n <= latest /\ answer'[n] = Contract!Pending
    BY <2>1, <2>2 DEF CallersAccounted, TypeOK
  <2> QED BY <1>1, <2>6, <2>7, <2>8 DEF CallersAccounted
<1> QED BY <1>4, <1>5, <1>6, <1>7

LEMMA StutterPreserves ==
    ASSUME IInv, UNCHANGED vars
    PROVE  IInv'
  BY DEF IInv, vars, TypeOK, OneSaveInFlight, RunningNamesTask, OwnerSetsRunning, InOrder,
     CallersAccounted, NoLostSnapshot

LEMMA NextPreserves == IInv /\ [Next]_vars => IInv'
<1> SUFFICES ASSUME IInv, [Next]_vars PROVE IInv'
  OBVIOUS
<1>1. CASE Schedule  BY <1>1, SchedulePreserves
<1>2. CASE Cancel    BY <1>2, CancelPreserves
<1>3. ASSUME NEW f \in Flushers, Flush(f) PROVE IInv'
  BY <1>3, FlushPreserves
<1>4. ASSUME NEW f \in Flushers, TimerFires(f) PROVE IInv'
  BY <1>4, FlushPreserves DEF TimerFires
<1>5. ASSUME NEW f \in Flushers, Resume(f) PROVE IInv'
  BY <1>5, ResumePreserves
<1>6. ASSUME NEW f \in Flushers, Rejoin(f) PROVE IInv'
  BY <1>6, RejoinPreserves
<1>7. ASSUME NEW task \in inflight, NEW ok \in BOOLEAN, Settle(task, ok) PROVE IInv'
  BY <1>7, SettlePreserves
<1>8. CASE UNCHANGED vars  BY <1>8, StutterPreserves
<1> QED BY <1>1, <1>2, <1>3, <1>4, <1>5, <1>6, <1>7, <1>8 DEF Next

-----------------------------------------------------------------------------
\* The invariant of the saver (debounce.ts:20-66): exact bookkeeping of the
\* running save, of the order of snapshots and of the callers still waiting.
THEOREM Invariance == Spec => []IInv
  BY InitEstablishes, NextPreserves, PTL DEF Spec

\* Every field of the saver keeps its type, for any number of snapshots.
THEOREM TypeCorrect == Spec => []TypeOK
<1>1. IInv => TypeOK
  BY DEF IInv
<1> QED BY <1>1, Invariance, PTL

\* However many flush loops are suspended, only one saveWorkspace of a saver
\* is ever unsettled (debounce.ts:26-30).
THEOREM SingleSave == Spec => []OneSaveInFlight
<1>1. IInv => OneSaveInFlight
  BY DEF IInv
<1> QED BY <1>1, Invariance, PTL

\* No interleaving of timers, flush() calls and cancel() strands a snapshot.
THEOREM NoSnapshotLost == Spec => []NoLostSnapshot
<1>1. IInv => NoLostSnapshot
  BY DEF IInv
<1> QED BY <1>1, Invariance, PTL

\* A saver whose "pending" getter is FALSE has answered every caller
\* (debounce.ts:93-95).
THEOREM PendingHonest == Spec => []PendingIsHonest
<1>1. IInv => PendingIsHonest
  <2> SUFFICES ASSUME IInv, latest = 0, running = 0, NEW n \in 1..seq,
                      answer[n].status = "pending"
               PROVE  FALSE
    BY DEF PendingIsHonest
  <2>1. inflight = {}
    BY AnswerTypes DEF IInv, RunningNamesTask, TypeOK, Task
  <2>2. waiters = {}
    BY DEF IInv, CallersAccounted, TypeOK, Snapshots, Contract!Snapshots
  <2> QED BY <2>1, <2>2 DEF IInv, CallersAccounted
<1> QED BY <1>1, Invariance, PTL

-----------------------------------------------------------------------------
\* A turn that returns found nothing running and nothing waiting.
LEMMA TurnReturns ==
    ASSUME NEW f \in Flushers, NEW g \in Flushers, NEW now, NEW armed,
           pc \in [Flushers -> {"idle", "own", "join"}],
           Turn(f, now, armed), pc[g] # "idle", pc'[g] = "idle"
    PROVE  now = 0 /\ latest = 0
<1>1. CASE now # 0
  BY <1>1 DEF Turn, Join, Claim, Return
<1>2. CASE now = 0 /\ latest # 0
  BY <1>2 DEF Turn, Join, Claim, Return
<1> QED BY <1>1, <1>2

\* When nothing runs and nothing waits, every caller has been answered.
LEMMA QuietMeansAnswered ==
    ASSUME IInv, latest = 0, inflight = {}
    PROVE  \A n \in 1..seq : answer[n].status # "pending"
<1>1. waiters = {}
  BY DEF IInv, CallersAccounted, TypeOK, Snapshots, Contract!Snapshots
<1> QED BY <1>1 DEF IInv, CallersAccounted

LEMMA StepReturnsDrained == IInv /\ [Next]_vars => [ReturnsDrained]_vars
<1> SUFFICES ASSUME IInv, Next PROVE ReturnsDrained
  OBVIOUS
<1> SUFFICES ASSUME NEW g \in Flushers, pc[g] # "idle" \/ Flush(g), pc'[g] = "idle"
             PROVE  \A n \in 1..since'[g] : answer[n].status # "pending"
  BY DEF ReturnsDrained
<1>1. 1..since'[g] \subseteq 1..seq
  <2>1. IInv' /\ seq' \in Nat /\ since'[g] \in Nat /\ since'[g] <= seq'
    BY NextPreserves, SaverAssumption DEF IInv, InOrder, TypeOK, SnapshotOrNone
  <2>2. CASE seq' = seq
    BY <2>1, <2>2
  <2>3. CASE Schedule \/ Cancel
    BY <2>1, <2>3, SaverAssumption DEF Schedule, Enqueue, Cancel, CancelTelling, IInv, InOrder, TypeOK, SnapshotOrNone
  <2> QED BY <2>2, <2>3 DEF Next, Flush, TimerFires, Resume, Rejoin, Settle, SettleTelling
<1>2. pc \in [Flushers -> {"idle", "own", "join"}]
  BY DEF IInv, TypeOK
<1>3. running = 0 => inflight = {}
  BY AnswerTypes DEF IInv, RunningNamesTask, TypeOK, Task
<1>4. CASE Flush(g)
  <2>1. Turn(g, running, FALSE)
    BY <1>4 DEF Flush
  <2>2. running = 0 /\ latest = 0
    <3>1. CASE running # 0
      BY <2>1, <3>1, <1>2 DEF Turn, Join, Claim, Return
    <3>2. CASE running = 0 /\ latest # 0
      BY <2>1, <3>2, <1>2 DEF Turn, Join, Claim, Return
    <3> QED BY <3>1, <3>2
  <2> QED BY <2>2, <1>1, <1>3, QuietMeansAnswered
<1>10. latest = 0 /\ inflight = {} => \A n \in 1..since'[g] : answer[n].status # "pending"
  <2>1. latest = 0 /\ inflight = {} => \A n \in 1..seq : answer[n].status # "pending"
    BY QuietMeansAnswered
  <2> QED BY <2>1, <1>1
<1> SUFFICES ASSUME pc[g] # "idle" PROVE latest = 0 /\ inflight = {}
  BY <1>4, <1>10
<1>5. ASSUME NEW f \in Flushers, Flush(f) \/ Rejoin(f)
      PROVE  latest = 0 /\ inflight = {}
  <2>1. PICK armed : Turn(f, running, armed)
    BY <1>5 DEF Flush, Rejoin
  <2> QED BY <2>1, <1>2, <1>3, TurnReturns
<1>6. ASSUME NEW f \in Flushers, Resume(f)
      PROVE  latest = 0 /\ inflight = {}
  BY <1>6, <1>2, ResumeAlone, TurnReturns
<1>7. ASSUME NEW task \in inflight, NEW ok \in BOOLEAN, Settle(task, ok)
      PROVE  FALSE
  BY <1>7 DEF Settle, SettleTelling, Result
<1>8. ~(Schedule \/ Cancel)
  BY DEF Schedule, Enqueue, Cancel, CancelTelling
<1> QED BY <1>5, <1>6, <1>7, <1>8 DEF Next, TimerFires

\* A flush() call returns only once every snapshot scheduled before it has
\* been answered (debounce.ts:20-66), for any number of concurrent loops.
THEOREM FlushIsComplete == Spec => FlushDrains
  BY Invariance, StepReturnsDrained, PTL DEF Spec, FlushDrains

\* Every step of the saver is a step of SaveContract, or changes nothing the
\* contract can see.
LEMMA StepKeepsContract ==
    IInv /\ [Next]_vars => [Contract!ContractNext]_Contract!contractVars
<1> SUFFICES ASSUME IInv, [Next]_vars
             PROVE  [Contract!ContractNext]_Contract!contractVars
  OBVIOUS
<1>1. CASE Schedule
  BY <1>1 DEF Schedule, Enqueue, Contract!ContractNext, Contract!Request
<1>2. CASE Cancel
  <2>1. \A n \in waiters : n \in Snapshots /\ n \in 1..seq /\ answer[n] = Contract!Pending
    BY WaitersBounded, SaverAssumption DEF IInv, TypeOK, SnapshotOrNone, Snapshots,
       Contract!Snapshots
  <2>2. Contract!Abort(waiters)
    BY <1>2, <2>1 DEF Cancel, CancelTelling, Contract!Abort, Contract!IsPending
  <2>3. waiters \in SUBSET Contract!Snapshots
    BY <2>1 DEF Snapshots
  <2> QED BY <2>2, <2>3 DEF Contract!ContractNext
<1>3. ASSUME NEW task \in inflight, NEW ok \in BOOLEAN, Settle(task, ok)
      PROVE  Contract!ContractNext
  <2>1. task \in Task /\ task.job = running /\ running <= seq /\ durable < task.job
    BY DEF IInv, TypeOK, RunningNamesTask, InOrder
  <2>2. task.job \in (durable + 1)..seq /\ task.job \in Contract!Snapshots
    BY <2>1, SaverAssumption DEF IInv, TypeOK, Task, SnapshotOrNone, Snapshots,
       Contract!Snapshots
  <2>3. task.callers \in SUBSET Contract!Snapshots
    BY <2>1 DEF Task, Snapshots
  <2>4. \A n \in task.callers : n <= task.job /\ answer[n] = Contract!Pending
    BY DEF IInv, CallersAccounted
  <2>5. \A n \in task.callers : n \in 1..seq
    BY <2>1, <2>3, <2>4, SaverAssumption
    DEF IInv, TypeOK, Task, SnapshotOrNone, Contract!Snapshots
  <2>6. CASE ok
    <3>1. Contract!Save(task.job, task.callers)
      BY <1>3, <2>2, <2>4, <2>5, <2>6 DEF Settle, SettleTelling, Result, Contract!Save, Contract!IsPending
    <3> QED BY <3>1, <2>2, <2>3 DEF Contract!ContractNext
  <2>7. CASE ~ok
    <3>1. Contract!Fail(task.job, task.callers)
      BY <1>3, <2>4, <2>5, <2>7 DEF Settle, SettleTelling, Result, Contract!Fail, Contract!IsPending
    <3> QED BY <3>1, <2>2, <2>3 DEF Contract!ContractNext
  <2> QED BY <2>6, <2>7
<1>4. CASE \E f \in Flushers : Flush(f) \/ TimerFires(f) \/ Resume(f) \/ Rejoin(f)
  BY <1>4 DEF Flush, TimerFires, Resume, Rejoin, Contract!contractVars
<1>5. CASE UNCHANGED vars
  BY <1>5 DEF vars, Contract!contractVars
<1> QED BY <1>1, <1>2, <1>3, <1>4, <1>5 DEF Next

\* The debounced saver implements its contract: callers are answered once,
\* "saved" only when a snapshot at least as new as theirs has become durable,
\* and the durable snapshot never goes back to an older one.
THEOREM Refinement == Spec => KeepsContract
<1>1. Init => Contract!ContractInit
  BY DEF Init, Contract!ContractInit, Snapshots
<1> QED BY <1>1, Invariance, StepKeepsContract, PTL DEF Spec, KeepsContract, Contract!ContractSpec

\* No write of this saver stores an older snapshot over a newer one.
THEOREM DurableAdvances == Spec => DurableOnlyAdvances
<1>1. IInv /\ [Next]_vars => [durable' > durable]_durable
  <2> SUFFICES ASSUME IInv, [Next]_vars, durable' # durable PROVE durable' > durable
    OBVIOUS
  <2>1. Contract!ContractNext
    BY StepKeepsContract DEF Contract!contractVars
  <2>2. PICK j : j \in (durable + 1)..seq /\ durable' = j
    BY <2>1 DEF Contract!ContractNext, Contract!Request, Contract!Save, Contract!Fail,
       Contract!Abort
  <2> QED BY <2>2, SaverAssumption DEF IInv, TypeOK, SnapshotOrNone
<1> QED BY <1>1, Invariance, PTL DEF Spec, DurableOnlyAdvances

=============================================================================
