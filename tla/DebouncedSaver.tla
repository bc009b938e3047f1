--------------------------- MODULE DebouncedSaver ---------------------------
(***************************************************************************)
(* createDebouncedWorkspaceSaver of packages/project-storage/src/          *)
(* debounce.ts: a timer that is re-armed by every schedule(), a slot for   *)
(* the latest snapshot, and flush() loops - one per explicit flush() call  *)
(* and one per timer expiry - that may run concurrently and must take      *)
(* turns at repository.saveWorkspace.                                      *)
(*                                                                         *)
(* A snapshot is its number in the order of scheduling.  A flush loop runs *)
(* from one await to the next in a single step, as JavaScript runs it.     *)
(***************************************************************************)
EXTENDS Naturals

CONSTANTS
    MaxSchedules,   \* bound: snapshots handed to schedule()
    Flushers        \* bound: flush() loops that may be suspended at once

ASSUME SaverAssumption == MaxSchedules \in Nat

VARIABLES
    seq,        \* snapshots scheduled so far
    timer,      \* the timeout is armed
    latest,     \* the snapshot waiting to be saved, 0 for none
    waiters,    \* snapshots whose callers wait for the next save
    running,    \* the snapshot of the save in progress, 0 for none
    inflight,   \* saveWorkspace calls not yet settled, with the callers each answers
    pc,         \* flush loop: "idle", "own" (awaits its save), "join" (awaits another's)
    awaited,    \* the snapshot whose save a loop awaits
    since,      \* history: the newest snapshot when a loop was entered
    answer,     \* what each snapshot's caller has been told
    durable     \* the snapshot the repository holds

vars == <<seq, timer, latest, waiters, running, inflight, pc, awaited, since,
          answer, durable>>

Contract == INSTANCE SaveContract WITH seq <- seq, answer <- answer, durable <- durable

Snapshots == Contract!Snapshots
SnapshotOrNone == 0..MaxSchedules
Task == [job: Snapshots, callers: SUBSET Snapshots]
TaskDone(j) == \A task \in inflight : task.job # j

TypeOK ==
    /\ seq \in SnapshotOrNone
    /\ timer \in BOOLEAN
    /\ latest \in SnapshotOrNone
    /\ waiters \in SUBSET Snapshots
    /\ running \in SnapshotOrNone
    /\ inflight \in SUBSET Task
    /\ pc \in [Flushers -> {"idle", "own", "join"}]
    /\ awaited \in [Flushers -> SnapshotOrNone]
    /\ since \in [Flushers -> SnapshotOrNone]
    /\ answer \in [Snapshots -> Contract!Answers]
    /\ durable \in SnapshotOrNone

Init ==
    /\ seq = 0
    /\ timer = FALSE
    /\ latest = 0
    /\ waiters = {}
    /\ running = 0
    /\ inflight = {}
    /\ pc = [f \in Flushers |-> "idle"]
    /\ awaited = [f \in Flushers |-> 0]
    /\ since = [f \in Flushers |-> 0]
    /\ answer = [n \in Snapshots |-> Contract!Pending]
    /\ durable = 0

-----------------------------------------------------------------------------
(* schedule(): replace the waiting snapshot, add its caller, re-arm.       *)

Enqueue(callers, armed) ==
    /\ seq < MaxSchedules
    /\ seq' = seq + 1
    /\ latest' = seq + 1
    /\ waiters' = callers
    /\ timer' = armed
    /\ UNCHANGED <<running, inflight, pc, awaited, since, answer, durable>>

Schedule_NoTimer == Enqueue(waiters \cup {seq + 1}, timer)
Schedule_LosesWaiters == Enqueue({seq + 1}, TRUE)
Schedule_OffByOne == Enqueue(waiters \cup {seq}, TRUE)

Schedule == Enqueue(waiters \cup {seq + 1}, TRUE)

-----------------------------------------------------------------------------
(* One turn of flush()'s loop, from a resumption to the next await or the  *)
(* return.  "now" is the value of running the turn starts with; "armed"    *)
(* says whether the timer is armed.                                        *)

Join(f, now, armed) ==                  \* await the save another loop started
    /\ pc' = [pc EXCEPT ![f] = "join"]
    /\ awaited' = [awaited EXCEPT ![f] = now]
    /\ running' = now
    /\ timer' = armed
    /\ UNCHANGED <<latest, waiters, inflight>>

Claim(f) ==                             \* take latest and its callers, start a save
    /\ inflight' = inflight \cup {[job |-> latest, callers |-> waiters]}
    /\ running' = latest
    /\ awaited' = [awaited EXCEPT ![f] = latest]
    /\ pc' = [pc EXCEPT ![f] = "own"]
    /\ latest' = 0
    /\ waiters' = {}
    /\ timer' = FALSE

Return(f, now, armed) ==
    /\ pc' = [pc EXCEPT ![f] = "idle"]
    /\ running' = now
    /\ timer' = armed
    /\ UNCHANGED <<latest, waiters, inflight, awaited>>

Turn_IgnoresRunning(f, now, armed) ==
    \/ latest # 0 /\ Claim(f)
    \/ latest = 0 /\ Return(f, now, armed)

Turn_ReturnsWhileRunning(f, now, armed) ==
    \/ now = 0 /\ latest # 0 /\ Claim(f)
    \/ (now # 0 \/ latest = 0) /\ Return(f, now, armed)

Turn(f, now, armed) ==
    \/ now # 0 /\ Join(f, now, armed)
    \/ now = 0 /\ latest # 0 /\ Claim(f)
    \/ now = 0 /\ latest = 0 /\ Return(f, now, armed)

\* flush() clears the timer before it enters its loop; TimerFires is the same
\* call made by the timeout itself.
Flush(f) ==
    /\ pc[f] = "idle"
    /\ since' = [since EXCEPT ![f] = seq]
    /\ Turn(f, running, FALSE)
    /\ UNCHANGED <<seq, answer, durable>>

TimerFires(f) ==
    /\ timer
    /\ Flush(f)

\* The loop that started the save resumes: it is the first to await the
\* task, so it runs before any loop that joined it.
Resume(f) ==
    /\ pc[f] = "own"
    /\ TaskDone(awaited[f])
    /\ Turn(f, IF running = awaited[f] THEN 0 ELSE running, timer)
    /\ UNCHANGED <<seq, since, answer, durable>>

Rejoin(f) ==
    /\ pc[f] = "join"
    /\ running # awaited[f]
    /\ Turn(f, running, timer)
    /\ UNCHANGED <<seq, since, answer, durable>>

-----------------------------------------------------------------------------
(* repository.saveWorkspace settles, and its .then answers the callers the *)
(* task claimed.                                                           *)

Result(task, ok) ==
    IF ok THEN Contract!Saved(task.job) ELSE Contract!Failed(task.job)

SettleTelling(task, ok, callers) ==
    /\ inflight' = inflight \ {task}
    /\ durable' = IF ok THEN task.job ELSE durable
    /\ answer' = Contract!Tell(callers, Result(task, ok))
    /\ UNCHANGED <<seq, timer, latest, waiters, running, pc, awaited, since>>

Settle_AnswersAll(task, ok) == SettleTelling(task, ok, task.callers \cup waiters)

Settle(task, ok) == SettleTelling(task, ok, task.callers)

(* cancel(): drop the waiting snapshot and tell its callers; a save that   *)
(* already started goes on.                                                *)
CancelTelling(callers) ==
    /\ timer' = FALSE
    /\ latest' = 0
    /\ answer' = Contract!Tell(callers, Contract!Aborted)
    /\ waiters' = waiters \ callers
    /\ UNCHANGED <<seq, running, inflight, pc, awaited, since, durable>>

Cancel_KeepsCallers == CancelTelling({})

Cancel == CancelTelling(waiters)

Next ==
    \/ Schedule
    \/ Cancel
    \/ \E f \in Flushers : Flush(f) \/ TimerFires(f) \/ Resume(f) \/ Rejoin(f)
    \/ \E task \in inflight, ok \in BOOLEAN : Settle(task, ok)

\* The runtime expires timers, settles transactions and resumes loops; it
\* does not oblige anyone to call schedule(), flush() or cancel().
Fairness ==
    /\ WF_vars(\E f \in Flushers : TimerFires(f))
    /\ WF_vars(\E task \in inflight, ok \in BOOLEAN : Settle(task, ok))
    /\ \A f \in Flushers : WF_vars(Resume(f)) /\ WF_vars(Rejoin(f))

Spec == Init /\ [][Next]_vars
FairSpec == Spec /\ Fairness

-----------------------------------------------------------------------------
(* Properties.                                                             *)

\* At most one repository.saveWorkspace of this saver is unsettled at any
\* time, however many flush loops run: otherwise two transactions of one tab
\* could store an older snapshot over a newer one.
OneSaveInFlight == \A a, b \in inflight : a = b

\* A loop that is entered while others run never strands a snapshot: while a
\* snapshot waits, a timer is armed or some loop will still look at it.
NoLostSnapshot ==
    latest # 0 => timer \/ \E f \in Flushers : pc[f] # "idle"

\* When the "pending" getter is FALSE nobody is still waiting: the status
\* line says "saved" on the strength of it (projectPersistence.ts:485-493).
PendingIsHonest ==
    (latest = 0 /\ ~timer /\ running = 0)
        => \A n \in 1..seq : answer[n].status # "pending"

\* flush() returns only after every snapshot scheduled before the call has
\* been answered: an explicit Save "needs certainty" (projectPersistence.ts:466).
ReturnsDrained ==
    \A f \in Flushers : (pc[f] # "idle" \/ Flush(f)) /\ pc'[f] = "idle"
        => \A n \in 1..since'[f] : answer[n].status # "pending"

FlushDrains == [][ReturnsDrained]_vars

\* The stored snapshot only ever moves forward in scheduling order.
DurableOnlyAdvances == [][durable' > durable]_durable

\* Every caller is told, whatever the interleaving of loops and cancels.
EveryCallerAnswered ==
    \A n \in Snapshots : n <= seq ~> answer[n].status # "pending"

-----------------------------------------------------------------------------
(* The inductive invariant the proofs use.                                 *)

\* The one unsettled save is the one the field "running" names.
RunningNamesTask == \A task \in inflight : task.job = running

\* "running" is set exactly while the loop that set it has not resumed.
OwnerSetsRunning ==
    /\ \A f \in Flushers : pc[f] = "own" => running # 0 /\ awaited[f] = running
    /\ \A f, g \in Flushers : pc[f] = "own" /\ pc[g] = "own" => f = g

\* Snapshots move through the saver in the order they were scheduled.
InOrder ==
    /\ latest <= seq
    /\ running <= seq
    /\ durable <= seq
    /\ latest # 0 => running < latest /\ durable < latest
    /\ \A task \in inflight : durable < task.job
    /\ \A f \in Flushers : since[f] <= seq

\* A caller is unanswered exactly while the saver still owes it an answer.
CallersAccounted ==
    /\ \A n \in Snapshots : n > seq => answer[n] = Contract!Pending
    /\ \A n \in waiters : n <= latest /\ answer[n] = Contract!Pending
    /\ \A task \in inflight : \A n \in task.callers :
          n <= task.job /\ n \notin waiters /\ answer[n] = Contract!Pending
    /\ \A n \in 1..seq : answer[n].status = "pending" =>
          n \in waiters \/ \E task \in inflight : n \in task.callers

IInv ==
    /\ TypeOK
    /\ OneSaveInFlight
    /\ RunningNamesTask
    /\ OwnerSetsRunning
    /\ InOrder
    /\ CallersAccounted
    /\ NoLostSnapshot

-----------------------------------------------------------------------------

\* The saver keeps the promises of SaveContract.
KeepsContract == Contract!ContractSpec

=============================================================================
