---------------------------- MODULE SaveContract ----------------------------
(***************************************************************************)
(* What a debounced workspace saver promises the callers of schedule(),    *)
(* with no timer, queue or flush loop: packages/project-storage/src/       *)
(* types.ts, DebouncedWorkspaceSaver.  Snapshot number n is the n-th       *)
(* snapshot handed to the saver; its caller is told exactly once, and is   *)
(* told "saved" only in the very step that makes a snapshot at least as    *)
(* new as its own the stored one.                                          *)
(***************************************************************************)
EXTENDS Naturals

CONSTANT MaxSchedules   \* bound on the number of snapshots scheduled

VARIABLES
    seq,      \* number of snapshots scheduled so far
    answer,   \* what the caller of each snapshot has been told
    durable   \* the snapshot the repository holds, 0 when none was saved

contractVars == <<seq, answer, durable>>

Snapshots == 1..MaxSchedules

\* The StorageResult a caller's promise settles with; "job" is the snapshot
\* the write that answered it carried.
Pending == [status |-> "pending", job |-> 0]
Saved(j) == [status |-> "saved", job |-> j]
Failed(j) == [status |-> "failed", job |-> j]
Aborted == [status |-> "aborted", job |-> 0]

Answers == [status: {"pending", "saved", "failed", "aborted"}, job: 0..MaxSchedules]

IsPending(n) == n \in 1..seq /\ answer[n] = Pending

\* The answers after every caller in S has been told a.
Tell(S, a) == [n \in Snapshots |-> IF n \in S THEN a ELSE answer[n]]

-----------------------------------------------------------------------------

Request ==
    /\ seq < MaxSchedules
    /\ seq' = seq + 1
    /\ UNCHANGED <<answer, durable>>

\* A snapshot j newer than the stored one becomes durable, and callers whose
\* own snapshot is no newer than j learn that it is saved.
Save(j, S) ==
    /\ j \in (durable + 1)..seq
    /\ \A n \in S : IsPending(n) /\ n <= j
    /\ durable' = j
    /\ answer' = Tell(S, Saved(j))
    /\ UNCHANGED seq

Fail(j, S) ==
    /\ \A n \in S : IsPending(n) /\ n <= j
    /\ answer' = Tell(S, Failed(j))
    /\ UNCHANGED <<seq, durable>>

Abort(S) ==
    /\ \A n \in S : IsPending(n)
    /\ answer' = Tell(S, Aborted)
    /\ UNCHANGED <<seq, durable>>

ContractInit ==
    /\ seq = 0
    /\ answer = [n \in Snapshots |-> Pending]
    /\ durable = 0

ContractNext ==
    \/ Request
    \/ \E S \in SUBSET Snapshots :
          \/ \E j \in Snapshots : Save(j, S) \/ Fail(j, S)
          \/ Abort(S)

ContractSpec == ContractInit /\ [][ContractNext]_contractVars
=============================================================================
