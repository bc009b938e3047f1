----------------------------- MODULE CompileJobs -----------------------------
(***************************************************************************)
(* The browser toolchain's compile calls: CompilerManager (compiler.ts)    *)
(* with its timeout, the compiler that runs in a worker and its protocol   *)
(* (workerProtocol.ts), the handler inside the worker, and the AVR         *)
(* compiler around the toolchain's bridge (avrGccWasmCompiler.ts).         *)
(*                                                                         *)
(* A worker belongs to one call and is terminated with it, or, when it     *)
(* cannot be terminated, is shared: messages then reach every call that    *)
(* still listens.  Resolving a promise and the steps that await it are one *)
(* step: no timer, message or abort comes between.                         *)
(***************************************************************************)
EXTENDS Naturals, Sequences

CONSTANTS
    Jobs,           \* calls of compile
    Shared,         \* whether createWorker returns one worker for all of them
    MaxNoise        \* messages of a worker that answer no call

VARIABLES
    job,            \* the page's side of each call
    worker,         \* channels of each worker, and whether it runs
    handler,        \* the worker's side of each call
    noise

jobVars == <<job, worker, handler, noise>>

Modes == {"untimed", "timed"}   \* by the manager's timer, or by the worker compiler's own
WorkerOf(j) == IF Shared THEN CHOOSE k \in Jobs : TRUE ELSE j
Answered(j) == job[j].answer \notin {"none", "waits"}

JobsInit ==
    /\ job = [j \in Jobs |-> [answer |-> "none", mode |-> "untimed", aborted |-> FALSE, timer |-> FALSE,
                              expired |-> FALSE, listens |-> FALSE, from |-> j]]
    /\ worker = [j \in Jobs |-> [runs |-> FALSE, inbox |-> <<>>, outbox |-> <<>>]]
    /\ handler = [j \in Jobs |-> [stage |-> "none", cancelled |-> FALSE, product |-> "none"]]
    /\ noise = 0

Post(w, message) == [w EXCEPT !.inbox = IF w.runs THEN Append(@, message) ELSE @]
Terminated(w) == IF Shared THEN w ELSE [runs |-> FALSE, inbox |-> <<>>, outbox |-> <<>>]

-----------------------------------------------------------------------------
\* Answers without any work.  The manager looks for an abort first, the worker
\* compiler at the target that it supports.
Refuse(j, status) ==
    /\ job[j].answer = "none"
    /\ status = "cancelled" => job[j].aborted
    /\ job' = [job EXCEPT ![j].answer = status]
    /\ UNCHANGED <<worker, handler, noise>>

\* The request is posted, the listeners and the timer are installed.
Compile(j, mode) ==
    /\ job[j].answer = "none" /\ ~job[j].aborted
    /\ job' = [job EXCEPT ![j].answer = "waits", ![j].mode = mode, ![j].timer = (mode # "untimed"), ![j].listens = TRUE]
    /\ worker' = [worker EXCEPT ![WorkerOf(j)] = Post([@ EXCEPT !.runs = TRUE], [type |-> "compile", id |-> j])]
    /\ UNCHANGED <<handler, noise>>

CreateWorkerThrows(j) ==
    /\ job[j].answer = "none" /\ ~job[j].aborted
    /\ job' = [job EXCEPT ![j].answer = "failed"]
    /\ UNCHANGED <<worker, handler, noise>>

\* finish: once; listeners and timer go, and the worker is terminated.
Finished_KeepsTimer(b, status) == IF b.answer # "waits" THEN b ELSE [b EXCEPT !.answer = status, !.listens = FALSE]
Finished(b, status) ==
    IF b.answer # "waits" THEN b
    ELSE [b EXCEPT !.answer = status, !.listens = FALSE, !.timer = FALSE]

\* cancel: the worker is told before the call ends.
Cancelled(w, j) == Terminated(Post(w, [type |-> "cancel", id |-> j]))

Abort(j) ==
    /\ ~job[j].aborted /\ ~Answered(j)
    /\ job' = [job EXCEPT ![j] = Finished([@ EXCEPT !.aborted = TRUE], "cancelled")]
    /\ worker' = [worker EXCEPT ![WorkerOf(j)] = IF job[j].listens THEN Cancelled(@, j) ELSE @]
    /\ UNCHANGED <<handler, noise>>

\* The manager answers and then aborts the compiler, whose answer comes late;
\* the worker compiler's own timer cancels directly.
TimerFires(j) ==
    /\ job[j].timer
    /\ job' = [job EXCEPT ![j] = Finished([@ EXCEPT !.expired = TRUE], "timed-out")]
    /\ worker' = [worker EXCEPT ![WorkerOf(j)] = Cancelled(@, j)]
    /\ UNCHANGED <<handler, noise>>

-----------------------------------------------------------------------------
\* The page receives the next message of a worker.
Results == {"compiled", "failed", "cancelled"}
OnMessage_AnyRequest(j, message) ==
    LET b == job[j] IN
    CASE ~b.listens \/ message.type = "progress" -> b
      [] message.type \in Results -> Finished([b EXCEPT !.from = message.id], message.type)
      [] OTHER -> Finished(b, "failed")
OnMessage_ProgressStopsTimer(j, message) ==
    IF job[j].listens /\ message.type = "progress" THEN [job[j] EXCEPT !.timer = FALSE] ELSE job[j]
OnMessage(j, message) ==
    LET b == job[j] IN
    CASE ~b.listens -> b
      [] b.listens /\ message.type = "invalid" -> Finished(b, "failed")
      [] b.listens /\ message.type # "invalid" /\ (message.id # j \/ message.type = "progress") -> b
      [] OTHER -> Finished(b, message.type)

PageReceives(w) ==
    /\ worker[w].outbox # <<>>
    /\ job' = [j \in Jobs |-> IF WorkerOf(j) = w THEN OnMessage(j, Head(worker[w].outbox)) ELSE job[j]]
    /\ LET rest == [worker[w] EXCEPT !.outbox = Tail(@)]
           ends == \E j \in Jobs : WorkerOf(j) = w /\ job[j].listens /\ ~job'[j].listens
       IN  worker' = [worker EXCEPT ![w] = IF ends THEN Terminated(rest) ELSE rest]
    /\ UNCHANGED <<handler, noise>>

\* An error or messageerror event of a worker that runs.
WorkerError(w) ==
    /\ worker[w].runs /\ noise < MaxNoise
    /\ noise' = noise + 1
    /\ job' = [j \in Jobs |-> IF WorkerOf(j) = w /\ job[j].listens THEN Finished(job[j], "failed") ELSE job[j]]
    /\ worker' = [worker EXCEPT ![w] = Terminated(@)]
    /\ UNCHANGED handler

\* A worker posts what is no response of the protocol.
WorkerBabbles(w) ==
    /\ worker[w].runs /\ noise < MaxNoise
    /\ noise' = noise + 1
    /\ worker' = [worker EXCEPT ![w].outbox = Append(@, [type |-> "invalid", id |-> w])]
    /\ UNCHANGED <<job, handler>>

-----------------------------------------------------------------------------
Runs(j) == worker[WorkerOf(j)].runs
Posts(j, message) == worker' = [worker EXCEPT ![WorkerOf(j)].outbox = Append(@, [type |-> message, id |-> j])]

\* A cancel reaches only a compilation that still runs.
WorkerReceives(w) ==
    /\ worker[w].runs /\ worker[w].inbox # <<>>
    /\ LET message == Head(worker[w].inbox) IN
       handler' = [handler EXCEPT ![message.id] =
                     CASE message.type = "compile" -> [@ EXCEPT !.stage = "preparing"]
                       [] message.type = "cancel" /\ @.stage \in {"preparing", "bridge", "hashing"} -> [@ EXCEPT !.cancelled = TRUE]
                       [] OTHER -> @]
    /\ worker' = [worker EXCEPT ![w].inbox = Tail(@)]
    /\ UNCHANGED <<job, noise>>

\* The source is hashed, then the bridge is called and progress is posted.
Prepare(j) ==
    /\ Runs(j) /\ handler[j].stage = "preparing"
    /\ handler' = [handler EXCEPT ![j].stage = "bridge"]
    /\ Posts(j, "progress")
    /\ UNCHANGED <<job, noise>>

Ends(j, status) ==
    /\ handler' = [handler EXCEPT ![j].stage = "done"]
    /\ Posts(j, status)
    /\ UNCHANGED <<job, noise>>

\* The bridge throws, or its program is too large, or no target or no single
\* source file fits.
BridgeFails(j) ==
    /\ Runs(j) /\ handler[j].stage = "bridge"
    /\ Ends(j, IF handler[j].cancelled THEN "cancelled" ELSE "failed")

BridgeReturns(j, product) ==
    /\ Runs(j) /\ handler[j].stage = "bridge"
    /\ IF handler[j].cancelled THEN Ends(j, "cancelled")
       ELSE /\ handler' = [handler EXCEPT ![j].stage = "hashing", ![j].product = product]
            /\ UNCHANGED <<job, worker, noise>>

\* createIntelHexArtifact parses before it hashes.  A cancel during the hashing
\* comes too late for the worker.
ArtifactVerified_Unparsed(j) ==
    /\ Runs(j) /\ handler[j].stage = "hashing"
    /\ Ends(j, "compiled")
ArtifactVerified(j) ==
    /\ Runs(j) /\ handler[j].stage = "hashing"
    /\ Ends(j, CASE handler[j].product = "hex" -> "compiled"
                 [] handler[j].product # "hex" /\ handler[j].cancelled -> "cancelled"
                 [] OTHER -> "failed")

WorkerRuns(j) ==
    \/ Prepare(j)
    \/ BridgeFails(j)
    \/ \E product \in {"hex", "malformed"} : BridgeReturns(j, product)
    \/ ArtifactVerified(j)

JobsNext ==
    \/ \E j \in Jobs :
          \/ \E status \in {"cancelled", "unsupported", "blocked"} : Refuse(j, status)
          \/ \E mode \in Modes : Compile(j, mode)
          \/ CreateWorkerThrows(j)
          \/ Abort(j)
          \/ TimerFires(j)
          \/ WorkerRuns(j)
    \/ \E w \in Jobs : PageReceives(w) \/ WorkerError(w) \/ WorkerBabbles(w) \/ WorkerReceives(w)

-----------------------------------------------------------------------------
\* An answer says what happened to its own request: compiled by its worker from
\* its own source and verified, cancelled by its caller, or out of time.
AnswersAreOwn ==
    \A j \in Jobs :
        /\ job[j].from = j
        /\ job[j].answer = "compiled" => handler[j].product = "hex" /\ handler[j].stage = "done" /\ ~job[j].aborted
        /\ job[j].answer = "cancelled" => job[j].aborted
        /\ job[j].answer = "timed-out" => job[j].expired

\* A call that is answered leaves no timer, no listener and no worker behind.
NothingStaysBehind ==
    \A j \in Jobs : Answered(j) =>
        ~job[j].timer /\ ~job[j].listens /\ (Shared \/ ~worker[j].runs)

\* A call with a timeout is answered, whatever its worker does.
MustEnd(j) == j \in Jobs /\ job[j].answer = "waits" /\ job[j].mode # "untimed"
TimedCallsEnd == \A j \in Jobs : MustEnd(j) ~> Answered(j)
=============================================================================
