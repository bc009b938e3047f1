------------------------- MODULE SimulationSessions -------------------------
(***************************************************************************)
(* The servers' simulation sessions: the orchestrator of the backend with  *)
(* its routes (orchestrator.py, routes/simulation.py), and the map of      *)
(* sessions at the edge (functions/api/_runtime.ts).  Each owner has       *)
(* requests and one socket.                                                *)
(*                                                                         *)
(* Nothing awaits inside an operation, so that each is one step.  A        *)
(* simulation is a function of its graph, its inputs and its time; the     *)
(* inputs are one sensor's.  An omitted session id is an unused one.       *)
(***************************************************************************)
EXTENDS Naturals, Sequences, FiniteSets, SequencesExt

CONSTANTS
    Owners, Ids,
    Projects,       \* graphs: records of id, and of the version that an edit makes
    Values,         \* of the sensor
    MaxSessions,
    MaxTime,        \* the longest duration that is simulated
    None

VARIABLES
    server,         \* "backend" or "edge"
    sessions, order, \* the sessions; by insertion in the backend, by last use at the edge
    default,        \* the backend's default session
    socket,         \* each owner's connection: its session and the inputs it was sent
    last            \* what the last operation found, was asked for and answered

sessionVars == <<server, sessions, order, default, socket, last>>

Live == {i \in Ids : sessions[i] # None}
Closed == [id |-> None, pending |-> None]
Clip(t) == IF t > MaxTime THEN MaxTime ELSE t
Merged(pending, value) == IF value = None THEN pending ELSE value
Session(o, p, value, t) == [owner |-> o, project |-> p, input |-> value, time |-> t, shows |-> [project |-> p, input |-> value, time |-> t]]
Says(o, op, i, asked, shows) == [by |-> o, op |-> op, found |-> sessions[i], asked |-> asked, shows |-> shows]
Quiet(o, op) == [by |-> o, op |-> op, found |-> None, asked |-> None, shows |-> None]
First(os) == IF os = <<>> THEN None ELSE Head(os)
Without(os, i) == IF \E n \in DOMAIN os : os[n] = i THEN RemoveAt(os, CHOOSE n \in DOMAIN os : os[n] = i) ELSE os

SessionsInit ==
    /\ server \in {"backend", "edge"}
    /\ sessions = [i \in Ids |-> None] /\ order = <<>> /\ default = None
    /\ socket = [o \in Owners |-> Closed]
    /\ last = Quiet(None, "none")

Put(i, r) == sessions' = [sessions EXCEPT ![i] = r]
Removed(i) ==
    /\ Put(i, None)
    /\ order' = Without(order, i)
    /\ default' = IF default = i THEN First(Without(order, i)) ELSE default

-----------------------------------------------------------------------------
(* The backend. *)

Owned(i, o) == sessions[i] = None \/ sessions[i].owner = o

\* create_session: not another owner's session, not one bound to another
\* project, and no new one beyond the capacity; an edited graph gets a new runner
MayCreate_LateCount(i, o, p) ==
    /\ Owned(i, o)
    /\ sessions[i] # None => sessions[i].project.id = p.id
    /\ sessions[i] = None => Cardinality(Live) <= MaxSessions
MayCreate(i, o, p) ==
    /\ Owned(i, o)
    /\ sessions[i] # None => sessions[i].project.id = p.id
    /\ sessions[i] = None => Cardinality(Live) < MaxSessions
Created_KeepsRunner(i, o, p) == IF sessions[i] = None THEN Session(o, p, None, 0) ELSE sessions[i]
Created(i, o, p) == IF sessions[i] = None \/ sessions[i].project # p THEN Session(o, p, None, 0) ELSE sessions[i]
Kept(i) == order' = (IF sessions[i] = None THEN Append(order, i) ELSE order) /\ default' = i

RunBackend(o, i, p, value, t, op) ==
    IF MayCreate(i, o, p)
    THEN LET runner == Created(i, o, p)
             ran == Session(o, runner.project, value, Clip(t))
         IN  /\ Put(i, ran) /\ Kept(i)
             /\ last' = Says(o, op, i, [project |-> p, input |-> value], ran.shows)
    ELSE last' = Quiet(o, "refused") /\ UNCHANGED <<sessions, order, default>>

\* the run route takes no inputs of a socket; a step continues with the
\* session's own, from where it is, and initializes it if it must
RequestRun(o, i, p, value, t) ==
    /\ server = "backend"
    /\ RunBackend(o, i, p, value, t, "run")
    /\ UNCHANGED <<server, socket>>
RequestStep(o, i, p, t) ==
    /\ server = "backend"
    /\ IF Owned(i, o) /\ (sessions[i] # None \/ MayCreate(i, o, p))
       THEN LET at == IF sessions[i] = None THEN Created(i, o, p) ELSE sessions[i]
                ran == Session(at.owner, at.project, at.input, Clip(at.time + t))
            IN  /\ Put(i, ran)
                /\ IF sessions[i] = None THEN Kept(i) ELSE UNCHANGED <<order, default>>
                /\ last' = Says(o, "step", i, [project |-> at.project, input |-> at.input], ran.shows)
       ELSE last' = Quiet(o, "refused") /\ UNCHANGED <<sessions, order, default>>
    /\ UNCHANGED <<server, socket>>

StopBackend(o, i, op) ==
    IF Owned(i, o) /\ sessions[i] # None
    THEN Removed(i) /\ last' = Says(o, op, i, None, None)
    ELSE last' = Quiet(o, "refused") /\ UNCHANGED <<sessions, order, default>>

\* a session that was idle for the time to live is gone for whoever comes next
Expires(i) ==
    /\ server = "backend" /\ sessions[i] # None
    /\ Removed(i) /\ last' = Quiet(None, "expires")
    /\ UNCHANGED <<server, socket>>

\* over a socket: its inputs are kept, and written to its session if it has one
SocketRunsBackend(o, i, p, value, t) ==
    LET target == IF i # None THEN i ELSE socket[o].id IN
    /\ server = "backend" /\ target # None
    /\ RunBackend(o, target, p, Merged(socket[o].pending, value), t, "socket-run")
    /\ socket' = IF MayCreate(target, o, p) THEN [socket EXCEPT ![o].id = target] ELSE socket
    /\ UNCHANGED server
SocketInput(o, value) ==
    LET i == socket[o].id IN
    /\ socket' = [socket EXCEPT ![o].pending = value]
    /\ IF server = "backend" /\ i # None
       THEN IF sessions[i] # None /\ Owned(i, o)
            THEN Put(i, [sessions[i] EXCEPT !.input = value]) /\ last' = Says(o, "input", i, None, None)
            ELSE last' = Quiet(o, "refused") /\ UNCHANGED sessions
       ELSE last' = Quiet(o, "input") /\ UNCHANGED sessions
    /\ UNCHANGED <<server, order, default>>

-----------------------------------------------------------------------------
(* The edge. *)

\* the http route evicts the sessions that were written longest ago; a socket does not
Latest(os) == IF Len(os) <= MaxSessions THEN os ELSE SubSeq(os, Len(os) - MaxSessions + 1, Len(os))
Allowed_Anyone(i, o) == TRUE
Allowed(i, o) == sessions[i] = None \/ sessions[i].owner = o
RunEdge(o, i, p, value, t, op) ==
    IF Allowed(i, o)
    THEN LET ran == Session(o, p, value, Clip(t))
             used == Append(Without(order, i), i)
             left == IF op = "run" THEN Latest(used) ELSE used
         IN  /\ sessions' = [j \in Ids |-> IF j = i THEN ran ELSE IF j \in ToSet(left) THEN sessions[j] ELSE None]
             /\ order' = left
             /\ last' = Says(o, op, i, [project |-> p, input |-> value], ran.shows)
    ELSE last' = Quiet(o, "refused") /\ UNCHANGED <<sessions, order>>

RunSimulation(o, i, p, value, t) ==
    /\ server = "edge"
    /\ RunEdge(o, i, p, value, t, "run")
    /\ UNCHANGED <<server, default, socket>>
StopEdge(o, i, op) ==
    IF Allowed(i, o)
    THEN Removed(i) /\ last' = Says(o, op, i, None, None)
    ELSE last' = Quiet(o, "refused") /\ UNCHANGED <<sessions, order, default>>

SocketRunsEdge(o, i, p, value, t) ==
    /\ server = "edge" /\ i # None
    /\ RunEdge(o, i, p, Merged(socket[o].pending, value), t, "socket-run")
    /\ socket' = IF Allowed(i, o) THEN [socket EXCEPT ![o].id = i] ELSE socket
    /\ UNCHANGED <<server, default>>

-----------------------------------------------------------------------------
RequestStop(o, i) ==
    /\ IF server = "backend" THEN StopBackend(o, i, "stop") ELSE StopEdge(o, i, "stop")
    /\ UNCHANGED <<server, socket>>

\* The edge's socket deletes the session that it ran last, whoever owns that
\* id by then.
SocketStop(o) ==
    LET i == socket[o].id IN
    /\ CASE i = None -> last' = Quiet(o, "socket-stop") /\ UNCHANGED <<sessions, order, default>>
         [] i # None /\ server = "backend" -> StopBackend(o, i, "socket-stop")
         [] i # None /\ server = "edge" -> Removed(i) /\ last' = Says(o, "deletes", i, None, None)
    /\ socket' = IF server = "backend" /\ i # None /\ ~Owned(i, o) THEN socket ELSE [socket EXCEPT ![o].id = None]
    /\ UNCHANGED server

\* the state of a session, or the value of a pin of the socket's session
Reads(o, i, op) ==
    /\ last' = IF sessions[i] # None /\ Allowed(i, o) THEN Says(o, op, i, None, sessions[i].shows) ELSE Quiet(o, "refused")
    /\ UNCHANGED <<server, sessions, order, default, socket>>
ReadState(o, i) == Reads(o, i, "state")
ReadPin(o) == socket[o].id # None /\ Reads(o, socket[o].id, "pin")

SocketCloses(o) ==
    /\ socket[o] # Closed
    /\ socket' = [socket EXCEPT ![o] = Closed] /\ last' = Quiet(o, "closes")
    /\ UNCHANGED <<server, sessions, order, default>>

Restarts ==
    /\ sessions' = [i \in Ids |-> None] /\ order' = <<>> /\ default' = None
    /\ socket' = [o \in Owners |-> Closed] /\ last' = Quiet(None, "restarts")
    /\ UNCHANGED server

SessionsNext ==
    \/ \E o \in Owners, i \in Ids, p \in Projects, value \in Values \cup {None}, t \in 1..MaxTime :
          RequestRun(o, i, p, value, t) \/ RunSimulation(o, i, p, value, t)
    \/ \E o \in Owners, i \in Ids \cup {None}, p \in Projects, value \in Values \cup {None}, t \in 1..MaxTime :
          SocketRunsBackend(o, i, p, value, t) \/ SocketRunsEdge(o, i, p, value, t)
    \/ \E o \in Owners, i \in Ids, p \in Projects, t \in 1..MaxTime : RequestStep(o, i, p, t)
    \/ \E o \in Owners, i \in Ids : RequestStop(o, i) \/ ReadState(o, i)
    \/ \E o \in Owners, value \in Values : SocketInput(o, value)
    \/ \E o \in Owners : SocketStop(o) \/ ReadPin(o) \/ SocketCloses(o)
    \/ \E i \in Ids : Expires(i)
    \/ Restarts

-----------------------------------------------------------------------------
\* What an operation reads, replaces or stops is a session of the owner that
\* asked, and a run shows the graph and the inputs that it was sent, those of
\* its socket included, however often ids are reused, evicted and edited.
AnswersAreOwn ==
    /\ last.found # None /\ last.op # "deletes" => last.found.owner = last.by
    /\ last.asked # None => last.shows.project = last.asked.project /\ last.shows.input = last.asked.input

\* The backend keeps to its capacity, and its default is a session that lives.
SessionsAreBounded ==
    server = "backend" =>
        /\ Cardinality(Live) <= MaxSessions
        /\ IF Live = {} THEN default = None ELSE default \in Live
=============================================================================
