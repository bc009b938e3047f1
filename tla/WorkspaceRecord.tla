-------------------------- MODULE WorkspaceRecord --------------------------
(***************************************************************************)
(* What packages/project-storage promises of a room's durable workspace:   *)
(* a record with a revision, which the calls of several tabs read and      *)
(* write as if each took effect in one step or not at all.  An import adds *)
(* its project to what the room holds in that step; only when the room was *)
(* cleared in the meantime may it bring back what it had read before.      *)
(* ProjectRepository implements it.                                        *)
(***************************************************************************)
EXTENDS Naturals

CONSTANTS
    None,
    Clients,    \* tabs of the room, each with one call at a time
    Requests

VARIABLES
    record,     \* the stored workspace, or None
    legacy,     \* an older version's workspace in localStorage
    calls       \* what each client asked for, and its answer

recordVars == <<record, legacy, calls>>

Readable(r) == r = None \/ r.readable
Revision(r) == IF r = None THEN 0 ELSE r.revision
Projects(r) == IF r = None THEN {} ELSE r.projects
After(r, projects) == [readable |-> TRUE, projects |-> projects, revision |-> Revision(r) + 1]

\* SaveWorkspaceOptions.expectedRevision, where 0 stands for null: no record.
Matches(r, guarded, expected) == guarded => Revision(r) = expected

Collides(projects, p) == \E q \in projects : q.id = p.id
With(projects, p) == {q \in projects : q.id # p.id} \cup {p}

Asked(c, op) == calls[c] # None /\ calls[c].answer = "open" /\ calls[c].request.op = op
Found(call, r) == [request |-> call.request, answer |-> "ok", found |-> r, since |-> call.since]
Answers(c) == calls' = [calls EXCEPT ![c].answer = "ok"]

-----------------------------------------------------------------------------
RecordInit == calls = [c \in Clients |-> None]

Ask(c) ==
    /\ calls[c] = None
    /\ \E r \in Requests :
          calls' = [calls EXCEPT ![c] = [request |-> r, answer |-> "open", found |-> None, since |-> "kept"]]
    /\ UNCHANGED <<record, legacy>>

\* A call that fails changes nothing.
Decline(c) ==
    /\ calls[c] # None /\ calls[c].answer = "open"
    /\ calls' = [calls EXCEPT ![c].answer = "declined"]
    /\ UNCHANGED <<record, legacy>>

LoadWorkspace(c) ==
    /\ Asked(c, "load") /\ Readable(record)
    /\ calls' = [calls EXCEPT ![c] = Found(calls[c], record)]
    /\ UNCHANGED <<record, legacy>>

SaveWorkspace(c) ==
    /\ Asked(c, "save") /\ Answers(c)
    /\ LET r == calls[c].request IN
       /\ Readable(record) /\ Matches(record, r.guarded, r.expected)
       /\ record' = After(record, r.projects)
    /\ UNCHANGED legacy

ClearWorkspace(c) ==
    /\ Asked(c, "clear") /\ record' = None
    /\ calls' = [d \in Clients |-> IF d = c THEN [calls[c] EXCEPT !.answer = "ok"]
                                   ELSE IF calls[d] = None THEN None ELSE [calls[d] EXCEPT !.since = "cleared"]]
    /\ UNCHANGED legacy

ImportProject(c) ==
    /\ Asked(c, "import") /\ Answers(c) /\ Readable(record)
    /\ LET r == calls[c].request IN
       \/ /\ r.replace \/ ~Collides(Projects(record), r.project)
          /\ record' = After(record, With(Projects(record), r.project))
       \/ /\ calls[c].since = "cleared"
          /\ record' = After(record, Projects(record')) /\ r.project \in Projects(record')
    /\ UNCHANGED legacy

\* The legacy workspace is taken over only where there is no record yet ...
MigrateLocalStorageWorkspace(c) ==
    /\ Asked(c, "migrate") /\ Answers(c) /\ record = None
    /\ record' = After(None, legacy.projects)
    /\ UNCHANGED legacy

\* ... and is removed only after that.
RemoveLegacy(c) ==
    /\ calls[c] # None /\ calls[c].request.op = "migrate" /\ calls[c].answer = "ok"
    /\ legacy' = [legacy EXCEPT !.there = FALSE]
    /\ UNCHANGED <<record, calls>>

\* The caller goes on, or its page is gone.
Leave(c) ==
    /\ calls[c] # None /\ calls' = [calls EXCEPT ![c] = None]
    /\ UNCHANGED <<record, legacy>>

RecordNext ==
    \E c \in Clients :
        \/ Ask(c) \/ Decline(c) \/ LoadWorkspace(c) \/ SaveWorkspace(c) \/ ClearWorkspace(c) \/ ImportProject(c)
        \/ MigrateLocalStorageWorkspace(c) \/ RemoveLegacy(c) \/ Leave(c)

RecordSpec == RecordInit /\ [][RecordNext]_recordVars
=============================================================================
