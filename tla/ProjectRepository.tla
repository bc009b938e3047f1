------------------------- MODULE ProjectRepository -------------------------
(***************************************************************************)
(* packages/project-storage: repository.ts and migration.ts, the durable   *)
(* workspace of one room as the calls of several tabs work on it.  A call  *)
(* opens the database, waits for its transaction, reads the record, writes *)
(* it, and hears of the commit later; an import and a migration read in a  *)
(* transaction of their own before.  IndexedDB is external: transactions   *)
(* that write run alone, and take effect when they commit or not at all,   *)
(* also when the page is closed.  Error codes are one answer, "declined",  *)
(* and a workspace is the set of its projects.  The expectedRevision that  *)
(* a caller may give to an import is left out: no caller gives one.        *)
(***************************************************************************)
EXTENDS Naturals, FiniteSets

CONSTANTS
    None,
    Clients, Requests,
    ProjectSet,     \* the projects that occur
    MaxProjects,    \* DEFAULT_MAX_RECORD_BYTES
    MaxCalls        \* bound on the calls

VARIABLES record, legacy, jobs, begun

repositoryVars == <<record, legacy, jobs, begun>>

Ops == {"load", "save", "clear", "import", "migrate"}
Request == [op : Ops, projects : SUBSET ProjectSet, project : ProjectSet, guarded : BOOLEAN, expected : Nat, replace : BOOLEAN]

Record == [readable : BOOLEAN, projects : SUBSET ProjectSet, revision : Nat \ {0}]
Job == [request : Requests,
        step : {"opening", "waiting", "active", "committed", "done"},
        writes : BOOLEAN,       \* in its readwrite transaction, or on the way there
        projects : SUBSET ProjectSet, guarded : BOOLEAN, expected : Nat,    \* what saveWorkspace was given
        found : Record \cup {None},
        puts : BOOLEAN, put : Record \cup {None},   \* put or delete was issued, with this outcome
        answer : {"open", "ok", "declined"},
        since : {"kept", "cleared"}]     \* ghost: the room was cleared since the call began


\* What is assumed of the constants: None is none of the values.
RequestsAreWellFormed ==
    /\ Requests \subseteq Request
    /\ None \notin Record /\ None \notin Job
    /\ None \notin [request : Requests, answer : {"open", "ok", "declined"}, found : Record \cup {None}, since : {"kept", "cleared"}]

RepositoryTypeOK ==
    /\ RequestsAreWellFormed
    /\ record \in Record \cup {None}
    /\ legacy \in [projects : SUBSET ProjectSet, there : BOOLEAN]
    /\ jobs \in [Clients -> Job \cup {None}]
    /\ begun \in Nat

\* A call is what it asked for and, from the moment it is decided, its answer.
Call(j) == IF j = None THEN None
           ELSE [request |-> j.request, answer |-> j.answer,
                 found |-> IF j.request.op = "load" /\ j.answer = "ok" THEN j.found ELSE None, since |-> j.since]
Atomic == INSTANCE WorkspaceRecord WITH calls <- [c \in Clients |-> Call(jobs[c])]

Revision(r) == Atomic!Revision(r)
Projects(r) == Atomic!Projects(r)

-----------------------------------------------------------------------------
RepositoryInit ==
    /\ record \in {None} \cup {[readable |-> b, projects |-> {}, revision |-> 1] : b \in BOOLEAN}
    /\ legacy \in {[projects |-> {p}, there |-> b] : p \in ProjectSet, b \in BOOLEAN}
    /\ jobs = [c \in Clients |-> None] /\ begun = 0

Becomes(c, j) == jobs' = [jobs EXCEPT ![c] = j]
Declined(j) == [j EXCEPT !.step = "done", !.answer = "declined"]

Begins(c) ==
    /\ jobs[c] = None /\ begun < MaxCalls /\ begun' = begun + 1
    /\ \E r \in Requests :
          Becomes(c, [request |-> r, step |-> "opening", writes |-> r.op \in {"save", "clear"},
                      projects |-> r.projects, guarded |-> r.guarded, expected |-> r.expected,
                      found |-> None, puts |-> FALSE, put |-> None, answer |-> "open", since |-> "kept"])
    /\ UNCHANGED <<record, legacy>>

\* openProjectStorageDatabase and the creation of the transaction.
OpenDatabase(c) ==
    /\ jobs[c] # None /\ jobs[c].step = "opening"
    /\ Becomes(c, [jobs[c] EXCEPT !.step = "waiting"]) \/ Becomes(c, Declined(jobs[c]))
    /\ UNCHANGED <<record, legacy, begun>>

Active(c) == jobs[c] # None /\ jobs[c].step = "active"
MayStart(c) == \A d \in Clients : Active(d) => ~jobs[c].writes /\ ~jobs[d].writes
Fits(projects) == Cardinality(projects) <= MaxProjects

\* The callback of the put: what it stores was read in the same transaction.
Puts_Unchecked(j) == j.request.op = "clear" \/ (Atomic!Readable(record) /\ Fits(j.projects))
Puts(j) == j.request.op = "clear" \/ (Atomic!Readable(record) /\ Atomic!Matches(record, j.guarded, j.expected) /\ Fits(j.projects))
Started(j) ==
    IF j.writes
    THEN [j EXCEPT !.step = "active", !.puts = Puts(j),
                   !.put = IF ~Puts(j) \/ j.request.op = "clear" THEN None ELSE Atomic!After(record, j.projects)]
    ELSE [j EXCEPT !.step = "active", !.found = record]
Reads(c) ==
    /\ jobs[c] # None /\ jobs[c].step = "waiting" /\ MayStart(c)
    /\ Becomes(c, Started(jobs[c]))
    /\ UNCHANGED <<record, legacy, begun>>

\* The transaction commits.  A save whose record was unreadable, changed or too
\* large has put nothing, and neither has a read.
Committed(j) ==
    [j EXCEPT !.step = "committed",
              !.answer = IF j.writes THEN (IF j.puts THEN "ok" ELSE "declined")
                         ELSE IF ~Atomic!Readable(j.found) THEN "declined"
                         ELSE IF j.request.op = "load" THEN "ok" ELSE "open"]
Commits(c) ==
    /\ Active(c)
    /\ LET j == jobs[c] IN
       /\ record' = IF j.puts THEN j.put ELSE record
       /\ jobs' = [d \in Clients |-> IF d = c THEN Committed(j)
                                     ELSE IF j.puts /\ j.put = None /\ jobs[d] # None THEN [jobs[d] EXCEPT !.since = "cleared"]
                                     ELSE jobs[d]]
    /\ UNCHANGED <<legacy, begun>>

Aborts(c) ==
    /\ Active(c) /\ Becomes(c, Declined(jobs[c]))
    /\ UNCHANGED <<record, legacy, begun>>

\* The call resumes after its commit: importProject, migrateLocalStorageWorkspace
\* and what awaits them.  Removing the legacy workspace is an option, and may fail.
Writes(j, projects, expected) ==
    [j EXCEPT !.step = "opening", !.writes = TRUE, !.projects = projects, !.guarded = TRUE, !.expected = expected]
GoesOn_Unguarded(j) ==
    IF j.request.op = "import" /\ Atomic!Collides(Projects(j.found), j.request.project) /\ ~j.request.replace THEN Declined(j)
    ELSE [Writes(j, Atomic!With(Projects(j.found), j.request.project), 0) EXCEPT !.guarded = FALSE]
GoesOn(j) ==
    IF j.request.op = "import"
    THEN IF Atomic!Collides(Projects(j.found), j.request.project) /\ ~j.request.replace THEN Declined(j)
         ELSE Writes(j, Atomic!With(Projects(j.found), j.request.project), Revision(j.found))
    ELSE IF j.found # None \/ ~legacy.there THEN Declined(j) ELSE Writes(j, legacy.projects, 0)
Resumes(c) ==
    /\ jobs[c] # None /\ jobs[c].step = "committed"
    /\ LET j == jobs[c] IN
       \/ j.answer = "open" /\ Becomes(c, GoesOn(j)) /\ UNCHANGED legacy
       \/ j.answer # "open" /\ Becomes(c, [j EXCEPT !.step = "done"]) /\ UNCHANGED legacy
       \/ /\ j.answer = "ok" /\ j.request.op = "migrate"
          /\ legacy' = [legacy EXCEPT !.there = FALSE] /\ UNCHANGED jobs
    /\ UNCHANGED <<record, begun>>

\* The caller has its answer, or the page is closed before.
Ends(c) ==
    /\ jobs[c] # None /\ Becomes(c, None)
    /\ UNCHANGED <<record, legacy, begun>>

RepositoryNext ==
    \E c \in Clients :
        \/ Begins(c) \/ OpenDatabase(c) \/ Reads(c) \/ Commits(c) \/ Aborts(c) \/ Resumes(c) \/ Ends(c)

RepositorySpec == RepositoryInit /\ [][RepositoryNext]_repositoryVars

-----------------------------------------------------------------------------
\* Calls of several tabs act as if each took effect in one step: a save with an
\* expected revision, an import and a migration never write over a record that
\* they have not read, a call that is declined has changed nothing, and a page
\* that closes loses only calls that were not answered.
RepositoryIsAtomic == Atomic!RecordSpec

\* The strengthening behind it: a transaction that writes runs alone, what it is
\* about to store follows from the record as it is, and what an import has read
\* is the record of that revision, as long as the room is not cleared.
WritesAreExclusive ==
    \A c, d \in Clients : Active(c) /\ Active(d) /\ c # d => ~jobs[c].writes /\ ~jobs[d].writes
IsCurrent(j) ==
    IF ~j.writes THEN j.found = record
    ELSE IF j.request.op = "clear" THEN j.puts /\ j.put = None
    ELSE j.puts => /\ Atomic!Readable(record) /\ Atomic!Matches(record, j.guarded, j.expected)
                   /\ j.put = Atomic!After(record, j.projects)
ActiveIsCurrent == \A c \in Clients : Active(c) => IsCurrent(jobs[c])
ReadIsOfRevision(j) ==
    /\ Atomic!Readable(j.found)
    /\ j.since = "kept" => /\ Revision(j.found) <= Revision(record)
                           /\ Revision(j.found) = Revision(record) => j.found = record
CallIsOnItsWay(j) ==
    LET op == j.request.op IN
    /\ op \in {"save", "clear"} => j.writes
    /\ op = "load" => ~j.writes
    /\ j.puts => j.writes
    /\ j.step \in {"opening", "waiting", "active"} => j.answer = "open"
    /\ j.step = "done" => j.answer # "open"
    /\ j.step = "committed" /\ j.answer = "open" => ~j.writes /\ op \in {"import", "migrate"}
    /\ op = "save" => j.projects = j.request.projects /\ j.guarded = j.request.guarded /\ j.expected = j.request.expected
    /\ op = "import" /\ j.writes =>
          /\ j.guarded /\ j.expected = Revision(j.found) /\ j.projects = Atomic!With(Projects(j.found), j.request.project)
          /\ j.request.replace \/ ~Atomic!Collides(Projects(j.found), j.request.project)
    /\ op = "migrate" /\ j.writes => j.guarded /\ j.expected = 0 /\ j.projects = legacy.projects
    /\ op = "import" /\ (j.writes \/ j.step = "committed") /\ j.answer = "open" => ReadIsOfRevision(j)
RepositoryIInv ==
    /\ RepositoryTypeOK /\ WritesAreExclusive /\ ActiveIsCurrent
    /\ \A c \in Clients : jobs[c] # None => CallIsOnItsWay(jobs[c])
=============================================================================
