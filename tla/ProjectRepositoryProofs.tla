---------------------- MODULE ProjectRepositoryProofs ----------------------
(***************************************************************************)
(* Proofs about ProjectRepository for every set of tabs and of requests    *)
(* and every number of calls: RepositoryIInv is inductive, and from a      *)
(* state in which it holds every step of the transactions is a step of     *)
(* WorkspaceRecord or leaves what that describes as it is.                 *)
(***************************************************************************)
EXTENDS ProjectRepository, TLAPS

-----------------------------------------------------------------------------
(* What the helpers return.                                                *)

LEMMA AfterIsRecord ==
    ASSUME record \in Record \cup {None}, NEW projects \in SUBSET ProjectSet, None \notin Record
    PROVE  /\ Atomic!After(record, projects) \in Record /\ Atomic!After(record, projects) # None
           /\ Revision(Atomic!After(record, projects)) = Revision(record) + 1
           /\ Atomic!Readable(Atomic!After(record, projects))
           /\ Projects(Atomic!After(record, projects)) = projects
           /\ Revision(record) \in Nat
<1>1. Revision(record) \in Nat /\ Revision(record) + 1 \in Nat \ {0}
  BY DEF Record, Revision, Atomic!Revision
<1>2. Atomic!After(record, projects) = [readable |-> TRUE, projects |-> projects, revision |-> Revision(record) + 1]
  BY DEF Atomic!After, Revision
<1>3. Atomic!After(record, projects) \in Record
  BY <1>1, <1>2 DEF Record
<1>4. Atomic!After(record, projects) # None
  BY <1>3
<1> QED BY <1>1, <1>2, <1>3, <1>4 DEF Revision, Projects, Atomic!Revision, Atomic!Readable, Atomic!Projects

LEMMA WithIsProjects ==
    ASSUME NEW projects \in SUBSET ProjectSet, NEW p \in ProjectSet
    PROVE  Atomic!With(projects, p) \in SUBSET ProjectSet /\ p \in Atomic!With(projects, p)
  BY DEF Atomic!With

LEMMA ReadIsTyped ==
    ASSUME NEW r \in Record \cup {None}, None \notin Record
    PROVE  Revision(r) \in Nat /\ Projects(r) \in SUBSET ProjectSet
  BY DEF Record, Revision, Projects, Atomic!Revision, Atomic!Projects

\* A step of one call leaves the others as they are.
LEMMA BecomesOne ==
    ASSUME jobs \in [Clients -> Job \cup {None}], NEW c \in Clients, NEW j \in Job \cup {None}, Becomes(c, j)
    PROVE  /\ jobs' \in [Clients -> Job \cup {None}] /\ jobs'[c] = j
           /\ \A d \in Clients : d # c => jobs'[d] = jobs[d]
  BY DEF Becomes

LEMMA JobOfCall ==
    ASSUME RepositoryIInv, NEW c \in Clients, jobs[c] # None
    PROVE  /\ jobs[c] \in Job /\ CallIsOnItsWay(jobs[c])
           /\ jobs[c].request \in Request /\ jobs[c].request \in Requests
           /\ jobs[c].request.op \in Ops /\ jobs[c].request.projects \in SUBSET ProjectSet
           /\ jobs[c].request.project \in ProjectSet
  BY DEF RepositoryIInv, RepositoryTypeOK, RequestsAreWellFormed, Job, Request

\* What is current stays so while the record does.
LEMMA CurrentStays ==
    ASSUME NEW c \in Clients, IsCurrent(jobs'[c]), UNCHANGED record
    PROVE  IsCurrent(jobs[c])'
  BY DEF IsCurrent, Atomic!After, Atomic!Readable, Atomic!Matches, Atomic!Revision

-----------------------------------------------------------------------------
(* The inductive invariant.                                                *)

LEMMA InitEstablishes ==
    ASSUME RequestsAreWellFormed, RepositoryInit
    PROVE  RepositoryIInv
<1>1. RepositoryTypeOK
  BY DEF RepositoryInit, RepositoryTypeOK, Record
<1>2. \A c \in Clients : jobs[c] = None
  BY DEF RepositoryInit
<1> QED BY <1>1, <1>2 DEF RepositoryIInv, WritesAreExclusive, ActiveIsCurrent, Active

\* A step after which one call is not active and the record is what it was.
LEMMA QuietStep ==
    ASSUME RepositoryIInv, NEW c \in Clients, NEW j \in Job \cup {None}, Becomes(c, j),
           j # None => j.step # "active" /\ CallIsOnItsWay(j),
           UNCHANGED <<record, legacy>>, begun' \in Nat
    PROVE  RepositoryIInv'
<1>1. /\ jobs' \in [Clients -> Job \cup {None}] /\ jobs'[c] = j
      /\ \A d \in Clients : d # c => jobs'[d] = jobs[d]
  BY BecomesOne DEF RepositoryIInv, RepositoryTypeOK
<1>2. RepositoryTypeOK'
  BY <1>1 DEF RepositoryIInv, RepositoryTypeOK, RequestsAreWellFormed
<1>3. \A d \in Clients : Active(d)' => d # c /\ Active(d) /\ jobs'[d] = jobs[d]
  BY <1>1 DEF Active
<1>4. WritesAreExclusive' /\ ActiveIsCurrent'
  BY <1>3, CurrentStays DEF RepositoryIInv, WritesAreExclusive, ActiveIsCurrent
<1>5. ASSUME NEW d \in Clients, jobs'[d] # None
      PROVE  CallIsOnItsWay(jobs[d])'
  <2>1. CallIsOnItsWay(jobs'[d])
    BY <1>1, <1>5 DEF RepositoryIInv
  <2> QED BY <2>1 DEF CallIsOnItsWay, ReadIsOfRevision
<1> QED BY <1>2, <1>4, <1>5 DEF RepositoryIInv

LEMMA BeginsPreserves ==
    ASSUME RepositoryIInv, NEW c \in Clients, Begins(c)
    PROVE  RepositoryIInv'
<1>1. PICK r \in Requests :
          Becomes(c, [request |-> r, step |-> "opening", writes |-> r.op \in {"save", "clear"},
                      projects |-> r.projects, guarded |-> r.guarded, expected |-> r.expected,
                      found |-> None, puts |-> FALSE, put |-> None, answer |-> "open", since |-> "kept"])
  BY DEF Begins
<1> DEFINE j == [request |-> r, step |-> "opening", writes |-> r.op \in {"save", "clear"},
                 projects |-> r.projects, guarded |-> r.guarded, expected |-> r.expected,
                 found |-> None, puts |-> FALSE, put |-> None, answer |-> "open", since |-> "kept"]
<1>2. r \in Request
  BY DEF RepositoryIInv, RepositoryTypeOK, RequestsAreWellFormed
<1>3. j \in Job /\ j.step # "active"
  BY <1>2 DEF Job, Request
<1>4. CallIsOnItsWay(j)
  BY <1>2 DEF CallIsOnItsWay, Request, Ops
<1>5. begun' \in Nat /\ UNCHANGED <<record, legacy>>
  BY DEF Begins, RepositoryIInv, RepositoryTypeOK
<1> QED BY <1>1, <1>3, <1>4, <1>5, QuietStep

LEMMA DeclinedIsOnItsWay ==
    ASSUME NEW j \in Job, CallIsOnItsWay(j), j.answer = "open"
    PROVE  Declined(j) \in Job /\ CallIsOnItsWay(Declined(j)) /\ Declined(j).step # "active"
<1>1. Declined(j) \in Job
  BY DEF Declined, Job
<1>2. CallIsOnItsWay(Declined(j)) /\ Declined(j).step # "active"
  BY DEF Declined, Job, CallIsOnItsWay
<1> QED BY <1>1, <1>2

LEMMA OpenDatabasePreserves ==
    ASSUME RepositoryIInv, NEW c \in Clients, OpenDatabase(c)
    PROVE  RepositoryIInv'
<1> DEFINE j == jobs[c]
           w == [j EXCEPT !.step = "waiting"]
<1>1. /\ j # None /\ j.step = "opening" /\ (Becomes(c, w) \/ Becomes(c, Declined(j)))
      /\ UNCHANGED <<record, legacy>> /\ begun' \in Nat
  BY DEF OpenDatabase, RepositoryIInv, RepositoryTypeOK
<1>2. j \in Job /\ CallIsOnItsWay(j) /\ j.answer = "open"
  BY <1>1, JobOfCall DEF CallIsOnItsWay
<1>3. CASE Becomes(c, w)
  <2>1. w \in Job /\ w.step # "active"
    BY <1>2 DEF Job
  <2>2. CallIsOnItsWay(w)
    BY <1>1, <1>2 DEF Job, CallIsOnItsWay, ReadIsOfRevision
  <2> QED BY <1>1, <1>3, <2>1, <2>2, QuietStep
<1>4. CASE Becomes(c, Declined(j))
  BY <1>1, <1>2, <1>4, DeclinedIsOnItsWay, QuietStep
<1> QED BY <1>1, <1>3, <1>4

LEMMA AbortsPreserves ==
    ASSUME RepositoryIInv, NEW c \in Clients, Aborts(c)
    PROVE  RepositoryIInv'
<1>1. /\ jobs[c] # None /\ jobs[c].step = "active" /\ Becomes(c, Declined(jobs[c]))
      /\ UNCHANGED <<record, legacy>> /\ begun' \in Nat
  BY DEF Aborts, Active, RepositoryIInv, RepositoryTypeOK
<1>2. jobs[c] \in Job /\ CallIsOnItsWay(jobs[c]) /\ jobs[c].answer = "open"
  BY <1>1, JobOfCall DEF CallIsOnItsWay
<1> QED BY <1>1, <1>2, DeclinedIsOnItsWay, QuietStep

LEMMA EndsPreserves ==
    ASSUME RepositoryIInv, NEW c \in Clients, Ends(c)
    PROVE  RepositoryIInv'
  BY QuietStep DEF Ends, RepositoryIInv, RepositoryTypeOK

\* What an import or a migration writes follows from what it has read.
LEMMA GoesOnIsOnItsWay ==
    ASSUME RepositoryIInv, NEW c \in Clients, jobs[c] # None, jobs[c].step = "committed", jobs[c].answer = "open"
    PROVE  LET g == GoesOn(jobs[c]) IN g \in Job /\ CallIsOnItsWay(g) /\ g.step # "active"
<1> DEFINE j == jobs[c]
           import == Writes(j, Atomic!With(Projects(j.found), j.request.project), Revision(j.found))
           migration == Writes(j, legacy.projects, 0)
<1>1. j \in Job /\ CallIsOnItsWay(j) /\ j.request.project \in ProjectSet /\ ~j.writes
  BY JobOfCall DEF CallIsOnItsWay
<1>2. Declined(j) \in Job /\ CallIsOnItsWay(Declined(j)) /\ Declined(j).step # "active"
  BY <1>1, DeclinedIsOnItsWay
<1>3. CASE j.request.op = "import" /\ ~(Atomic!Collides(Projects(j.found), j.request.project) /\ ~j.request.replace)
  <2>1. /\ Revision(j.found) \in Nat
        /\ Atomic!With(Projects(j.found), j.request.project) \in SUBSET ProjectSet
    BY <1>1, ReadIsTyped, WithIsProjects DEF Job, RepositoryIInv, RepositoryTypeOK, RequestsAreWellFormed
  <2>2. import \in Job /\ import.step # "active"
    BY <1>1, <2>1 DEF Job, Writes
  <2>3. ReadIsOfRevision(j)
    BY <1>1, <1>3 DEF CallIsOnItsWay
  <2>4. CallIsOnItsWay(import)
    BY <1>1, <1>3, <2>1, <2>3 DEF Job, Writes, CallIsOnItsWay, ReadIsOfRevision
  <2> QED BY <1>3, <2>2, <2>4 DEF GoesOn
<1>4. CASE j.request.op = "migrate" /\ j.found = None /\ legacy.there
  <2>1. migration \in Job /\ migration.step # "active"
    BY <1>1 DEF Job, Writes, RepositoryIInv, RepositoryTypeOK
  <2>2. CallIsOnItsWay(migration)
    BY <1>1, <1>4 DEF Job, Writes, CallIsOnItsWay
  <2> QED BY <1>4, <2>1, <2>2 DEF GoesOn
<1>5. j.request.op \in {"import", "migrate"}
  BY <1>1 DEF CallIsOnItsWay
<1> QED BY <1>2, <1>3, <1>4, <1>5 DEF GoesOn

LEMMA ResumesPreserves ==
    ASSUME RepositoryIInv, NEW c \in Clients, Resumes(c)
    PROVE  RepositoryIInv'
<1> DEFINE j == jobs[c]
           done == [j EXCEPT !.step = "done"]
<1>1. /\ j # None /\ j.step = "committed" /\ begun' \in Nat /\ UNCHANGED record
      /\ j \in Job /\ CallIsOnItsWay(j)
  BY JobOfCall DEF Resumes, RepositoryIInv, RepositoryTypeOK
<1>2. CASE j.answer = "open" /\ Becomes(c, GoesOn(j)) /\ UNCHANGED legacy
  BY <1>1, <1>2, GoesOnIsOnItsWay, QuietStep
<1>3. CASE j.answer # "open" /\ Becomes(c, done) /\ UNCHANGED legacy
  <2>1. done \in Job /\ done.step # "active"
    BY <1>1 DEF Job
  <2>2. CallIsOnItsWay(done)
    BY <1>1, <1>3 DEF Job, CallIsOnItsWay
  <2> QED BY <1>1, <1>3, <2>1, <2>2, QuietStep
<1>4. CASE legacy' = [legacy EXCEPT !.there = FALSE] /\ UNCHANGED jobs
  <2>1. RepositoryTypeOK' /\ legacy'.projects = legacy.projects
    BY <1>1, <1>4 DEF RepositoryIInv, RepositoryTypeOK, RequestsAreWellFormed
  <2>2. WritesAreExclusive' /\ ActiveIsCurrent'
    BY <1>1, <1>4, CurrentStays DEF RepositoryIInv, WritesAreExclusive, ActiveIsCurrent, Active
  <2>3. \A d \in Clients : jobs'[d] # None => CallIsOnItsWay(jobs[d])'
    BY <1>1, <1>4, <2>1 DEF RepositoryIInv, CallIsOnItsWay, ReadIsOfRevision
  <2> QED BY <2>1, <2>2, <2>3 DEF RepositoryIInv
<1> QED BY <1>1, <1>2, <1>3, <1>4 DEF Resumes

\* What the callbacks of the transaction make of a call.
LEMMA StartedIsOnItsWay ==
    ASSUME RepositoryIInv, NEW c \in Clients, jobs[c] # None, jobs[c].step = "waiting"
    PROVE  LET j == jobs[c]  n == Started(j) IN
           /\ n \in Job /\ n.step = "active" /\ CallIsOnItsWay(n) /\ IsCurrent(n)
           /\ n.writes = j.writes /\ n.request = j.request /\ n.answer = j.answer /\ n.since = j.since /\ j.answer = "open"
<1> DEFINE j == jobs[c]
           put == IF ~Puts(j) \/ j.request.op = "clear" THEN None ELSE Atomic!After(record, j.projects)
           w == [j EXCEPT !.step = "active", !.puts = Puts(j), !.put = put]
           r == [j EXCEPT !.step = "active", !.found = record]
<1>1. j \in Job /\ CallIsOnItsWay(j) /\ j.answer = "open" /\ j.projects \in SUBSET ProjectSet
  BY JobOfCall DEF CallIsOnItsWay, Job
<1>2. /\ record \in Record \cup {None} /\ None \notin Record
      /\ Atomic!After(record, j.projects) \in Record
  BY <1>1, AfterIsRecord DEF RepositoryIInv, RepositoryTypeOK, RequestsAreWellFormed
<1>3. CASE j.writes
  <2>1. Puts(j) \in BOOLEAN
    BY <1>1, <1>2 DEF Puts, Record, Job, Atomic!Readable, Atomic!Matches
  <2>2. w \in Job /\ w.step = "active"
    BY <1>1, <1>2, <2>1 DEF Job
  <2>3. /\ w.request = j.request /\ w.writes = j.writes /\ w.projects = j.projects /\ w.guarded = j.guarded
        /\ w.expected = j.expected /\ w.found = j.found /\ w.puts = Puts(j) /\ w.put = put
        /\ w.answer = j.answer /\ w.since = j.since
    BY <1>1 DEF Job
  <2>4. Started(j) = w
    BY <1>3 DEF Started
  <2> HIDE DEF w
  <2>5. CallIsOnItsWay(w)
    BY <1>1, <1>3, <2>1, <2>2, <2>3 DEF CallIsOnItsWay, ReadIsOfRevision
  <2>6. IsCurrent(w)
    BY <1>3, <2>3 DEF IsCurrent, Puts
  <2> QED BY <1>1, <2>2, <2>3, <2>4, <2>5, <2>6
<1>4. CASE ~j.writes
  <2>1. /\ r \in Job /\ r.step = "active" /\ r.request = j.request /\ r.writes = j.writes /\ r.puts = j.puts
        /\ r.found = record /\ r.answer = j.answer /\ r.since = j.since
    BY <1>1, <1>2 DEF Job
  <2>2. Started(j) = r
    BY <1>4 DEF Started
  <2> HIDE DEF r
  <2>3. CallIsOnItsWay(r)
    BY <1>1, <1>4, <2>1, JobOfCall DEF CallIsOnItsWay, Ops
  <2>4. IsCurrent(r)
    BY <1>4, <2>1 DEF IsCurrent
  <2> QED BY <1>1, <2>1, <2>2, <2>3, <2>4
<1> QED BY <1>3, <1>4

LEMMA ReadsPreserves ==
    ASSUME RepositoryIInv, NEW c \in Clients, Reads(c)
    PROVE  RepositoryIInv'
<1> DEFINE j == jobs[c]
           n == Started(j)
<1>1. /\ j # None /\ j.step = "waiting" /\ MayStart(c) /\ Becomes(c, n)
      /\ UNCHANGED <<record, legacy, begun>>
  BY DEF Reads
<1>2. n \in Job /\ n.step = "active" /\ CallIsOnItsWay(n) /\ IsCurrent(n) /\ n.writes = j.writes
  BY <1>1, StartedIsOnItsWay
<1> HIDE DEF n
<1>3. /\ jobs' \in [Clients -> Job \cup {None}] /\ jobs'[c] = n /\ n # None
      /\ \A d \in Clients : d # c => jobs'[d] = jobs[d]
  BY <1>1, <1>2, BecomesOne DEF RepositoryIInv, RepositoryTypeOK, RequestsAreWellFormed
<1>4. RepositoryTypeOK'
  BY <1>1, <1>3 DEF RepositoryIInv, RepositoryTypeOK, RequestsAreWellFormed
<1>5. \A d \in Clients : Active(d)' /\ d # c => Active(d) /\ jobs'[d] = jobs[d]
  BY <1>3 DEF Active
<1>6. WritesAreExclusive'
  <2>1. ASSUME NEW d \in Clients, Active(d)', d # c
        PROVE  ~j.writes /\ ~jobs[d].writes
    BY <1>1, <1>5, <2>1 DEF MayStart
  <2> QED BY <1>2, <1>3, <1>5, <2>1 DEF RepositoryIInv, WritesAreExclusive
<1>7. ActiveIsCurrent'
  BY <1>1, <1>2, <1>3, <1>5, CurrentStays DEF RepositoryIInv, ActiveIsCurrent
<1>8. ASSUME NEW d \in Clients, jobs'[d] # None
       PROVE  CallIsOnItsWay(jobs[d])'
  <2>1. CallIsOnItsWay(jobs'[d])
    BY <1>2, <1>3, <1>8 DEF RepositoryIInv
  <2> QED BY <1>1, <2>1 DEF CallIsOnItsWay, ReadIsOfRevision
<1> QED BY <1>4, <1>6, <1>7, <1>8 DEF RepositoryIInv

\* The commit of a call that may have put a new record, or deleted it.
LEMMA CommittedIsOnItsWay ==
    ASSUME RepositoryIInv, NEW c \in Clients, Active(c)
    PROVE  LET j == jobs[c] IN
           /\ j \in Job /\ j # None /\ CallIsOnItsWay(j) /\ IsCurrent(j) /\ j.answer = "open"
           /\ Committed(j) \in Job /\ Committed(j).step = "committed"
           /\ CallIsOnItsWay(Committed(j)) /\ (Committed(j).answer = "open" => ~j.puts)
<1> DEFINE j == jobs[c]
           answer == IF j.writes THEN (IF j.puts THEN "ok" ELSE "declined")
                     ELSE IF ~Atomic!Readable(j.found) THEN "declined"
                     ELSE IF j.request.op = "load" THEN "ok" ELSE "open"
           w == Committed(j)
<1>1. j # None /\ j.step = "active"
  BY DEF Active
<1>2. /\ j \in Job /\ CallIsOnItsWay(j) /\ IsCurrent(j) /\ j.request.op \in Ops
      /\ record \in Record \cup {None} /\ None \notin Record
  BY <1>1, JobOfCall DEF RepositoryIInv, RepositoryTypeOK, RequestsAreWellFormed, ActiveIsCurrent
<1>3. j.answer = "open" /\ (j.puts => j.writes)
  BY <1>1, <1>2 DEF CallIsOnItsWay
<1>4. answer \in {"open", "ok", "declined"} /\ w = [j EXCEPT !.step = "committed", !.answer = answer]
  BY DEF Committed
<1>5. w \in Job /\ w.step = "committed" /\ w.answer = answer
  BY <1>2, <1>4 DEF Job
<1>6. /\ w.request = j.request /\ w.writes = j.writes /\ w.puts = j.puts /\ w.projects = j.projects
      /\ w.guarded = j.guarded /\ w.expected = j.expected /\ w.found = j.found /\ w.since = j.since
  BY <1>2, <1>4 DEF Job
<1>7. w.answer = "open" => ~j.puts /\ ~j.writes /\ Atomic!Readable(j.found) /\ j.found = record /\ j.request.op # "load"
  BY <1>2, <1>3, <1>5 DEF IsCurrent
<1>8. w.answer = "open" => ReadIsOfRevision(w)
  BY <1>2, <1>6, <1>7, ReadIsTyped DEF ReadIsOfRevision
<1>9. CallIsOnItsWay(w)
  BY <1>2, <1>3, <1>5, <1>6, <1>7, <1>8 DEF CallIsOnItsWay, Ops
<1> QED BY <1>1, <1>2, <1>3, <1>5, <1>7, <1>9

LEMMA CommitsPreserves ==
    ASSUME RepositoryIInv, NEW c \in Clients, Commits(c)
    PROVE  RepositoryIInv'
<1> DEFINE j == jobs[c]
           Cleared(d) == IF j.puts /\ j.put = None /\ jobs[d] # None THEN [jobs[d] EXCEPT !.since = "cleared"] ELSE jobs[d]
<1>1. /\ j \in Job /\ j # None /\ CallIsOnItsWay(j) /\ IsCurrent(j) /\ Active(c)
      /\ Committed(j) \in Job /\ Committed(j).step = "committed"
      /\ CallIsOnItsWay(Committed(j)) /\ (Committed(j).answer = "open" => ~j.puts)
  BY CommittedIsOnItsWay DEF Commits
<1>2. /\ record' = (IF j.puts THEN j.put ELSE record) /\ UNCHANGED <<legacy, begun>>
      /\ jobs' = [d \in Clients |-> IF d = c THEN Committed(j) ELSE Cleared(d)]
  BY DEF Commits
<1>3. /\ None \notin Job /\ None \notin Record /\ record \in Record \cup {None}
      /\ jobs \in [Clients -> Job \cup {None}]
  BY DEF RepositoryIInv, RepositoryTypeOK, RequestsAreWellFormed
<1>4. /\ jobs'[c] = Committed(j)
      /\ \A d \in Clients : d # c => jobs'[d] = Cleared(d)
  BY <1>2
<1>5. ASSUME NEW d \in Clients
      PROVE  /\ Cleared(d) \in Job \cup {None} /\ (Cleared(d) = None <=> jobs[d] = None)
             /\ jobs[d] # None =>
                   /\ Cleared(d).step = jobs[d].step /\ Cleared(d).request = jobs[d].request
                   /\ Cleared(d).writes = jobs[d].writes /\ Cleared(d).puts = jobs[d].puts /\ Cleared(d).put = jobs[d].put
                   /\ Cleared(d).projects = jobs[d].projects /\ Cleared(d).guarded = jobs[d].guarded
                   /\ Cleared(d).expected = jobs[d].expected /\ Cleared(d).found = jobs[d].found
                   /\ Cleared(d).answer = jobs[d].answer
                   /\ Cleared(d).since = (IF j.puts /\ j.put = None THEN "cleared" ELSE jobs[d].since)
  BY <1>3 DEF Job
<1> HIDE DEF Cleared
<1>6. RepositoryTypeOK'
  <2>1. jobs' \in [Clients -> Job \cup {None}]
    BY <1>1, <1>2, <1>5
  <2>2. record' \in Record \cup {None}
    BY <1>1, <1>2, <1>3 DEF Job
  <2> QED BY <1>2, <2>1, <2>2 DEF RepositoryIInv, RepositoryTypeOK, RequestsAreWellFormed
<1>7. ASSUME NEW d \in Clients, Active(d)'
      PROVE  d # c /\ Active(d) /\ jobs[d] # None /\ jobs'[d] = Cleared(d)
  BY <1>1, <1>4, <1>5, <1>7 DEF Active
<1>8. WritesAreExclusive'
  BY <1>5, <1>7 DEF RepositoryIInv, WritesAreExclusive
<1>9. ActiveIsCurrent'
  <2> SUFFICES ASSUME NEW d \in Clients, Active(d)'
               PROVE  IsCurrent(jobs[d])'
    BY DEF ActiveIsCurrent
  <2>1. ~j.writes /\ ~j.puts
    BY <1>1, <1>7 DEF RepositoryIInv, WritesAreExclusive, CallIsOnItsWay
  <2>2. UNCHANGED record /\ jobs'[d] = jobs[d]
    BY <1>2, <1>7, <2>1 DEF Cleared
  <2> QED BY <1>7, <2>2, CurrentStays DEF RepositoryIInv, ActiveIsCurrent
<1>10. ASSUME NEW d \in Clients, jobs'[d] # None
       PROVE  CallIsOnItsWay(jobs[d])'
  <2>1. CASE d = c
    <3>1. CallIsOnItsWay(jobs'[d]) /\ (jobs'[d].answer = "open" => UNCHANGED record)
      BY <1>1, <1>2, <1>4, <2>1
    <3> QED BY <1>2, <3>1 DEF CallIsOnItsWay, ReadIsOfRevision
  <2>2. CASE d # c
    <3>1. /\ jobs'[d] = Cleared(d) /\ jobs[d] # None /\ CallIsOnItsWay(jobs[d]) /\ jobs[d] \in Job
      BY <1>4, <1>5, <1>10, <2>2, JobOfCall DEF RepositoryIInv
    <3>2. ReadIsOfRevision(jobs[d]) => ReadIsOfRevision(jobs[d])'
      <4> SUFFICES ASSUME ReadIsOfRevision(jobs[d])
                   PROVE  ReadIsOfRevision(jobs[d])'
        OBVIOUS
      <4>1. CASE ~j.puts
        BY <1>2, <1>5, <3>1, <4>1 DEF ReadIsOfRevision
      <4>2. CASE j.puts /\ j.put = None
        BY <1>5, <3>1, <4>2 DEF ReadIsOfRevision
      <4>3. CASE j.puts /\ j.put # None
        <5>1. record' = Atomic!After(record, j.projects) /\ j.projects \in SUBSET ProjectSet
          BY <1>1, <1>2, <4>3 DEF IsCurrent, Job, CallIsOnItsWay
        <5>2. Revision(record') = Revision(record) + 1 /\ Revision(record) \in Nat
          BY <1>3, <5>1, AfterIsRecord
        <5>3. Revision(jobs[d].found) \in Nat
          BY <1>3, <3>1, ReadIsTyped DEF Job
        <5>4. /\ jobs'[d].found = jobs[d].found /\ (jobs'[d].since = "kept" => jobs[d].since = "kept")
              /\ Atomic!Readable(jobs[d].found)
          BY <1>5, <3>1 DEF ReadIsOfRevision
        <5>5. jobs[d].since = "kept" => Revision(jobs[d].found) <= Revision(record)
          BY DEF ReadIsOfRevision
        <5>6. jobs'[d].since = "kept" => /\ Revision(jobs[d].found) <= Revision(record')
                                   /\ Revision(jobs[d].found) # Revision(record')
          BY <5>2, <5>3, <5>4, <5>5
        <5> QED BY <5>4, <5>6 DEF ReadIsOfRevision, Revision, Atomic!Readable, Atomic!Revision
      <4> QED BY <4>1, <4>2, <4>3
    <3> QED BY <1>2, <1>5, <3>1, <3>2 DEF CallIsOnItsWay
  <2> QED BY <2>1, <2>2
<1> QED BY <1>6, <1>8, <1>9, <1>10 DEF RepositoryIInv

\* For any tabs and requests: a transaction that writes runs alone and stores what
\* follows from the record as it is, and what a call has read is of its revision.
THEOREM Invariance == ASSUME RequestsAreWellFormed PROVE RepositorySpec => []RepositoryIInv
<1>1. RepositoryInit => RepositoryIInv
  BY InitEstablishes
<1>2. RepositoryIInv /\ [RepositoryNext]_repositoryVars => RepositoryIInv'
  <2> SUFFICES ASSUME RepositoryIInv, [RepositoryNext]_repositoryVars
               PROVE  RepositoryIInv'
    OBVIOUS
  <2>1. CASE UNCHANGED repositoryVars
    <3>1. RepositoryTypeOK' /\ WritesAreExclusive'
      BY <2>1 DEF repositoryVars, RepositoryIInv, RepositoryTypeOK, RequestsAreWellFormed, WritesAreExclusive, Active
    <3>2. ActiveIsCurrent'
      BY <2>1, CurrentStays DEF repositoryVars, RepositoryIInv, ActiveIsCurrent, Active
    <3>3. \A c \in Clients : jobs'[c] # None => CallIsOnItsWay(jobs[c])'
      BY <2>1 DEF repositoryVars, RepositoryIInv, CallIsOnItsWay, ReadIsOfRevision
    <3> QED BY <3>1, <3>2, <3>3 DEF RepositoryIInv
  <2>2. ASSUME NEW c \in Clients,
               Begins(c) \/ OpenDatabase(c) \/ Reads(c) \/ Commits(c) \/ Aborts(c) \/ Resumes(c) \/ Ends(c)
        PROVE  RepositoryIInv'
    BY <2>2, BeginsPreserves, OpenDatabasePreserves, ReadsPreserves, CommitsPreserves, AbortsPreserves, ResumesPreserves, EndsPreserves
  <2> QED BY <2>1, <2>2 DEF RepositoryNext
<1> QED BY <1>1, <1>2, PTL DEF RepositorySpec

-----------------------------------------------------------------------------
(* The refinement.                                                         *)

Calls == [c \in Clients |-> Call(jobs[c])]

\* What a call shows is a record, of which its steps change no more than they say.
LEMMA CallOfJob ==
    ASSUME RequestsAreWellFormed, NEW j \in Job
    PROVE  /\ j # None /\ Call(j) # None
           /\ Call(j) = [request |-> j.request, answer |-> j.answer,
                         found |-> IF j.request.op = "load" /\ j.answer = "ok" THEN j.found ELSE None, since |-> j.since]
  BY DEF RequestsAreWellFormed, Job, Call

LEMMA CallsBecome ==
    ASSUME RequestsAreWellFormed, jobs \in [Clients -> Job \cup {None}], NEW c \in Clients, NEW j \in Job \cup {None}, Becomes(c, j)
    PROVE  Calls' = [Calls EXCEPT ![c] = Call(j)]
<1>1. jobs'[c] = j /\ (\A d \in Clients : d # c => jobs'[d] = jobs[d])
  BY BecomesOne
<1>2. \A d \in Clients : Call(jobs[d])' = IF d = c THEN Call(j) ELSE Calls[d]
  BY <1>1 DEF Call, Calls
<1> QED BY <1>2 DEF Calls

LEMMA DeclinesInOneStep ==
    ASSUME RepositoryIInv, NEW c \in Clients, jobs[c] # None, jobs[c].answer = "open",
           Becomes(c, Declined(jobs[c])), UNCHANGED <<record, legacy>>
    PROVE  Atomic!Decline(c)
<1> DEFINE j == jobs[c]
<1>1. RequestsAreWellFormed /\ jobs \in [Clients -> Job \cup {None}] /\ j \in Job
  BY JobOfCall DEF RepositoryIInv, RepositoryTypeOK
<1>2. Declined(j) \in Job /\ Declined(j).answer = "declined" /\ Declined(j).request = j.request /\ Declined(j).since = j.since
  BY <1>1 DEF Declined, Job
<1>3. Call(j) # None /\ Call(j).answer = "open" /\ Call(Declined(j)) = [Call(j) EXCEPT !.answer = "declined"]
  BY <1>1, <1>2, CallOfJob
<1>4. Calls' = [Calls EXCEPT ![c] = Call(Declined(j))] /\ Calls[c] = Call(j)
  BY <1>1, <1>2, CallsBecome DEF Calls
<1> QED BY <1>3, <1>4 DEF Atomic!Decline, Calls

\* A step that the atomic record does not see.
LEMMA HiddenStep ==
    ASSUME RepositoryIInv, NEW c \in Clients, jobs[c] # None, NEW j \in Job, Becomes(c, j), UNCHANGED <<record, legacy>>,
           j.request = jobs[c].request, j.answer = jobs[c].answer, j.since = jobs[c].since,
           j.answer = "ok" => j.found = jobs[c].found
    PROVE  UNCHANGED <<record, legacy, Calls>>
<1>1. RequestsAreWellFormed /\ jobs \in [Clients -> Job \cup {None}] /\ jobs[c] \in Job
  BY JobOfCall DEF RepositoryIInv, RepositoryTypeOK
<1>2. Call(j) = Call(jobs[c])
  BY <1>1, CallOfJob
<1>3. Calls' = [Calls EXCEPT ![c] = Call(j)]
  BY <1>1, CallsBecome
<1>4. Calls = [Calls EXCEPT ![c] = Call(jobs[c])]
  BY DEF Calls
<1> QED BY <1>2, <1>3, <1>4

AtomicStep == Atomic!RecordNext \/ UNCHANGED <<record, legacy, Calls>>

LEMMA BeginsIsAtomic ==
    ASSUME RepositoryIInv, NEW c \in Clients, Begins(c)
    PROVE  AtomicStep
<1>1. PICK r \in Requests :
          Becomes(c, [request |-> r, step |-> "opening", writes |-> r.op \in {"save", "clear"},
                      projects |-> r.projects, guarded |-> r.guarded, expected |-> r.expected,
                      found |-> None, puts |-> FALSE, put |-> None, answer |-> "open", since |-> "kept"])
  BY DEF Begins
<1> DEFINE j == [request |-> r, step |-> "opening", writes |-> r.op \in {"save", "clear"},
                 projects |-> r.projects, guarded |-> r.guarded, expected |-> r.expected,
                 found |-> None, puts |-> FALSE, put |-> None, answer |-> "open", since |-> "kept"]
<1>2. RequestsAreWellFormed /\ jobs \in [Clients -> Job \cup {None}] /\ r \in Request
  BY DEF RepositoryIInv, RepositoryTypeOK, RequestsAreWellFormed
<1>3. j \in Job
  BY <1>2 DEF Job, Request
<1>4. Call(j) = [request |-> r, answer |-> "open", found |-> None, since |-> "kept"]
  BY <1>2, <1>3, CallOfJob
<1>5. Calls' = [Calls EXCEPT ![c] = Call(j)]
  BY <1>1, <1>2, <1>3, CallsBecome
<1>6. Calls[c] = None /\ UNCHANGED <<record, legacy>>
  BY DEF Begins, Calls, Call
<1>7. Atomic!Ask(c)
  BY <1>4, <1>5, <1>6 DEF Atomic!Ask, Calls
<1> QED BY <1>7 DEF AtomicStep, Atomic!RecordNext

LEMMA OpenDatabaseIsAtomic ==
    ASSUME RepositoryIInv, NEW c \in Clients, OpenDatabase(c)
    PROVE  AtomicStep
<1> DEFINE j == jobs[c]
           w == [j EXCEPT !.step = "waiting"]
<1>1. /\ j # None /\ j.step = "opening" /\ (Becomes(c, w) \/ Becomes(c, Declined(j)))
      /\ UNCHANGED <<record, legacy>> /\ j \in Job /\ j.answer = "open"
  BY JobOfCall DEF OpenDatabase, CallIsOnItsWay
<1>2. CASE Becomes(c, w)
  <2>1. w \in Job /\ w.request = j.request /\ w.answer = j.answer /\ w.since = j.since /\ w.found = j.found
    BY <1>1 DEF Job
  <2> QED BY <1>1, <1>2, <2>1, HiddenStep DEF AtomicStep
<1>3. CASE Becomes(c, Declined(j))
  BY <1>1, <1>3, DeclinesInOneStep DEF AtomicStep, Atomic!RecordNext
<1> QED BY <1>1, <1>2, <1>3

LEMMA ReadsIsAtomic ==
    ASSUME RepositoryIInv, NEW c \in Clients, Reads(c)
    PROVE  AtomicStep
<1> DEFINE n == Started(jobs[c])
<1>1. jobs[c] # None /\ jobs[c].step = "waiting" /\ Becomes(c, n) /\ UNCHANGED <<record, legacy>>
  BY DEF Reads
<1>2. /\ n \in Job /\ n.request = jobs[c].request /\ n.answer = jobs[c].answer /\ n.since = jobs[c].since
      /\ n.answer # "ok"
  BY <1>1, StartedIsOnItsWay
<1> QED BY <1>1, <1>2, HiddenStep DEF AtomicStep

LEMMA AbortsIsAtomic ==
    ASSUME RepositoryIInv, NEW c \in Clients, Aborts(c)
    PROVE  AtomicStep
<1>1. jobs[c] # None /\ jobs[c].answer = "open" /\ Becomes(c, Declined(jobs[c])) /\ UNCHANGED <<record, legacy>>
  BY JobOfCall DEF Aborts, Active, CallIsOnItsWay
<1> QED BY <1>1, DeclinesInOneStep DEF AtomicStep, Atomic!RecordNext

LEMMA EndsIsAtomic ==
    ASSUME RepositoryIInv, NEW c \in Clients, Ends(c)
    PROVE  AtomicStep
<1>1. RequestsAreWellFormed /\ jobs \in [Clients -> Job \cup {None}] /\ jobs[c] \in Job
  BY JobOfCall DEF Ends, RepositoryIInv, RepositoryTypeOK
<1>2. Calls' = [Calls EXCEPT ![c] = Call(None)]
  BY <1>1, CallsBecome DEF Ends
<1>3. Calls[c] # None /\ Call(None) = None /\ UNCHANGED <<record, legacy>>
  BY <1>1, CallOfJob DEF Calls, Call, Ends
<1>4. Atomic!Leave(c)
  BY <1>2, <1>3 DEF Atomic!Leave, Calls
<1> QED BY <1>4 DEF AtomicStep, Atomic!RecordNext

LEMMA ResumesIsAtomic ==
    ASSUME RepositoryIInv, NEW c \in Clients, Resumes(c)
    PROVE  AtomicStep
<1> DEFINE j == jobs[c]
           done == [j EXCEPT !.step = "done"]
<1>1. j # None /\ j.step = "committed" /\ UNCHANGED record /\ j \in Job
  BY JobOfCall DEF Resumes
<1>2. CASE j.answer = "open" /\ Becomes(c, GoesOn(j)) /\ UNCHANGED legacy
  <2>1. CASE GoesOn(j) = Declined(j)
    BY <1>1, <1>2, <2>1, DeclinesInOneStep DEF AtomicStep, Atomic!RecordNext
  <2>2. CASE GoesOn(j) # Declined(j)
    <3>1. GoesOn(j).request = j.request /\ GoesOn(j).answer = j.answer /\ GoesOn(j).since = j.since
      BY <1>1, <2>2 DEF GoesOn, Writes, Job
    <3>2. GoesOn(j) \in Job
      BY <1>1, <1>2, GoesOnIsOnItsWay
    <3> QED BY <1>1, <1>2, <3>1, <3>2, HiddenStep DEF AtomicStep
  <2> QED BY <2>1, <2>2
<1>3. CASE j.answer # "open" /\ Becomes(c, done) /\ UNCHANGED legacy
  <2>1. done \in Job /\ done.request = j.request /\ done.answer = j.answer /\ done.since = j.since /\ done.found = j.found
    BY <1>1 DEF Job
  <2> QED BY <1>1, <1>3, <2>1, HiddenStep DEF AtomicStep
<1>4. CASE j.answer = "ok" /\ j.request.op = "migrate" /\ legacy' = [legacy EXCEPT !.there = FALSE] /\ UNCHANGED jobs
  <2>1. Calls[c] # None /\ Calls[c].request = j.request /\ Calls[c].answer = j.answer /\ UNCHANGED Calls
    BY <1>1, <1>4, CallOfJob DEF Calls, RepositoryIInv, RepositoryTypeOK
  <2>2. Atomic!RemoveLegacy(c)
    BY <1>1, <1>4, <2>1 DEF Atomic!RemoveLegacy, Calls
  <2> QED BY <2>2 DEF AtomicStep, Atomic!RecordNext
<1> QED BY <1>1, <1>2, <1>3, <1>4 DEF Resumes

\* The commit is where a call takes effect: the record of its transaction is
\* still the one that it was decided on.
LEMMA CommitsIsAtomic ==
    ASSUME RepositoryIInv, NEW c \in Clients, Commits(c)
    PROVE  AtomicStep
<1> DEFINE j == jobs[c]
           w == Committed(j)
           answer == IF j.writes THEN (IF j.puts THEN "ok" ELSE "declined")
                     ELSE IF ~Atomic!Readable(j.found) THEN "declined"
                     ELSE IF j.request.op = "load" THEN "ok" ELSE "open"
           Cleared(d) == IF j.puts /\ j.put = None /\ jobs[d] # None THEN [jobs[d] EXCEPT !.since = "cleared"] ELSE jobs[d]
<1>1. /\ j \in Job /\ j # None /\ CallIsOnItsWay(j) /\ IsCurrent(j) /\ j.answer = "open" /\ w \in Job
      /\ j.request.op \in Ops /\ j.request.project \in ProjectSet /\ j.projects \in SUBSET ProjectSet
      /\ j.since \in {"kept", "cleared"} /\ UNCHANGED legacy
  BY CommittedIsOnItsWay, JobOfCall DEF Commits, Job
<1>2. /\ record' = (IF j.puts THEN j.put ELSE record)
      /\ jobs' = [d \in Clients |-> IF d = c THEN w ELSE Cleared(d)]
  BY DEF Commits
<1>3. /\ RequestsAreWellFormed /\ None \notin Record /\ record \in Record \cup {None}
      /\ jobs \in [Clients -> Job \cup {None}]
  BY DEF RepositoryIInv, RepositoryTypeOK, RequestsAreWellFormed
<1>4. w.answer = answer /\ w.request = j.request /\ w.since = j.since /\ w.found = j.found
  <2>1. w = [j EXCEPT !.step = "committed", !.answer = answer]
    BY DEF Committed
  <2> HIDE DEF answer, w
  <2> QED BY <1>1, <2>1 DEF Job
<1>5. /\ Calls[c] = Call(j) /\ Call(j) # None /\ Call(j).request = j.request /\ Call(j).answer = "open"
      /\ Call(j).since = j.since
  BY <1>1, <1>3, CallOfJob DEF Calls
<1>6. Call(w) = [request |-> j.request, answer |-> answer,
                 found |-> IF j.request.op = "load" /\ answer = "ok" THEN j.found ELSE None, since |-> j.since]
  BY <1>1, <1>3, <1>4, CallOfJob
<1>7. Call(j) = [request |-> j.request, answer |-> "open", found |-> None, since |-> j.since]
  BY <1>1, <1>3, CallOfJob
<1>8. Call(w) = IF j.request.op = "load" /\ answer = "ok" THEN Atomic!Found(Call(j), j.found)
                ELSE [Call(j) EXCEPT !.answer = answer]
  <2> HIDE DEF answer, w
  <2>1. CASE j.request.op = "load" /\ answer = "ok"
    BY <1>6, <1>7, <2>1 DEF Atomic!Found
  <2>2. CASE ~(j.request.op = "load" /\ answer = "ok")
    BY <1>6, <1>7, <2>2
  <2> QED BY <2>1, <2>2
<1>9. ~(j.puts /\ j.put = None) => Calls' = [Calls EXCEPT ![c] = Call(w)]
  <2> SUFFICES ASSUME ~(j.puts /\ j.put = None)
               PROVE  Calls' = [Calls EXCEPT ![c] = Call(w)]
    OBVIOUS
  <2>1. jobs' = [jobs EXCEPT ![c] = w]
    BY <1>2, <1>3
  <2> QED BY <1>1, <1>3, <2>1, CallsBecome DEF Becomes
<1>10. /\ j.puts => j.writes /\ answer = "ok" /\ j.request.op # "load"
       /\ ~j.puts => answer \in {"declined", "ok", "open"} /\ UNCHANGED record
       /\ ~j.puts /\ answer = "ok" => j.request.op = "load" /\ j.found = record /\ Atomic!Readable(record)
  BY <1>1, <1>2 DEF CallIsOnItsWay, IsCurrent
<1> HIDE DEF w, answer
<1>11. CASE j.puts /\ j.request.op = "clear"
  <2>1. record' = None /\ j.put = None /\ Call(w) = [Call(j) EXCEPT !.answer = "ok"]
    BY <1>1, <1>2, <1>8, <1>10, <1>11 DEF IsCurrent
  <2>2. ASSUME NEW d \in Clients, d # c
        PROVE  Calls'[d] = IF Calls[d] = None THEN None ELSE [Calls[d] EXCEPT !.since = "cleared"]
    <3>1. Calls'[d] = Call(Cleared(d)) /\ Calls[d] = Call(jobs[d])
      BY <1>2, <2>2 DEF Calls, Call
    <3>2. CASE jobs[d] = None
      BY <3>1, <3>2 DEF Call
    <3>3. CASE jobs[d] # None
      <4>1. Cleared(d) = [jobs[d] EXCEPT !.since = "cleared"] /\ jobs[d] \in Job
        BY <1>3, <1>11, <2>1, <3>3
      <4>2. /\ Cleared(d) \in Job /\ Cleared(d).request = jobs[d].request /\ Cleared(d).answer = jobs[d].answer
            /\ Cleared(d).found = jobs[d].found /\ Cleared(d).since = "cleared"
        BY <4>1 DEF Job
      <4> HIDE DEF Cleared
      <4> DEFINE k == jobs[d]
                 found == IF k.request.op = "load" /\ k.answer = "ok" THEN k.found ELSE None
      <4>3. Call(k) = [request |-> k.request, answer |-> k.answer, found |-> found, since |-> k.since] /\ Call(k) # None
        BY <1>3, <4>1, CallOfJob
      <4>4. Call(Cleared(d)) = [request |-> k.request, answer |-> k.answer, found |-> found, since |-> "cleared"]
        BY <1>3, <4>2, CallOfJob
      <4> HIDE DEF found
      <4>5. \A x : x = [Call(k) EXCEPT !.since = "cleared"]
                    => x = [request |-> k.request, answer |-> k.answer, found |-> found, since |-> "cleared"]
        BY <4>3
      <4>6. Call(Cleared(d)) = [Call(k) EXCEPT !.since = "cleared"]
        BY <4>4, <4>5, Zenon
      <4> QED BY <3>1, <4>3, <4>6, Zenon
    <3> QED BY <3>2, <3>3
  <2>3. Calls'[c] = [Calls[c] EXCEPT !.answer = "ok"]
    BY <1>2, <1>5, <2>1 DEF Calls, Call
  <2>4. Calls' = [d \in Clients |-> IF d = c THEN [Calls[c] EXCEPT !.answer = "ok"]
                                    ELSE IF Calls[d] = None THEN None ELSE [Calls[d] EXCEPT !.since = "cleared"]]
    BY <2>2, <2>3 DEF Calls
  <2>5. Atomic!ClearWorkspace(c)
    BY <1>1, <1>5, <1>11, <2>1, <2>4 DEF Atomic!ClearWorkspace, Atomic!Asked, Calls
  <2> QED BY <2>5 DEF AtomicStep, Atomic!RecordNext
<1>12. CASE j.puts /\ j.request.op # "clear"
  <2>1. /\ record' = Atomic!After(record, j.projects) /\ j.put # None
        /\ Atomic!Readable(record) /\ Atomic!Matches(record, j.guarded, j.expected)
    BY <1>1, <1>2, <1>3, <1>10, <1>12, AfterIsRecord DEF IsCurrent
  <2>2. Calls' = [Calls EXCEPT ![c] = [Calls[c] EXCEPT !.answer = "ok"]]
    BY <1>5, <1>8, <1>9, <1>10, <1>12, <2>1
  <2>3. Calls' = [Calls EXCEPT ![c].answer = "ok"]
    BY <2>2
  <2>4. CASE j.request.op = "save"
    <3>1. j.projects = j.request.projects /\ j.guarded = j.request.guarded /\ j.expected = j.request.expected
      BY <1>1, <2>4 DEF CallIsOnItsWay
    <3>2. Atomic!SaveWorkspace(c)
      BY <1>1, <1>5, <2>1, <2>3, <2>4, <3>1 DEF Atomic!SaveWorkspace, Atomic!Asked, Atomic!Answers, Calls
    <3> QED BY <3>2 DEF AtomicStep, Atomic!RecordNext
  <2>5. CASE j.request.op = "import"
    <3>1. /\ j.guarded /\ j.expected = Revision(j.found) /\ j.projects = Atomic!With(Projects(j.found), j.request.project)
          /\ j.request.replace \/ ~Atomic!Collides(Projects(j.found), j.request.project)
          /\ ReadIsOfRevision(j)
      BY <1>1, <1>10, <1>12, <2>5 DEF CallIsOnItsWay
    <3>2. Revision(record) = Revision(j.found)
      BY <2>1, <3>1 DEF Atomic!Matches, Revision
    <3>3. CASE j.since = "kept"
      <4>1. j.found = record
        BY <3>1, <3>2, <3>3 DEF ReadIsOfRevision
      <4>2. Atomic!ImportProject(c)
        BY <1>1, <1>5, <2>1, <2>3, <2>5, <3>1, <4>1 DEF Atomic!ImportProject, Atomic!Asked, Atomic!Answers, Calls, Projects
      <4> QED BY <4>2 DEF AtomicStep, Atomic!RecordNext
    <3>4. CASE j.since = "cleared"
      <4>1. Projects(record') = j.projects /\ j.request.project \in j.projects
        BY <1>1, <1>3, <2>1, <3>1, AfterIsRecord DEF Atomic!With
      <4>2. Atomic!ImportProject(c)
        BY <1>1, <1>5, <2>1, <2>3, <2>5, <3>4, <4>1 DEF Atomic!ImportProject, Atomic!Asked, Atomic!Answers, Calls, Projects
      <4> QED BY <4>2 DEF AtomicStep, Atomic!RecordNext
    <3> QED BY <1>1, <3>3, <3>4
  <2>6. CASE j.request.op = "migrate"
    <3>1. j.guarded /\ j.expected = 0 /\ j.projects = legacy.projects
      BY <1>1, <1>10, <1>12, <2>6 DEF CallIsOnItsWay
    <3>2. record = None
      BY <1>3, <2>1, <3>1 DEF Atomic!Matches, Atomic!Revision, Record
    <3>3. Atomic!MigrateLocalStorageWorkspace(c)
      BY <1>1, <1>5, <2>1, <2>3, <2>6, <3>1, <3>2 DEF Atomic!MigrateLocalStorageWorkspace, Atomic!Asked, Atomic!Answers, Calls
    <3> QED BY <3>3 DEF AtomicStep, Atomic!RecordNext
  <2> QED BY <1>1, <1>10, <1>12, <2>4, <2>5, <2>6 DEF Ops
<1>13. CASE ~j.puts
  <2>1. Calls' = [Calls EXCEPT ![c] = Call(w)] /\ UNCHANGED <<record, legacy>>
    BY <1>1, <1>9, <1>10, <1>13
  <2>2. CASE answer = "declined"
    <3>1. Calls' = [Calls EXCEPT ![c].answer = "declined"]
      BY <1>5, <1>8, <2>1, <2>2
    <3>2. Atomic!Decline(c)
      BY <1>5, <2>1, <3>1 DEF Atomic!Decline, Calls
    <3> QED BY <3>2 DEF AtomicStep, Atomic!RecordNext
  <2>3. CASE answer = "ok"
    <3>1. j.request.op = "load" /\ j.found = record /\ Atomic!Readable(record)
      BY <1>10, <1>13, <2>3
    <3>2. Calls' = [Calls EXCEPT ![c] = Atomic!Found(Calls[c], record)]
      BY <1>5, <1>8, <2>1, <2>3, <3>1
    <3>3. Atomic!LoadWorkspace(c)
      BY <1>5, <2>1, <3>1, <3>2 DEF Atomic!LoadWorkspace, Atomic!Asked, Calls
    <3> QED BY <3>3 DEF AtomicStep, Atomic!RecordNext
  <2>4. CASE answer = "open"
    <3>1. Call(w) = Call(j)
      BY <1>6, <1>7, <2>4
    <3>2. Calls = [Calls EXCEPT ![c] = Call(j)]
      BY DEF Calls
    <3> QED BY <2>1, <3>1, <3>2 DEF AtomicStep
  <2> QED BY <1>10, <1>13, <2>2, <2>3, <2>4
<1> QED BY <1>11, <1>12, <1>13

\* For any tabs and requests: saves, clears, imports and migrations act as if
\* each took effect in one step, or not at all.
THEOREM Refinement == ASSUME RequestsAreWellFormed PROVE RepositorySpec => RepositoryIsAtomic
<1>1. RepositoryInit => Atomic!RecordInit
  BY DEF RepositoryInit, Atomic!RecordInit, Call
<1>2. RepositoryIInv /\ [RepositoryNext]_repositoryVars => [Atomic!RecordNext]_Atomic!recordVars
  <2> SUFFICES ASSUME RepositoryIInv, [RepositoryNext]_repositoryVars
               PROVE  AtomicStep
    BY DEF AtomicStep, Calls, Atomic!recordVars
  <2>1. CASE UNCHANGED repositoryVars
    BY <2>1 DEF repositoryVars, AtomicStep, Calls, Call
  <2>2. ASSUME NEW c \in Clients,
               Begins(c) \/ OpenDatabase(c) \/ Reads(c) \/ Commits(c) \/ Aborts(c) \/ Resumes(c) \/ Ends(c)
        PROVE  AtomicStep
    BY <2>2, BeginsIsAtomic, OpenDatabaseIsAtomic, ReadsIsAtomic, CommitsIsAtomic, AbortsIsAtomic, ResumesIsAtomic, EndsIsAtomic
  <2> QED BY <2>1, <2>2 DEF RepositoryNext
<1> QED BY <1>1, <1>2, Invariance, PTL DEF RepositorySpec, RepositoryIsAtomic, Atomic!RecordSpec
=============================================================================
