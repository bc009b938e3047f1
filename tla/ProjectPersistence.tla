------------------------- MODULE ProjectPersistence -------------------------
(***************************************************************************)
(* How the workspace of a signed-in user is kept: the Zustand store, its   *)
(* synchronous localStorage copy, the IndexedDB record behind a debounced  *)
(* saver, the room lease (persistenceGate.ts), hydration and room switches *)
(* (projectPersistence.ts), and the recovery mode of an over-limit room.   *)
(*                                                                         *)
(* A workspace is the set of edits it reflects and whether it is over the  *)
(* capacity limit.  Edit <<r, n>> is the n-th edit of the run, made for    *)
(* room r.  Timestamps are positions in that order.  A tab's module-level  *)
(* variables are one record; each function of the code is an operator from *)
(* that record to the next one, and an action runs one JavaScript task.    *)
(***************************************************************************)
EXTENDS Naturals, Sequences

CONSTANTS
    Tabs,       \* browser tabs that share localStorage and IndexedDB
    Rooms,      \* users; each has one room, keyed by the session's subject
    Anon,       \* the room of the session that has no subject
    BigRooms,   \* rooms whose stored seed may be over the capacity limit
    Failing,    \* the kinds of write or read that may fail ("local" for setItem)
    Pending,    \* roomKey "pending-auth" of the gate
    None,       \* undefined / null
    Remounts,   \* whether the page may unmount (StrictMode, leaving the route)
    MaxEdits,   \* bound: edits of the run
    MaxGen,     \* bound: room leases one page load hands out
    MaxBoots    \* bound: page loads after a crash or reload

ASSUME PersistenceAssumption ==
    /\ Remounts \in BOOLEAN
    /\ Anon \in Rooms /\ Pending \notin Rooms /\ BigRooms \subseteq Rooms
    /\ MaxEdits \in Nat /\ MaxGen \in Nat /\ MaxBoots \in Nat

VARIABLES
    tab,    \* each tab's memory, with its IndexedDB requests and messages
    local,  \* localStorage: a snapshot and the time it was written, per room
    idb,    \* IndexedDB: a snapshot, its revision and updatedAt, per room
    clock,  \* edits made so far
    boots   \* reloads so far

vars == <<tab, local, idb, clock, boots>>

Edits == Rooms \X (0..MaxEdits)
Workspace == [edits : SUBSET Edits, big : BOOLEAN]
Empty == [edits |-> {}, big |-> FALSE]      \* emptyProject()

\* "undefined" is neither a workspace nor a record.
ASSUME NoneAssumption ==
    /\ None \notin Workspace
    /\ None \notin [ws : Workspace, rev : Nat \ {0}, at : 0..MaxEdits]

Kinds == {"load", "probe", "migrate", "preserve", "save"}

NoGate == [gen |-> 0, room |-> Pending, hydrated |-> FALSE]
NoLease == [gen |-> 0, room |-> Pending]
NoContext == [gen |-> 0, room |-> Pending, hydrated |-> FALSE, joined |-> FALSE,
              pend |-> FALSE, latest |-> None, localAt |-> 0, failed |-> FALSE]

Gate == [gen : 0..MaxGen, room : Rooms \cup {Pending}, hydrated : BOOLEAN]
Lease == [gen : 0..MaxGen, room : Rooms \cup {Pending}]
Context == [gen : 0..MaxGen, room : Rooms \cup {Pending}, hydrated : BOOLEAN,
            joined : BOOLEAN,   \* hydrationGeneration still names this hydration
            pend : BOOLEAN,     \* pendingBeforeHydration
            latest : Workspace \cup {None},     \* waits in the saver
            localAt : 0..MaxEdits, failed : BOOLEAN]
Request == [kind : Kinds, gen : 1..MaxGen, room : Rooms, ws : Workspace, expect : Nat]
Message == [room : Rooms, ws : Workspace]

TabState == [user : Rooms, authed : BOOLEAN, mounted : BOOLEAN, starting : BOOLEAN,
             store : Workspace, recovery : BOOLEAN, gen : 0..MaxGen, gate : Gate,
             ctx : Context, lease : Lease, queue : Seq(Request), inbox : Seq(Message)]

TypeOK ==
    /\ tab \in [Tabs -> TabState]
    /\ local \in [Rooms -> [ws : Workspace, at : 0..MaxEdits] \cup {None}]
    /\ idb \in [Rooms -> [ws : Workspace, rev : Nat \ {0}, at : 0..MaxEdits] \cup {None}]
    /\ clock \in 0..MaxEdits
    /\ boots \in 0..MaxBoots

-----------------------------------------------------------------------------
(* The page as its modules are first evaluated: nobody is signed in, and   *)
(* readStoredState() reads the anonymous room.                             *)

Stored(loc, r) == IF loc[r] = None THEN Empty ELSE loc[r].ws
StoredAt(loc, r) == IF loc[r] = None THEN 0 ELSE loc[r].at

Boot(loc) ==
    [user |-> Anon, authed |-> FALSE, mounted |-> FALSE, starting |-> FALSE,
     store |-> Stored(loc, Anon), recovery |-> Stored(loc, Anon).big,
     gen |-> 0, gate |-> NoGate, ctx |-> NoContext, lease |-> NoLease,
     queue |-> <<>>, inbox |-> <<>>]

\* What an earlier visit may have left behind.
Seeds(r) == [edits : {{<<r, 0>>}}, big : IF r \in BigRooms THEN BOOLEAN ELSE {FALSE}]
LocalSeeds(r) == {None} \cup [ws : Seeds(r), at : {0}]
IdbSeeds(r) == {None} \cup [ws : Seeds(r), rev : {1}, at : {0}]

Init ==
    /\ local \in {f \in [Rooms -> UNION {LocalSeeds(r) : r \in Rooms}] :
                    \A r \in Rooms : f[r] \in LocalSeeds(r)}
    /\ idb \in {f \in [Rooms -> UNION {IdbSeeds(r) : r \in Rooms}] :
                    \A r \in Rooms : f[r] \in IdbSeeds(r)}
    /\ tab = [t \in Tabs |-> Boot(local)]
    /\ clock = 0
    /\ boots = 0

-----------------------------------------------------------------------------
(* The lease and the saver, on one tab's memory s.                         *)

BeginRoom_StaysReady(s, r) ==
    [s EXCEPT !.gen = @ + 1, !.gate = [@ EXCEPT !.gen = s.gen + 1, !.room = r]]

BeginRoom_SameGeneration(s, r) ==
    [s EXCEPT !.gate = [gen |-> s.gen, room |-> r, hydrated |-> FALSE]]

\* beginPersistenceRoom: a lease on the gate's own room keeps its generation.
BeginRoom(s, r) ==
    IF s.gate.room = r
    THEN [s EXCEPT !.gate.hydrated = FALSE]
    ELSE [s EXCEPT !.gen = @ + 1, !.gate = [gen |-> s.gen + 1, room |-> r, hydrated |-> FALSE]]

\* Hydration ends: the context and, if it is still the current lease, the gate.
Complete(s, failed) ==
    [s EXCEPT !.ctx.hydrated = TRUE, !.ctx.failed = failed,
              !.gate.hydrated = @ \/ (s.gate.gen = s.ctx.gen /\ s.gate.room = s.ctx.room)]

Issue(s, kind, ws, expect) ==
    [s EXCEPT !.queue = Append(@, [kind |-> kind, gen |-> s.ctx.gen, room |-> s.ctx.room,
                                   ws |-> ws, expect |-> expect])]

ScheduleSave_InRecovery(s) ==
    IF s.ctx.hydrated THEN [s EXCEPT !.ctx.latest = s.store, !.ctx.failed = FALSE] ELSE s

ScheduleSave(s) ==
    IF s.ctx.hydrated /\ ~s.recovery
    THEN [s EXCEPT !.ctx.latest = s.store, !.ctx.failed = FALSE]
    ELSE s

\* The store subscription.  "expected" is the one-shot fallback marker.
Changed(s, ws, expected) ==
    LET set == [s EXCEPT !.store = ws] IN
    IF ~s.mounted \/ s.ctx.gen = 0 THEN set
    ELSE IF s.ctx.hydrated THEN ScheduleSave(set)
    ELSE [set EXCEPT !.ctx.pend = @ \/ ~expected]

-----------------------------------------------------------------------------
(* Hydration.                                                              *)

\* hydrateForCurrentRoom up to its first await.  A call for the context's own
\* room only overtakes the hydration that is in flight.
BeginHydration(s, loc) ==
    IF s.ctx.room = s.user
    THEN [s EXCEPT !.ctx.joined = @ /\ s.ctx.hydrated]
    ELSE LET begun == BeginRoom(s, s.user)
             fresh == [begun EXCEPT !.ctx = [NoContext EXCEPT
                          !.gen = begun.gate.gen, !.room = s.user, !.joined = TRUE,
                          !.localAt = StoredAt(loc, s.user)]]
         IN  IF s.recovery THEN Complete(fresh, TRUE) ELSE Issue(fresh, "load", Empty, 0)

Hydrate_Overtakes(s, loc) == BeginHydration(s, loc)

Hydrate_OnlyFirst(s, loc) == IF s.ctx.gen # 0 THEN s ELSE BeginHydration(s, loc)

\* onSessionChange, and the continuation of initAuth(): leave a hydration of
\* this room that is in flight alone.
Hydrate(s, loc) ==
    IF s.ctx.room = s.user /\ ~s.ctx.hydrated THEN s ELSE BeginHydration(s, loc)

\* reloadForCurrentUser: swap the store to the room's localStorage copy.
Reload(s, loc, roomChanged) ==
    IF ~roomChanged /\ s.gate.hydrated THEN s
    ELSE LET next == Stored(loc, s.user) IN
         Changed([s EXCEPT !.recovery = next.big], next, s.gate.gen # 0 /\ ~s.gate.hydrated)

\* A hydration may go on only while its context is the active one.
Resumes_Always(s, req) == s.ctx.gen # 0

Resumes(s, req) == s.ctx.gen = req.gen /\ s.ctx.joined

Preserve(s, rev) == Issue([s EXCEPT !.ctx.pend = FALSE], "preserve", s.store, rev)

Apply(s, ws) ==
    Complete([s EXCEPT !.store = ws, !.recovery = @ \/ ws.big], ws.big)

CompleteAndSave(s, failed) == ScheduleSave(Complete(s, failed))

Loaded_LocalAlwaysWins(s, ok, record) ==
    IF ~ok THEN Complete(s, TRUE)
    ELSE IF record = None THEN Issue(s, "probe", Empty, 0)
    ELSE Preserve(s, record.rev)

\* loadWorkspace() answered with the room's record (None when there is none).
\* Local work wins over the record if it is newer or was made meanwhile.
Loaded(s, ok, record) ==
    IF ~ok THEN Complete(s, TRUE)
    ELSE IF record = None THEN Issue(s, "probe", Empty, 0)
    ELSE IF s.ctx.pend \/ s.ctx.localAt > record.at THEN Preserve(s, record.rev)
    ELSE Apply(s, record.ws)

\* migrateLocalStorageWorkspace found the workspace "ws" at revision "rev".
Migrated(s, ws, rev) == IF s.ctx.pend THEN Preserve(s, rev) ELSE Apply(s, ws)

\* Its own read of IndexedDB, before it looks into localStorage.
Probed(s, ok, record, loc) ==
    IF ~ok \/ (record = None /\ loc[s.ctx.room] = None) THEN CompleteAndSave(s, FALSE)
    ELSE IF record = None THEN Issue(s, "migrate", loc[s.ctx.room].ws, 0)
    ELSE Migrated(s, record.ws, record.rev)

\* The reconciling save answered; an edit made meanwhile is saved again.
Preserved(s, ok) ==
    IF s.ctx.pend THEN CompleteAndSave(s, ~ok) ELSE Complete(s, ~ok)

-----------------------------------------------------------------------------
(* Actions of a tab.                                                       *)

\* The tab's memory becomes s and every other variable stays.
Become(t, s) ==
    /\ tab' = [tab EXCEPT ![t] = s]
    /\ UNCHANGED <<local, idb, clock, boots>>

HasLease(s, u) == s.ctx.room = u \/ s.gen < MaxGen

\* startProjectPersistence()
Start(t) ==
    LET s == tab[t] IN
    /\ ~s.mounted
    /\ s.gen + 1 < MaxGen
    /\ Become(t, [s EXCEPT !.mounted = TRUE, !.starting = TRUE, !.gen = @ + 1,
                           !.gate = [NoGate EXCEPT !.gen = s.gen + 1]])

\* The cleanup startProjectPersistence() returns.
Stop(t) ==
    /\ Remounts
    /\ tab[t].mounted
    /\ Become(t, [tab[t] EXCEPT !.mounted = FALSE, !.starting = FALSE,
                                !.gate = NoGate, !.ctx = NoContext])

\* initAuth() is settled: hydrate the room it selected.
AuthReady(t) ==
    LET s == tab[t] IN
    /\ s.starting /\ s.authed
    /\ HasLease(s, s.user)
    /\ Become(t, Hydrate([s EXCEPT !.starting = FALSE], local))

\* A "schematic-session" event: the persistence owner's listener runs in the
\* capture phase, before the store's own.
SessionChange(t, u) ==
    LET s == tab[t]
        signed == [s EXCEPT !.user = u, !.authed = TRUE]
        hydrating == IF s.mounted THEN Hydrate(signed, local) ELSE signed
    IN
    /\ s.mounted => HasLease(s, u)
    /\ Become(t, Reload(hydrating, local, u # s.user))

\* A crash or a reload of the page: its requests that have not reached
\* IndexedDB are gone.
Restart(t) ==
    /\ boots < MaxBoots
    /\ boots' = boots + 1
    /\ tab' = [tab EXCEPT ![t] = Boot(local)]
    /\ UNCHANGED <<local, idb, clock>>

\* Publish ws in the tab's room: setItem (which may fail silently), the
\* broadcast to the other tabs, then the store.
Publish(t, ws, recovery, kept) ==
    LET s == tab[t] IN
    /\ clock' = clock + 1
    /\ kept \/ "local" \in Failing
    /\ local' = IF kept THEN [local EXCEPT ![s.user] = [ws |-> ws, at |-> clock + 1]] ELSE local
    /\ tab' = [x \in Tabs |->
                 IF x = t THEN Changed([s EXCEPT !.recovery = recovery], ws, FALSE)
                 ELSE [tab[x] EXCEPT !.inbox = Append(@, [room |-> s.user, ws |-> ws])]]
    /\ UNCHANGED <<idb, boots>>

With(ws, r, big) == [edits |-> ws.edits \cup {<<r, clock + 1>>}, big |-> big]

MayMutate(s) == clock < MaxEdits /\ s.mounted /\ s.gate.hydrated

\* persistState(): an ordinary mutation of the room the user sees.
Edit(t, kept) ==
    LET s == tab[t] IN
    /\ MayMutate(s) /\ ~s.recovery
    /\ Publish(t, With(s.store, s.user, FALSE), FALSE, kept)

\* persistRecoveryReduction(): deleting from an over-limit room.
Reduce(t, big, kept) ==
    LET s == tab[t] IN
    /\ MayMutate(s) /\ s.recovery
    /\ big => s.store.big
    /\ Publish(t, With(s.store, s.user, big), big, kept)

\* An agent's tool call captures the lease before it awaits ...
Capture(t) ==
    LET s == tab[t] IN
    /\ s.mounted /\ s.gate.hydrated
    /\ Become(t, [s EXCEPT !.lease = [gen |-> s.gate.gen, room |-> s.gate.room]])

\* ... and isCurrentProjectPersistenceContext() must still accept it after.
IsCurrent_AnyLease(s) == s.gate.hydrated /\ s.lease.gen # 0

IsCurrent(s) ==
    s.gate.hydrated /\ s.gate.gen = s.lease.gen /\ s.gate.room = s.lease.room

AgentEdit(t, kept) ==
    LET s == tab[t] IN
    /\ MayMutate(s) /\ ~s.recovery
    /\ IsCurrent(s)
    /\ Publish(t, With(s.store, s.lease.room, FALSE), FALSE, kept)

\* applyRemoteState(): another tab's broadcast.
Accepts_AnyRoom(s, m) == ~m.ws.big

Accepts(s, m) == m.room = s.user /\ ~m.ws.big

Remote(t) ==
    LET s == tab[t]
        read == [s EXCEPT !.inbox = Tail(@)]
    IN
    /\ s.inbox # <<>>
    /\ Become(t, IF Accepts(s, Head(s.inbox))
                 THEN Changed(read, Head(s.inbox).ws, FALSE) ELSE read)

\* The saver of the tab's context has a save running.
Saving(s) ==
    \E i \in DOMAIN s.queue : s.queue[i].kind = "save" /\ s.queue[i].gen = s.ctx.gen

\* The saver's timer or a flush() claims the waiting snapshot.
ClaimSave(t) ==
    LET s == tab[t] IN
    /\ s.ctx.latest # None
    /\ ~Saving(s)
    /\ Become(t, Issue([s EXCEPT !.ctx.latest = None], "save", s.ctx.latest, 0))

-----------------------------------------------------------------------------
(* IndexedDB.  The requests of a page are served in the order they were    *)
(* made: open() requests queue, and overlapping transactions do too.  The  *)
(* request's continuation runs in the same step: nothing it reads can      *)
(* change between the commit and its event except as if just before it.    *)

Rev(record) == IF record = None THEN 0 ELSE record.rev

\* saveWorkspace(): "save" is unconditional, the others name the revision
\* they expect, 0 for no record.
Fits(req, record) == req.kind = "save" \/ req.expect = Rev(record)

Put_AheadOfClock(req, record) == [ws |-> req.ws, rev |-> Rev(record) + 1, at |-> clock + 1]

Put(req, record) == [ws |-> req.ws, rev |-> Rev(record) + 1, at |-> clock]

Continue(s, req, ok, record) ==
    CASE req.kind = "load" -> Loaded(s, ok, record)
      [] req.kind = "probe" -> Probed(s, ok, record, local)
      [] req.kind = "migrate" ->
            IF ok THEN Migrated(s, record.ws, record.rev) ELSE CompleteAndSave(s, FALSE)
      [] req.kind = "preserve" -> Preserved(s, ok)

SaveReturned_ForgetsError(s, ok, flushed) == [s EXCEPT !.ctx.failed = FALSE]

\* The continuation of a debounced save: "flushed" says that an explicit
\* flush() waited for it.
SaveReturned(s, ok, flushed) ==
    [s EXCEPT !.ctx.failed = ~ok \/ (@ /\ ~flushed)]

Serve(t, works, flushed) ==
    LET s == tab[t]
        req == Head(s.queue)
        record == idb[req.room]
        write == req.kind \notin {"load", "probe"}
        ok == works /\ (write => Fits(req, record))
        after == IF ok /\ write THEN Put(req, record) ELSE record
        served == [s EXCEPT !.queue = Tail(@)]
    IN
    /\ s.queue # <<>>
    /\ works \/ req.kind \in Failing
    /\ flushed => req.kind = "save" /\ s.ctx.latest = None
    /\ idb' = [idb EXCEPT ![req.room] = after]
    /\ tab' = [tab EXCEPT ![t] =
                 IF req.kind = "save"
                 THEN IF s.ctx.gen = req.gen THEN SaveReturned(served, ok, flushed) ELSE served
                 ELSE IF Resumes(s, req) THEN Continue(served, req, ok, after) ELSE served]
    /\ UNCHANGED <<local, clock, boots>>

Next ==
    \E t \in Tabs :
        \/ Start(t) \/ Stop(t) \/ AuthReady(t) \/ Restart(t)
        \/ \E u \in Rooms : SessionChange(t, u)
        \/ Capture(t) \/ Remote(t) \/ ClaimSave(t)
        \/ \E kept \in BOOLEAN :
              \/ Edit(t, kept) \/ AgentEdit(t, kept)
              \/ \E big \in BOOLEAN : Reduce(t, big, kept)
        \/ \E works, flushed \in BOOLEAN : Serve(t, works, flushed)

\* The auth lookup and IndexedDB answer and timers expire; nobody has to
\* sign in, edit, or keep the page open.
Fairness ==
    \A t \in Tabs :
        /\ WF_vars(AuthReady(t))
        /\ WF_vars(ClaimSave(t))
        /\ WF_vars(\E works, flushed \in BOOLEAN : Serve(t, works, flushed))

Spec == Init /\ [][Next]_vars
FairSpec == Spec /\ Fairness

-----------------------------------------------------------------------------
(* Properties.                                                             *)

Within(ws, r) == \A e \in ws.edits : e[1] = r

\* No edit made for one user's room is ever in another user's store, saver,
\* IndexedDB request or storage, whatever session changes overtake whatever
\* hydrations, saves, broadcasts and agent calls are in flight.
RoomIsolation ==
    /\ \A r \in Rooms :
          /\ local[r] # None => Within(local[r].ws, r)
          /\ idb[r] # None => Within(idb[r].ws, r)
    /\ \A t \in Tabs : LET s == tab[t] IN
          /\ Within(s.store, s.user)
          /\ s.ctx.latest # None => Within(s.ctx.latest, s.ctx.room)
          /\ \A i \in DOMAIN s.queue : Within(s.queue[i].ws, s.queue[i].room)

\* A lease that permits mutation is the lease of the context that saves, in
\* the room of the session: no mutation window ever spans a room switch.
LeaseMatchesRoom ==
    \A t \in Tabs : LET s == tab[t] IN
        s.gate.hydrated =>
            /\ s.ctx.hydrated
            /\ s.gate.room = s.user /\ s.ctx.room = s.user
            /\ s.gate.gen = s.ctx.gen

StatusSaved(s) ==       \* getProjectPersistenceStatus().state = "saved"
    /\ s.ctx.hydrated /\ ~s.ctx.failed
    /\ s.ctx.latest = None /\ ~Saving(s)

\* With one tab, the status "saved" means that the record in IndexedDB
\* reflects every edit the user sees.
SavedIsDurable ==
    \A t \in Tabs : LET s == tab[t] IN
        StatusSaved(s) => /\ idb[s.ctx.room] # None
                          /\ s.store.edits \subseteq idb[s.ctx.room].ws.edits

\* With one tab, IndexedDB never loses an edit it holds: no save stores a
\* workspace that was not built on the record it replaces.
NoBlindOverwrite ==
    [][\A r \in Rooms : idb[r] # None =>
          idb'[r] # None /\ idb[r].ws.edits \subseteq idb'[r].ws.edits]_idb

\* While the auth lookup has answered and the page stays mounted, hydration
\* ends: no overlap of session events leaves the room locked.
HydrationCompletes ==
    \A t \in Tabs :
        tab[t].mounted /\ tab[t].authed
            ~> tab[t].gate.hydrated \/ ~tab[t].mounted

\* While a room is in recovery its saver holds nothing and saves nothing, so
\* what the room stored stays as it was until a reduction makes it fit.
RecoveryFreezesSaver ==
    \A t \in Tabs : LET s == tab[t] IN
        s.recovery => s.ctx.latest = None /\ ~Saving(s)

-----------------------------------------------------------------------------
(* The inductive invariant that carries RoomIsolation and LeaseMatchesRoom. *)

\* The context holds the gate's lease, in the room of the session; without a
\* context the gate is locked.
Leased(s) ==
    /\ s.starting => s.mounted
    /\ s.gate.gen <= s.gen
    /\ s.gate.hydrated => s.ctx.hydrated
    /\ s.ctx.gen = 0 => s.ctx = NoContext /\ s.gate.room = Pending /\ ~s.gate.hydrated
    /\ s.ctx.gen # 0 => /\ s.mounted
                        /\ s.gate.gen = s.ctx.gen /\ s.gate.room = s.ctx.room
                        /\ s.ctx.room = s.user

\* A request names the room its lease was handed out for.
Sourced(s, req) ==
    /\ Within(req.ws, req.room)
    /\ req.gen <= s.gen
    /\ req.gen = s.ctx.gen => req.room = s.ctx.room

\* What the tab carries outside its store stays in the room it came from.
Carried(s) ==
    /\ s.ctx.latest # None => Within(s.ctx.latest, s.ctx.room)
    /\ \A i \in DOMAIN s.queue : Sourced(s, s.queue[i])
    /\ \A i \in DOMAIN s.inbox : Within(s.inbox[i].ws, s.inbox[i].room)

Kept(storage) == \A r \in Rooms : storage[r] # None => Within(storage[r].ws, r)

\* Every tab holds one consistent lease, and everything a tab or the storage
\* holds, the answers and broadcasts in flight included, belongs to its room.
IInv ==
    /\ TypeOK
    /\ Kept(local) /\ Kept(idb)
    /\ \A t \in Tabs : LET s == tab[t] IN
          Leased(s) /\ Carried(s) /\ Within(s.store, s.user)

-----------------------------------------------------------------------------
(* What the documentation promises and the code does not keep.             *)

\* "normal authoring resumes once the room fits" (ARCHITECTURE.md:305): the
\* recovery flag blocks writes only while the visible workspace is too big.
AuthoringResumes ==
    \A t \in Tabs :
        tab[t].gate.hydrated /\ tab[t].recovery => tab[t].store.big

\* Plans and code "survive reload in the same verified-user browser room"
\* (docs/CHATGPT_SITE_RUNBOOK.md:138): with one tab and reliable storage,
\* hydration never ends with a store that lacks an edit localStorage holds.
NewerLocalSurvives ==
    [][\A t \in Tabs : LET s == tab'[t] IN
          ~tab[t].gate.hydrated /\ s.gate.hydrated /\ local[s.user] # None
              => local[s.user].ws.edits \subseteq s.store.edits]_vars

=============================================================================
