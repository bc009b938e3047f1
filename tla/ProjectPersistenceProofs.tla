---------------------- MODULE ProjectPersistenceProofs ----------------------
(***************************************************************************)
(* What is proved of ProjectPersistence, in four passes of the same form:  *)
(* one lemma per function of the code, one per action, one induction.      *)
(*                                                                         *)
(*  1. Room isolation, for every set of tabs and rooms, every failure and  *)
(*     every bound, from IInv.                                             *)
(*  2. A room in recovery saves nothing, under the same generality, from   *)
(*     IInv and FrozenTabs.                                                *)
(*  3. For one tab and rooms that fit, the status "saved" is true, from    *)
(*     SavingInv on top of the two.                                        *)
(*  4. If the first read and localStorage work besides, no save drops what *)
(*     IndexedDB holds, from GrowingInv on top of the three.               *)
(***************************************************************************)
EXTENDS ProjectPersistence, SequenceTheorems, TLAPS

Sound(s) == s \in TabState /\ Leased(s) /\ Carried(s)

\* The function that made n from s left the session and its lease alone.
SameLease(s, n) ==
    /\ n.user = s.user /\ n.mounted = s.mounted /\ n.starting = s.starting
    /\ n.ctx.gen = s.ctx.gen /\ n.ctx.room = s.ctx.room

LEMMA AppendElements ==
    ASSUME NEW S, NEW q \in Seq(S), NEW e \in S
    PROVE  /\ Append(q, e) \in Seq(S)
           /\ \A i \in DOMAIN Append(q, e) :
                 Append(q, e)[i] = e \/ \E j \in DOMAIN q : Append(q, e)[i] = q[j]
<1>1. /\ Append(q, e) \in Seq(S) /\ Len(Append(q, e)) = Len(q) + 1
      /\ \A i \in 1..Len(q) : Append(q, e)[i] = q[i]
      /\ Append(q, e)[Len(q) + 1] = e
  BY AppendProperties
<1>2. /\ DOMAIN q = 1..Len(q) /\ Len(q) \in Nat
      /\ DOMAIN Append(q, e) = 1..Len(Append(q, e))
  BY <1>1, LenProperties
<1>3. \A i \in 1..(Len(q) + 1) : i = Len(q) + 1 \/ i \in 1..Len(q)
  BY <1>2
<1> QED BY <1>1, <1>2, <1>3

LEMMA TailElements ==
    ASSUME NEW S, NEW q \in Seq(S), q # <<>>
    PROVE  /\ Tail(q) \in Seq(S) /\ Head(q) \in S
           /\ 1 \in DOMAIN q /\ Head(q) = q[1]
           /\ \A i \in DOMAIN Tail(q) : \E j \in DOMAIN q : Tail(q)[i] = q[j]
<1>1. /\ Head(q) \in S /\ Tail(q) \in Seq(S) /\ Len(Tail(q)) = Len(q) - 1
      /\ \A i \in 1..Len(Tail(q)) : Tail(q)[i] = q[i + 1]
  BY HeadTailProperties
<1>2. /\ DOMAIN q = 1..Len(q) /\ Len(q) \in Nat /\ Len(q) # 0
      /\ DOMAIN Tail(q) = 1..Len(Tail(q))
  BY <1>1, LenProperties, EmptySeq
<1>3. Head(q) = q[1]
  OBVIOUS
<1>4. \A i \in 1..(Len(q) - 1) : i + 1 \in 1..Len(q)
  BY <1>2
<1> QED BY <1>1, <1>2, <1>3, <1>4

LEMMA SeqElements ==
    ASSUME NEW S, NEW q \in Seq(S)
    PROVE  \A i \in DOMAIN q : q[i] \in S
<1>1. DOMAIN q = 1..Len(q)
  BY LenProperties
<1> QED BY <1>1, ElementOfSeq

LEMMA Constants ==
    /\ Empty \in Workspace /\ \A r \in Rooms : Within(Empty, r)
    /\ NoContext \in Context /\ NoGate \in Gate /\ NoLease \in Lease
    /\ 0 \in 0..MaxGen /\ 0 \in 0..MaxEdits
  BY PersistenceAssumption DEF Empty, Workspace, Within, NoContext, Context, NoGate, Gate,
     NoLease, Lease

-----------------------------------------------------------------------------
(* The functions of one tab.                                               *)

\* A tab with a lease saves and reads in the room of the session.
LEMMA LeaseIsSession ==
    ASSUME NEW s, Sound(s), s.ctx.gen # 0
    PROVE  /\ s.mounted /\ s.ctx.room = s.user /\ s.ctx.room \in Rooms
           /\ s.ctx.gen \in 1..MaxGen /\ s.gate.gen = s.ctx.gen
           /\ s.gate.room = s.ctx.room /\ s.ctx.gen <= s.gen
  BY PersistenceAssumption DEF Sound, Leased, TabState, Context

LEMMA CompleteSound ==
    ASSUME NEW s, Sound(s), NEW failed \in BOOLEAN, s.ctx.gen # 0
    PROVE  /\ Sound(Complete(s, failed)) /\ SameLease(s, Complete(s, failed))
           /\ Complete(s, failed).store = s.store
<1> DEFINE n == Complete(s, failed)
<1>1. n \in TabState
  BY DEF Complete, Sound, TabState, Context, Gate
<1>2. /\ n.ctx.hydrated /\ n.ctx.gen = s.ctx.gen /\ n.ctx.room = s.ctx.room
      /\ n.ctx.latest = s.ctx.latest
      /\ n.gate.gen = s.gate.gen /\ n.gate.room = s.gate.room /\ n.gen = s.gen
      /\ n.user = s.user /\ n.mounted = s.mounted /\ n.starting = s.starting /\ n.store = s.store
      /\ n.queue = s.queue /\ n.inbox = s.inbox
  BY DEF Complete, Sound, TabState, Context, Gate
<1>3. Leased(n)
  BY <1>2 DEF Sound, Leased
<1>4. Carried(n)
  BY <1>2 DEF Sound, Carried, Sourced
<1> QED BY <1>1, <1>2, <1>3, <1>4 DEF Sound, SameLease

LEMMA IssueSound ==
    ASSUME NEW s, Sound(s), s.ctx.gen # 0, NEW kind \in Kinds, NEW ws \in Workspace,
           Within(ws, s.ctx.room), NEW expect \in Nat
    PROVE  /\ Sound(Issue(s, kind, ws, expect)) /\ SameLease(s, Issue(s, kind, ws, expect))
           /\ Issue(s, kind, ws, expect).store = s.store
<1> DEFINE n == Issue(s, kind, ws, expect)
           req == [kind |-> kind, gen |-> s.ctx.gen, room |-> s.ctx.room,
                   ws |-> ws, expect |-> expect]
<1>1. req \in Request /\ Sourced(s, req)
  BY LeaseIsSession DEF Request, Sourced
<1>2. s.queue \in Seq(Request)
  BY DEF Sound, TabState
<1>3. /\ n.queue = Append(s.queue, req)
      /\ n.user = s.user /\ n.mounted = s.mounted /\ n.starting = s.starting /\ n.store = s.store
      /\ n.ctx = s.ctx /\ n.gate = s.gate /\ n.gen = s.gen /\ n.inbox = s.inbox
  BY DEF Issue, Sound, TabState
<1>4. Append(s.queue, req) \in Seq(Request)
  BY <1>1, <1>2, AppendElements
<1>5. n \in TabState
  BY <1>4 DEF Issue, Sound, TabState
<1>6. Leased(n)
  BY <1>3 DEF Sound, Leased
<1>7. \A i \in DOMAIN n.queue : Sourced(s, n.queue[i])
  BY <1>1, <1>2, <1>3, AppendElements DEF Sound, Carried
<1>8. Carried(n)
  BY <1>3, <1>7 DEF Sound, Carried, Sourced
<1> QED BY <1>3, <1>5, <1>6, <1>8 DEF Sound, SameLease

\* A store that is in the session's room stays there in what the saver keeps.
LEMMA ScheduleSaveSound ==
    ASSUME NEW s, Sound(s), Within(s.store, s.user)
    PROVE  /\ Sound(ScheduleSave(s)) /\ SameLease(s, ScheduleSave(s))
           /\ ScheduleSave(s).store = s.store
<1> DEFINE n == ScheduleSave(s)
<1>1. CASE ~(s.ctx.hydrated /\ ~s.recovery)
  <2>1. n = s
    BY <1>1 DEF ScheduleSave
  <2> QED BY <2>1 DEF SameLease
<1>2. CASE s.ctx.hydrated /\ ~s.recovery
  <2>1. s.ctx.gen # 0
    BY <1>2 DEF Sound, Leased, NoContext
  <2> DEFINE c == [s.ctx EXCEPT !.latest = s.store, !.failed = FALSE]
  <2>2. n = [s EXCEPT !.ctx = c]
    BY <1>2 DEF ScheduleSave, Sound, TabState, Context
  <2>3. c \in Context
    BY DEF Sound, TabState, Context
  <2>4. n \in TabState
    BY <2>2, <2>3 DEF Sound, TabState
  <2>5. /\ n.ctx.hydrated = s.ctx.hydrated /\ n.ctx.gen = s.ctx.gen
        /\ n.ctx.room = s.ctx.room /\ n.ctx.latest = s.store
        /\ n.gate = s.gate /\ n.gen = s.gen
        /\ n.user = s.user /\ n.mounted = s.mounted /\ n.starting = s.starting /\ n.store = s.store
        /\ n.queue = s.queue /\ n.inbox = s.inbox
    BY <2>2 DEF Sound, TabState, Context
  <2>6. Leased(n)
    BY <2>1, <2>5 DEF Sound, Leased
  <2>7. Within(n.ctx.latest, n.ctx.room)
    BY <2>1, <2>5, LeaseIsSession
  <2>8. Carried(n)
    BY <2>5, <2>7 DEF Sound, Carried, Sourced
  <2> QED BY <2>4, <2>5, <2>6, <2>8 DEF Sound, SameLease
<1> QED BY <1>1, <1>2

LEMMA ChangedSound ==
    ASSUME NEW s, Sound(s), NEW ws \in Workspace, Within(ws, s.user), NEW expected \in BOOLEAN
    PROVE  /\ Sound(Changed(s, ws, expected)) /\ SameLease(s, Changed(s, ws, expected))
           /\ Within(Changed(s, ws, expected).store, s.user)
<1> DEFINE set == [s EXCEPT !.store = ws]
           n == Changed(s, ws, expected)
<1>1. /\ set \in TabState /\ set.store = ws
      /\ set.ctx = s.ctx /\ set.gate = s.gate /\ set.gen = s.gen
      /\ set.user = s.user /\ set.mounted = s.mounted /\ set.starting = s.starting
      /\ set.queue = s.queue /\ set.inbox = s.inbox
  BY DEF Sound, TabState
<1>2. Sound(set) /\ SameLease(s, set) /\ Within(set.store, set.user)
  BY <1>1 DEF Sound, Leased, Carried, Sourced, SameLease
<1>3. CASE ~s.mounted \/ s.ctx.gen = 0
  <2>1. n = set
    BY <1>3 DEF Changed
  <2> QED BY <2>1, <1>1, <1>2
<1>4. CASE ~(~s.mounted \/ s.ctx.gen = 0) /\ s.ctx.hydrated
  <2>1. n = ScheduleSave(set)
    BY <1>4 DEF Changed
  <2>2. /\ Sound(n) /\ SameLease(set, n) /\ n.store = set.store
    BY <2>1, <1>2, ScheduleSaveSound
  <2> QED BY <2>2, <1>1, <1>2 DEF SameLease
<1>5. CASE ~(~s.mounted \/ s.ctx.gen = 0) /\ ~s.ctx.hydrated
  <2> DEFINE c == [s.ctx EXCEPT !.pend = @ \/ ~expected]
  <2>1. n = [set EXCEPT !.ctx = c]
    BY <1>1, <1>5 DEF Changed, TabState
  <2>2. c \in Context
    BY DEF Sound, TabState, Context
  <2>3. n \in TabState
    BY <2>1, <2>2, <1>1 DEF TabState
  <2>4. /\ n.ctx.hydrated = s.ctx.hydrated /\ n.ctx.gen = s.ctx.gen
        /\ n.ctx.room = s.ctx.room /\ n.ctx.latest = s.ctx.latest
        /\ n.gate = s.gate /\ n.gen = s.gen
        /\ n.user = s.user /\ n.mounted = s.mounted /\ n.starting = s.starting /\ n.store = ws
        /\ n.queue = s.queue /\ n.inbox = s.inbox
    BY <2>1, <1>1 DEF TabState, Context
  <2>5. Leased(n) /\ Carried(n)
    BY <2>4, <1>5 DEF Sound, Leased, Carried, Sourced
  <2> QED BY <2>3, <2>4, <2>5 DEF Sound, SameLease
<1> QED BY <1>3, <1>4, <1>5

-----------------------------------------------------------------------------
(* Hydration.                                                              *)

Record == [ws : Workspace, rev : Nat \ {0}, at : 0..MaxEdits]
LocalStorage == [Rooms -> [ws : Workspace, at : 0..MaxEdits] \cup {None}]
Database == [Rooms -> Record \cup {None}]

\* A sound tab whose store is in the session's room.
Safe(s) == Sound(s) /\ Within(s.store, s.user)

\* A sound tab whose session may already be another one than its lease's.
Unsettled(s) ==
    /\ s \in TabState /\ Carried(s)
    /\ s.starting => s.mounted
    /\ s.gate.gen <= s.gen
    /\ s.gate.hydrated => s.ctx.hydrated
    /\ s.ctx.gen = 0 => s.ctx = NoContext /\ s.gate.room = Pending /\ ~s.gate.hydrated
    /\ s.ctx.gen # 0 => s.mounted /\ s.gate.gen = s.ctx.gen /\ s.gate.room = s.ctx.room

LEMMA StoredWithin ==
    ASSUME NEW loc \in LocalStorage, Kept(loc), NEW r \in Rooms
    PROVE  /\ Stored(loc, r) \in Workspace /\ Within(Stored(loc, r), r)
           /\ StoredAt(loc, r) \in 0..MaxEdits
           /\ loc[r] # None => loc[r].ws \in Workspace /\ Within(loc[r].ws, r)
  BY Constants DEF LocalStorage, Kept, Stored, StoredAt

\* A fresh generation is newer than the lease of every request in flight.
LEMMA FreshLeaseSound ==
    ASSUME NEW s, Unsettled(s), s.mounted, s.gen + 1 \in 1..MaxGen,
           NEW g \in Gate, g.gen = s.gen + 1, g.room = s.user, ~g.hydrated,
           NEW c \in Context, c.gen = s.gen + 1, c.room = s.user, c.latest = None
    PROVE  LET n == [s EXCEPT !.gen = s.gen + 1, !.gate = g, !.ctx = c]
           IN  /\ Sound(n) /\ n.ctx.gen # 0 /\ n.ctx.room = s.user
               /\ n.user = s.user /\ n.store = s.store
<1> DEFINE n == [s EXCEPT !.gen = s.gen + 1, !.gate = g, !.ctx = c]
<1>1. s.gen \in Nat /\ s.gen + 1 \in 0..MaxGen
  BY PersistenceAssumption DEF Unsettled, TabState
<1>2. n \in TabState
  BY <1>1 DEF Unsettled, TabState
<1>3. /\ n.ctx = c /\ n.gate = g /\ n.gen = s.gen + 1
      /\ n.user = s.user /\ n.mounted = s.mounted /\ n.starting = s.starting /\ n.store = s.store
      /\ n.queue = s.queue /\ n.inbox = s.inbox
  BY DEF Unsettled, TabState
<1>4. c.gen # 0
  BY <1>1
<1>5. Leased(n)
  BY <1>1, <1>3, <1>4 DEF Leased
<1>6. \A i \in DOMAIN s.queue :
         /\ s.queue[i].gen \in Nat /\ s.queue[i].gen <= s.gen
         /\ Within(s.queue[i].ws, s.queue[i].room)
  <2>1. s.queue \in Seq(Request)
    BY DEF Unsettled, TabState
  <2>2. \A i \in DOMAIN s.queue : s.queue[i].gen \in Nat
    <3>1. \A i \in DOMAIN s.queue : s.queue[i] \in Request
      BY <2>1, SeqElements
    <3>2. \A req \in Request : req.gen \in Nat
      BY PersistenceAssumption DEF Request
    <3> QED BY <3>1, <3>2
  <2>3. \A i \in DOMAIN s.queue : Sourced(s, s.queue[i])
    BY DEF Unsettled, Carried
  <2> QED BY <2>2, <2>3 DEF Sourced
<1>7. Carried(n)
  BY <1>1, <1>3, <1>6 DEF Unsettled, Carried, Sourced
<1> QED BY <1>2, <1>3, <1>4, <1>5, <1>7 DEF Sound

LEMMA BeginHydrationSound ==
    ASSUME NEW s, Unsettled(s), s.mounted, HasLease(s, s.user),
           NEW loc \in LocalStorage, Kept(loc)
    PROVE  /\ Sound(BeginHydration(s, loc))
           /\ BeginHydration(s, loc).user = s.user /\ BeginHydration(s, loc).store = s.store
<1> DEFINE n == BeginHydration(s, loc)
<1>1. CASE s.ctx.room = s.user
  <2> DEFINE c == [s.ctx EXCEPT !.joined = @ /\ s.ctx.hydrated]
  <2>1. n = [s EXCEPT !.ctx = c]
    BY <1>1 DEF BeginHydration, Unsettled, TabState, Context
  <2>2. c \in Context
    BY DEF Unsettled, TabState, Context
  <2>3. n \in TabState
    BY <2>1, <2>2 DEF Unsettled, TabState
  <2>4. /\ n.ctx.hydrated = s.ctx.hydrated /\ n.ctx.gen = s.ctx.gen
        /\ n.ctx.room = s.ctx.room /\ n.ctx.latest = s.ctx.latest
        /\ n.gate = s.gate /\ n.gen = s.gen
        /\ n.user = s.user /\ n.mounted = s.mounted /\ n.starting = s.starting /\ n.store = s.store
        /\ n.queue = s.queue /\ n.inbox = s.inbox
    BY <2>1 DEF Unsettled, TabState, Context
  <2>5. s.ctx.gen # 0
    BY <1>1, PersistenceAssumption DEF Unsettled, NoContext, TabState
  <2>6. Leased(n)
    BY <1>1, <2>4, <2>5 DEF Leased, Unsettled
  <2>7. Carried(n)
    BY <2>4 DEF Unsettled, Carried, Sourced
  <2> QED BY <2>3, <2>4, <2>6, <2>7 DEF Sound
<1>2. CASE s.ctx.room # s.user
  <2> DEFINE g == [gen |-> s.gen + 1, room |-> s.user, hydrated |-> FALSE]
             c == [NoContext EXCEPT !.gen = s.gen + 1, !.room = s.user, !.joined = TRUE,
                                    !.localAt = StoredAt(loc, s.user)]
             fresh == [s EXCEPT !.gen = s.gen + 1, !.gate = g, !.ctx = c]
             begun == BeginRoom(s, s.user)
  <2>1. /\ s.user \in Rooms /\ s.gen \in Nat /\ s.gen < MaxGen
        /\ s.gen + 1 \in 1..MaxGen
    BY <1>2, PersistenceAssumption DEF HasLease, Unsettled, TabState
  <2>2. s.gate.room # s.user
    BY <1>2, <2>1, PersistenceAssumption DEF Unsettled
  <2>3. begun = [s EXCEPT !.gen = s.gen + 1, !.gate = g]
    BY <2>2 DEF BeginRoom, Unsettled, TabState
  <2>4. n = IF s.recovery THEN Complete(fresh, TRUE) ELSE Issue(fresh, "load", Empty, 0)
    <3>1. begun.gate.gen = s.gen + 1 /\ [begun EXCEPT !.ctx = c] = fresh
      BY <2>3 DEF Unsettled, TabState
    <3>2. n = IF s.recovery THEN Complete([begun EXCEPT !.ctx = c], TRUE)
                            ELSE Issue([begun EXCEPT !.ctx = c], "load", Empty, 0)
      <4> HIDE DEF begun
      <4> QED BY <1>2, <3>1 DEF BeginHydration, begun
    <3> QED BY <3>1, <3>2
  <2>5. g \in Gate /\ g.gen = s.gen + 1 /\ g.room = s.user /\ ~g.hydrated
    BY <2>1 DEF Gate
  <2>6. /\ c \in Context /\ c.gen = s.gen + 1 /\ c.room = s.user
        /\ ~c.hydrated /\ c.latest = None
    <3>1. StoredAt(loc, s.user) \in 0..MaxEdits
      BY <2>1, StoredWithin
    <3>2. s.gen + 1 \in 0..MaxGen
      BY <2>1
    <3>3. c \in Context
      BY <2>1, <3>1, <3>2, Constants DEF Context
    <3>4. c.gen = s.gen + 1 /\ c.room = s.user /\ ~c.hydrated /\ c.latest = None
      BY DEF NoContext
    <3> QED BY <3>3, <3>4
  <2> HIDE DEF g, c
  <2>7. /\ Sound(fresh) /\ fresh.ctx.gen # 0 /\ fresh.ctx.room = s.user
        /\ fresh.user = s.user /\ fresh.store = s.store
    BY <2>1, <2>5, <2>6, FreshLeaseSound
  <2>8. CASE s.recovery
    <3> HIDE DEF fresh
    <3>1. n = Complete(fresh, TRUE)
      BY <2>4, <2>8
    <3> QED BY <2>7, <3>1, CompleteSound DEF SameLease
  <2>9. CASE ~s.recovery
    <3> HIDE DEF fresh
    <3>1. n = Issue(fresh, "load", Empty, 0)
      BY <2>4, <2>9
    <3>2. "load" \in Kinds /\ Empty \in Workspace /\ Within(Empty, fresh.ctx.room)
      BY <2>1, <2>7, Constants DEF Kinds
    <3> QED BY <2>7, <3>1, <3>2, IssueSound DEF SameLease
  <2> QED BY <2>8, <2>9
<1> QED BY <1>1, <1>2

LEMMA HydrateSound ==
    ASSUME NEW s, Unsettled(s), s.mounted, HasLease(s, s.user),
           NEW loc \in LocalStorage, Kept(loc)
    PROVE  /\ Sound(Hydrate(s, loc))
           /\ Hydrate(s, loc).user = s.user /\ Hydrate(s, loc).store = s.store
<1>1. CASE s.ctx.room = s.user /\ ~s.ctx.hydrated
  <2>1. Hydrate(s, loc) = s
    BY <1>1 DEF Hydrate
  <2>2. s.ctx.gen # 0
    BY <1>1, PersistenceAssumption DEF Unsettled, NoContext, TabState
  <2> QED BY <1>1, <2>1, <2>2 DEF Unsettled, Sound, Leased
<1>2. CASE ~(s.ctx.room = s.user /\ ~s.ctx.hydrated)
  BY <1>2, BeginHydrationSound DEF Hydrate
<1> QED BY <1>1, <1>2

LEMMA ReloadSafe ==
    ASSUME NEW s, Sound(s), NEW loc \in LocalStorage, Kept(loc), NEW roomChanged \in BOOLEAN,
           ~roomChanged => Within(s.store, s.user)
    PROVE  Safe(Reload(s, loc, roomChanged)) /\ Reload(s, loc, roomChanged).user = s.user
<1>1. CASE ~roomChanged /\ s.gate.hydrated
  BY <1>1 DEF Reload, Safe
<1>2. CASE ~(~roomChanged /\ s.gate.hydrated)
  <2> DEFINE next == Stored(loc, s.user)
             m == [s EXCEPT !.recovery = next.big]
             expected == s.gate.gen # 0 /\ ~s.gate.hydrated
  <2>1. Reload(s, loc, roomChanged) = Changed(m, next, expected)
    BY <1>2 DEF Reload
  <2>2. s.user \in Rooms /\ next \in Workspace /\ Within(next, s.user)
    BY StoredWithin DEF Sound, TabState
  <2>3. next.big \in BOOLEAN /\ expected \in BOOLEAN
    BY <2>2 DEF Workspace, Sound, TabState, Gate
  <2>4. m \in TabState
    BY <2>3 DEF Sound, TabState
  <2>5. /\ m.ctx = s.ctx /\ m.gate = s.gate /\ m.gen = s.gen
        /\ m.user = s.user /\ m.mounted = s.mounted /\ m.starting = s.starting
        /\ m.queue = s.queue /\ m.inbox = s.inbox
    BY DEF Sound, TabState
  <2>6. Sound(m)
    BY <2>4, <2>5 DEF Sound, Leased, Carried, Sourced
  <2> HIDE DEF m, next, expected
  <2>7. /\ Sound(Changed(m, next, expected)) /\ SameLease(m, Changed(m, next, expected))
        /\ Within(Changed(m, next, expected).store, m.user)
    BY <2>2, <2>3, <2>5, <2>6, ChangedSound
  <2> QED BY <2>1, <2>5, <2>7 DEF Safe, SameLease
<1> QED BY <1>1, <1>2

-----------------------------------------------------------------------------
(* The continuations of IndexedDB's answers, all run by the context that    *)
(* made the request.                                                       *)

LEMMA PreserveSafe ==
    ASSUME NEW s, Safe(s), s.ctx.gen # 0, NEW rev \in Nat
    PROVE  Safe(Preserve(s, rev))
<1> DEFINE c == [s.ctx EXCEPT !.pend = FALSE]
           m == [s EXCEPT !.ctx = c]
<1>1. Preserve(s, rev) = Issue(m, "preserve", s.store, rev)
  BY DEF Preserve, Safe, Sound, TabState
<1>2. c \in Context
  BY DEF Safe, Sound, TabState, Context
<1>3. m \in TabState
  BY <1>2 DEF Safe, Sound, TabState
<1>4. /\ m.ctx.hydrated = s.ctx.hydrated /\ m.ctx.gen = s.ctx.gen
      /\ m.ctx.room = s.ctx.room /\ m.ctx.latest = s.ctx.latest
      /\ m.gate = s.gate /\ m.gen = s.gen
      /\ m.user = s.user /\ m.mounted = s.mounted /\ m.starting = s.starting /\ m.store = s.store
      /\ m.queue = s.queue /\ m.inbox = s.inbox
  BY DEF Safe, Sound, TabState, Context
<1>5. Sound(m)
  BY <1>3, <1>4 DEF Safe, Sound, Leased, Carried, Sourced
<1>6. s.store \in Workspace /\ Within(s.store, m.ctx.room) /\ "preserve" \in Kinds
  BY <1>4, LeaseIsSession DEF Safe, Sound, TabState, Kinds
<1> HIDE DEF m, c
<1>7. /\ Sound(Issue(m, "preserve", s.store, rev))
      /\ SameLease(m, Issue(m, "preserve", s.store, rev))
      /\ Issue(m, "preserve", s.store, rev).store = m.store
  BY <1>4, <1>5, <1>6, IssueSound
<1> QED BY <1>1, <1>4, <1>7 DEF Safe, SameLease

LEMMA ApplySafe ==
    ASSUME NEW s, Sound(s), s.ctx.gen # 0, NEW ws \in Workspace, Within(ws, s.ctx.room)
    PROVE  Safe(Apply(s, ws))
<1> DEFINE m == [s EXCEPT !.store = ws, !.recovery = @ \/ ws.big]
<1>1. ws.big \in BOOLEAN /\ Within(ws, s.user)
  BY LeaseIsSession DEF Workspace
<1>2. m \in TabState
  BY <1>1 DEF Sound, TabState
<1>3. /\ m.ctx = s.ctx /\ m.gate = s.gate /\ m.gen = s.gen
      /\ m.user = s.user /\ m.mounted = s.mounted /\ m.starting = s.starting /\ m.store = ws
      /\ m.queue = s.queue /\ m.inbox = s.inbox
  BY DEF Sound, TabState
<1>4. Sound(m)
  BY <1>2, <1>3 DEF Sound, Leased, Carried, Sourced
<1>5. Apply(s, ws) = Complete(m, ws.big)
  BY DEF Apply
<1> HIDE DEF m
<1>6. /\ Sound(Complete(m, ws.big)) /\ SameLease(m, Complete(m, ws.big))
      /\ Complete(m, ws.big).store = m.store
  BY <1>1, <1>3, <1>4, CompleteSound
<1> QED BY <1>1, <1>3, <1>5, <1>6 DEF Safe, SameLease

LEMMA CompleteSafe ==
    ASSUME NEW s, Safe(s), s.ctx.gen # 0, NEW failed \in BOOLEAN
    PROVE  Safe(Complete(s, failed)) /\ Safe(CompleteAndSave(s, failed))
<1> DEFINE n == Complete(s, failed)
<1>1. Sound(n) /\ SameLease(s, n) /\ n.store = s.store
  BY CompleteSound DEF Safe
<1>2. Safe(n)
  BY <1>1 DEF Safe, SameLease
<1> HIDE DEF n
<1>3. Sound(ScheduleSave(n)) /\ SameLease(n, ScheduleSave(n)) /\ ScheduleSave(n).store = n.store
  BY <1>2, ScheduleSaveSound DEF Safe
<1> QED BY <1>2, <1>3 DEF Safe, SameLease, CompleteAndSave, n

LEMMA IssueSafe ==
    ASSUME NEW s, Safe(s), s.ctx.gen # 0, NEW kind \in Kinds, NEW ws \in Workspace,
           Within(ws, s.ctx.room), NEW expect \in Nat
    PROVE  Safe(Issue(s, kind, ws, expect))
  BY IssueSound DEF Safe, SameLease

LEMMA MigratedSafe ==
    ASSUME NEW s, Safe(s), s.ctx.gen # 0, NEW ws \in Workspace, Within(ws, s.ctx.room),
           NEW rev \in Nat
    PROVE  Safe(Migrated(s, ws, rev))
  BY PreserveSafe, ApplySafe DEF Migrated, Safe

LEMMA SaveReturnedSafe ==
    ASSUME NEW s, Safe(s), NEW ok \in BOOLEAN, NEW flushed \in BOOLEAN, s.ctx.gen # 0
    PROVE  Safe(SaveReturned(s, ok, flushed))
<1> DEFINE c == [s.ctx EXCEPT !.failed = ~ok \/ (@ /\ ~flushed)]
           m == [s EXCEPT !.ctx = c]
<1>1. SaveReturned(s, ok, flushed) = m
  BY DEF SaveReturned, Safe, Sound, TabState
<1>2. c \in Context
  BY DEF Safe, Sound, TabState, Context
<1>3. m \in TabState
  BY <1>2 DEF Safe, Sound, TabState
<1>4. /\ m.ctx.hydrated = s.ctx.hydrated /\ m.ctx.gen = s.ctx.gen
      /\ m.ctx.room = s.ctx.room /\ m.ctx.latest = s.ctx.latest
      /\ m.gate = s.gate /\ m.gen = s.gen
      /\ m.user = s.user /\ m.mounted = s.mounted /\ m.starting = s.starting /\ m.store = s.store
      /\ m.queue = s.queue /\ m.inbox = s.inbox
  BY DEF Safe, Sound, TabState, Context
<1>5. Sound(m)
  BY <1>3, <1>4 DEF Safe, Sound, Leased, Carried, Sourced
<1> QED BY <1>1, <1>4, <1>5 DEF Safe

\* Whatever IndexedDB answers, the continuation keeps the tab safe.
LEMMA ContinueSafe ==
    ASSUME NEW s, Safe(s), s.ctx.gen # 0, local \in LocalStorage, Kept(local),
           NEW req \in Request, req.kind # "save", NEW ok \in BOOLEAN,
           NEW record \in Record \cup {None},
           record # None => Within(record.ws, s.ctx.room),
           req.kind \notin {"load", "probe"} /\ ok =>
              record \in Record /\ Within(record.ws, s.ctx.room)
    PROVE  Safe(Continue(s, req, ok, record))
<1>1. record # None => record.ws \in Workspace /\ record.rev \in Nat
  BY DEF Record
<1>2. /\ s.ctx.room \in Rooms /\ Empty \in Workspace /\ Within(Empty, s.ctx.room)
      /\ {"load", "probe", "migrate", "preserve"} \subseteq Kinds
  BY LeaseIsSession, Constants DEF Safe, Kinds
<1>3. req.kind \in {"load", "probe", "migrate", "preserve"}
  BY DEF Request, Kinds
<1>4. CASE req.kind = "load"
  <2>1. Continue(s, req, ok, record) = Loaded(s, ok, record)
    BY <1>4 DEF Continue
  <2>2. CASE ~ok
    BY <2>1, <2>2, CompleteSafe DEF Loaded
  <2>3. CASE ok /\ record = None
    BY <1>2, <2>1, <2>3, IssueSafe DEF Loaded
  <2>4. CASE ok /\ record # None
    <3>1. CASE s.ctx.pend \/ s.ctx.localAt > record.at
      BY <1>1, <2>1, <2>4, <3>1, PreserveSafe DEF Loaded
    <3>2. CASE ~(s.ctx.pend \/ s.ctx.localAt > record.at)
      BY <1>1, <2>1, <2>4, <3>2, ApplySafe DEF Loaded, Safe
    <3> QED BY <3>1, <3>2
  <2> QED BY <2>2, <2>3, <2>4
<1>5. CASE req.kind = "probe"
  <2>1. Continue(s, req, ok, record) = Probed(s, ok, record, local)
    BY <1>5 DEF Continue
  <2>2. CASE ~ok \/ (record = None /\ local[s.ctx.room] = None)
    BY <2>1, <2>2, CompleteSafe DEF Probed
  <2>3. CASE ~(~ok \/ (record = None /\ local[s.ctx.room] = None)) /\ record = None
    <3>1. local[s.ctx.room].ws \in Workspace /\ Within(local[s.ctx.room].ws, s.ctx.room)
      BY <1>2, <2>3, StoredWithin
    <3> QED BY <1>2, <2>1, <2>3, <3>1, IssueSafe DEF Probed
  <2>4. CASE ok /\ record # None
    BY <1>1, <2>1, <2>4, MigratedSafe DEF Probed
  <2> QED BY <2>2, <2>3, <2>4
<1>6. CASE req.kind = "migrate"
  <2>1. CASE ok
    <3>1. record.ws \in Workspace /\ record.rev \in Nat /\ Within(record.ws, s.ctx.room)
      BY <1>6, <2>1 DEF Record
    <3>2. Continue(s, req, ok, record) = Migrated(s, record.ws, record.rev)
      BY <1>6, <2>1 DEF Continue
    <3> QED BY <3>1, <3>2, MigratedSafe
  <2>2. CASE ~ok
    <3>1. Continue(s, req, ok, record) = CompleteAndSave(s, FALSE)
      BY <1>6, <2>2 DEF Continue
    <3> QED BY <3>1, CompleteSafe
  <2> QED BY <2>1, <2>2
<1>7. CASE req.kind = "preserve"
  <2>1. Continue(s, req, ok, record) = Preserved(s, ok)
    BY <1>7 DEF Continue
  <2>2. ok = TRUE \/ ok = FALSE
    OBVIOUS
  <2>3. Safe(Complete(s, TRUE)) /\ Safe(Complete(s, FALSE))
    BY CompleteSafe
  <2>4. Safe(CompleteAndSave(s, TRUE)) /\ Safe(CompleteAndSave(s, FALSE))
    BY CompleteSafe
  <2> QED BY <2>1, <2>2, <2>3, <2>4 DEF Preserved
<1> QED BY <1>3, <1>4, <1>5, <1>6, <1>7

-----------------------------------------------------------------------------
(* The actions.                                                            *)

LEMMA IInvParts ==
    ASSUME IInv
    PROVE  /\ tab \in [Tabs -> TabState]
           /\ local \in LocalStorage /\ Kept(local) /\ idb \in Database /\ Kept(idb)
           /\ clock \in 0..MaxEdits /\ boots \in 0..MaxBoots
           /\ \A t \in Tabs : Safe(tab[t])
  BY DEF IInv, TypeOK, LocalStorage, Database, Record, Safe, Sound

LEMMA PartsIInv ==
    ASSUME tab' \in [Tabs -> TabState],
           local' \in LocalStorage, Kept(local'), idb' \in Database, Kept(idb'),
           clock' \in 0..MaxEdits, boots' \in 0..MaxBoots,
           \A t \in Tabs : Safe(tab'[t])
    PROVE  IInv'
<1>1. TypeOK'
  BY DEF TypeOK, LocalStorage, Database, Record
<1> QED BY <1>1 DEF IInv, Safe, Sound, Kept, Leased, Carried, Sourced, Within

\* A task of one tab leaves the other tabs as they were.
LEMMA TabStep ==
    ASSUME IInv, NEW t \in Tabs, NEW n, Safe(n), tab' = [tab EXCEPT ![t] = n],
           local' \in LocalStorage, Kept(local'), idb' \in Database, Kept(idb'),
           clock' \in 0..MaxEdits, boots' \in 0..MaxBoots
    PROVE  IInv'
<1>1. n \in TabState
  BY DEF Safe, Sound
<1>2. tab' \in [Tabs -> TabState]
  BY <1>1, IInvParts
<1>3. \A x \in Tabs : tab'[x] = IF x = t THEN n ELSE tab[x]
  BY IInvParts
<1>4. \A x \in Tabs : Safe(tab'[x])
  BY <1>3, IInvParts
<1> QED BY <1>2, <1>4, PartsIInv

LEMMA BecomeStep ==
    ASSUME IInv, NEW t \in Tabs, NEW n, Safe(n), Become(t, n)
    PROVE  IInv'
<1>1. /\ tab' = [tab EXCEPT ![t] = n]
      /\ local' = local /\ idb' = idb /\ clock' = clock /\ boots' = boots
  BY DEF Become
<1>2. /\ local' \in LocalStorage /\ Kept(local') /\ idb' \in Database /\ Kept(idb')
      /\ clock' \in 0..MaxEdits /\ boots' \in 0..MaxBoots
  BY <1>1, IInvParts
<1> QED BY <1>1, <1>2, TabStep

LEMMA BootSafe ==
    ASSUME NEW loc \in LocalStorage, Kept(loc)
    PROVE  Safe(Boot(loc))
<1> DEFINE n == Boot(loc)
<1>1. Stored(loc, Anon) \in Workspace /\ Within(Stored(loc, Anon), Anon)
  BY StoredWithin, PersistenceAssumption
<1>2. Stored(loc, Anon).big \in BOOLEAN
  BY <1>1 DEF Workspace
<1>3. <<>> \in Seq(Request) /\ <<>> \in Seq(Message)
  OBVIOUS
<1>4. n \in TabState
  BY <1>1, <1>2, <1>3, Constants, PersistenceAssumption DEF Boot, TabState
<1>5. /\ ~n.starting /\ n.gen = 0 /\ n.gate = NoGate /\ n.ctx = NoContext /\ n.user = Anon
      /\ n.store = Stored(loc, Anon) /\ n.queue = <<>> /\ n.inbox = <<>>
  BY DEF Boot
<1>6. Leased(n)
  BY <1>5 DEF Leased, NoGate, NoContext
<1>7. Carried(n)
  BY <1>5 DEF Carried, NoContext
<1> QED BY <1>1, <1>4, <1>5, <1>6, <1>7 DEF Safe, Sound

LEMMA InitEstablishes == Init => IInv
<1> SUFFICES ASSUME Init PROVE IInv
  OBVIOUS
<1>1. \A r \in Rooms : \A w \in Seeds(r) : w \in Workspace /\ Within(w, r)
  <2> SUFFICES ASSUME NEW r \in Rooms, NEW w \in Seeds(r)
               PROVE  w \in Workspace /\ Within(w, r)
    OBVIOUS
  <2> DEFINE big == IF r \in BigRooms THEN BOOLEAN ELSE {FALSE}
  <2>1. w \in [edits : {{<<r, 0>>}}, big : big] /\ big \subseteq BOOLEAN
    BY DEF Seeds
  <2>2. w \in [edits : {{<<r, 0>>}}, big : BOOLEAN] /\ w.edits = {<<r, 0>>}
    BY <2>1
  <2>3. <<r, 0>> \in Edits
    BY Constants DEF Edits
  <2>4. w \in Workspace
    BY <2>2, <2>3 DEF Workspace
  <2> QED BY <2>2, <2>4 DEF Within
<1>2. local \in LocalStorage /\ Kept(local)
  <2>1. \A r \in Rooms : local[r] \in LocalSeeds(r)
    BY DEF Init
  <2>2. \A r \in Rooms : local[r] \in [ws : Workspace, at : 0..MaxEdits] \cup {None}
    BY <1>1, <2>1, Constants DEF LocalSeeds
  <2>3. DOMAIN local = Rooms /\ local = [r \in Rooms |-> local[r]]
    BY DEF Init
  <2>4. Kept(local)
    BY <1>1, <2>1 DEF Kept, LocalSeeds
  <2> QED BY <2>2, <2>3, <2>4 DEF LocalStorage
<1>3. idb \in Database /\ Kept(idb)
  <2>1. \A r \in Rooms : idb[r] \in IdbSeeds(r)
    BY DEF Init
  <2>2. \A r \in Rooms : idb[r] \in Record \cup {None}
    BY <1>1, <2>1, Constants DEF IdbSeeds, Record
  <2>3. DOMAIN idb = Rooms /\ idb = [r \in Rooms |-> idb[r]]
    BY DEF Init
  <2>4. Kept(idb)
    BY <1>1, <2>1 DEF Kept, IdbSeeds
  <2> QED BY <2>2, <2>3, <2>4 DEF Database
<1>4. \A t \in Tabs : Safe(tab[t])
  BY <1>2, BootSafe DEF Init
<1>5. tab \in [Tabs -> TabState]
  BY <1>2, BootSafe DEF Init, Safe, Sound
<1>6. clock \in 0..MaxEdits /\ boots \in 0..MaxBoots
  BY PersistenceAssumption DEF Init
<1> QED BY <1>2, <1>3, <1>4, <1>5, <1>6
        DEF IInv, TypeOK, LocalStorage, Database, Record, Safe, Sound

LEMMA StartSafe ==
    ASSUME IInv, NEW t \in Tabs, Start(t)
    PROVE  IInv'
<1> DEFINE s == tab[t]
           g == [NoGate EXCEPT !.gen = s.gen + 1]
           n == [s EXCEPT !.mounted = TRUE, !.starting = TRUE, !.gen = @ + 1, !.gate = g]
<1>1. Safe(s) /\ s \in TabState /\ ~s.mounted /\ s.gen + 1 < MaxGen
  BY IInvParts DEF Start, Safe, Sound
<1>2. s.gen \in Nat /\ s.gen + 1 \in 0..MaxGen
  BY <1>1, PersistenceAssumption DEF TabState
<1>3. g \in Gate /\ g.gen = s.gen + 1 /\ g.room = Pending /\ ~g.hydrated
  BY <1>2, PersistenceAssumption DEF NoGate, Gate
<1>4. Become(t, n)
  BY DEF Start
<1> HIDE DEF g
<1>5. n \in TabState
  BY <1>1, <1>2, <1>3 DEF TabState
<1>6. /\ n.ctx = s.ctx /\ n.gate = g /\ n.gen = s.gen + 1 /\ n.mounted
      /\ n.user = s.user /\ n.store = s.store
      /\ n.queue = s.queue /\ n.inbox = s.inbox
  BY <1>1 DEF TabState
<1>7. s.ctx.gen = 0
  BY <1>1 DEF Safe, Sound, Leased
<1>8. Leased(n)
  BY <1>1, <1>2, <1>3, <1>6, <1>7 DEF Safe, Sound, Leased
<1>9. Carried(n)
  <2>1. \A i \in DOMAIN s.queue : Sourced(s, s.queue[i]) /\ s.queue[i].gen \in Nat
    <3>1. \A i \in DOMAIN s.queue : s.queue[i] \in Request
      BY <1>1, SeqElements DEF TabState
    <3>2. \A req \in Request : req.gen \in Nat
      BY PersistenceAssumption DEF Request
    <3> QED BY <1>1, <3>1, <3>2 DEF Safe, Sound, Carried
  <2> QED BY <1>1, <1>2, <1>6, <2>1 DEF Safe, Sound, Carried, Sourced
<1>10. Safe(n)
  BY <1>1, <1>5, <1>6, <1>8, <1>9 DEF Safe, Sound
<1> HIDE DEF n
<1> QED BY <1>4, <1>10, BecomeStep

\* The page's requests outlive its context: none has generation 0.
LEMMA StopSafe ==
    ASSUME IInv, NEW t \in Tabs, Stop(t)
    PROVE  IInv'
<1> DEFINE s == tab[t]
           n == [s EXCEPT !.mounted = FALSE, !.starting = FALSE,
                          !.gate = NoGate, !.ctx = NoContext]
<1>1. Safe(s) /\ s \in TabState
  BY IInvParts DEF Safe, Sound
<1>2. s.gen \in Nat
  BY <1>1, PersistenceAssumption DEF TabState
<1>3. Become(t, n)
  BY DEF Stop
<1>4. n \in TabState
  BY <1>1, Constants DEF TabState
<1>5. /\ n.ctx = NoContext /\ n.gate = NoGate /\ n.gen = s.gen /\ ~n.starting
      /\ n.user = s.user /\ n.store = s.store
      /\ n.queue = s.queue /\ n.inbox = s.inbox
  BY <1>1 DEF TabState
<1>6. Leased(n)
  BY <1>2, <1>5 DEF Leased, NoContext, NoGate
<1>7. Carried(n)
  <2>1. \A i \in DOMAIN s.queue : Sourced(s, s.queue[i]) /\ s.queue[i].gen # 0
    <3>1. \A i \in DOMAIN s.queue : s.queue[i] \in Request
      BY <1>1, SeqElements DEF TabState
    <3>2. \A req \in Request : req.gen # 0
      BY PersistenceAssumption DEF Request
    <3> QED BY <1>1, <3>1, <3>2 DEF Safe, Sound, Carried
  <2>2. NoContext.gen = 0 /\ NoContext.latest = None
    BY DEF NoContext
  <2> QED BY <1>1, <1>5, <2>1, <2>2 DEF Safe, Sound, Carried, Sourced
<1>8. Safe(n)
  BY <1>1, <1>4, <1>5, <1>6, <1>7 DEF Safe, Sound
<1> HIDE DEF n
<1> QED BY <1>3, <1>8, BecomeStep

LEMMA AuthReadySafe ==
    ASSUME IInv, NEW t \in Tabs, AuthReady(t)
    PROVE  IInv'
<1> DEFINE s == tab[t]
           m == [s EXCEPT !.starting = FALSE]
<1>1. Safe(s) /\ s \in TabState
  BY IInvParts DEF Safe, Sound
<1>2. /\ Become(t, Hydrate(m, local)) /\ HasLease(s, s.user) /\ s.starting
      /\ local \in LocalStorage /\ Kept(local)
  BY IInvParts DEF AuthReady
<1>3. m \in TabState
  BY <1>1 DEF TabState
<1>4. /\ m.ctx = s.ctx /\ m.gate = s.gate /\ m.gen = s.gen /\ ~m.starting
      /\ m.user = s.user /\ m.mounted = s.mounted /\ m.store = s.store
      /\ m.queue = s.queue /\ m.inbox = s.inbox
  BY <1>1 DEF TabState
<1>5. Unsettled(m)
  BY <1>1, <1>3, <1>4 DEF Safe, Sound, Leased, Unsettled, Carried, Sourced
<1>6. m.mounted /\ HasLease(m, m.user)
  BY <1>1, <1>2, <1>4 DEF Safe, Sound, Leased, HasLease
<1> HIDE DEF m
<1>7. Safe(Hydrate(m, local))
  <2>1. /\ Sound(Hydrate(m, local))
        /\ Hydrate(m, local).user = m.user /\ Hydrate(m, local).store = m.store
    BY <1>2, <1>5, <1>6, HydrateSound
  <2> QED BY <1>1, <1>4, <2>1 DEF Safe
<1> QED BY <1>2, <1>7, BecomeStep

LEMMA SessionChangeSafe ==
    ASSUME IInv, NEW t \in Tabs, NEW u \in Rooms, SessionChange(t, u)
    PROVE  IInv'
<1> DEFINE s == tab[t]
           signed == [s EXCEPT !.user = u, !.authed = TRUE]
           hydrating == IF s.mounted THEN Hydrate(signed, local) ELSE signed
<1>1. Safe(s) /\ s \in TabState
  BY IInvParts DEF Safe, Sound
<1>2. /\ Become(t, Reload(hydrating, local, u # s.user))
      /\ s.mounted => HasLease(s, u)
      /\ local \in LocalStorage /\ Kept(local)
  BY IInvParts DEF SessionChange
<1>3. signed \in TabState
  BY <1>1 DEF TabState
<1>4. /\ signed.ctx = s.ctx /\ signed.gate = s.gate /\ signed.gen = s.gen
      /\ signed.starting = s.starting
      /\ signed.user = u /\ signed.mounted = s.mounted /\ signed.store = s.store
      /\ signed.queue = s.queue /\ signed.inbox = s.inbox
  BY <1>1 DEF TabState
<1>5. Unsettled(signed)
  BY <1>1, <1>3, <1>4 DEF Safe, Sound, Leased, Unsettled, Carried, Sourced
<1>6. Sound(hydrating) /\ hydrating.user = u /\ hydrating.store = s.store
  <2>1. CASE s.mounted
    <3>1. signed.mounted /\ HasLease(signed, signed.user)
      BY <1>2, <1>4, <2>1 DEF HasLease
    <3> HIDE DEF signed
    <3> QED BY <1>2, <1>4, <1>5, <2>1, <3>1, HydrateSound
  <2>2. CASE ~s.mounted
    <3>1. Leased(signed)
      BY <1>1, <1>4, <2>2 DEF Safe, Sound, Leased
    <3> QED BY <1>3, <1>4, <1>5, <2>2, <3>1 DEF Sound, Unsettled
  <2> QED BY <2>1, <2>2
<1> HIDE DEF hydrating
<1>7. ~(u # s.user) => Within(hydrating.store, hydrating.user)
  BY <1>1, <1>6 DEF Safe
<1>8. (u # s.user) \in BOOLEAN
  OBVIOUS
<1>9. Safe(Reload(hydrating, local, u # s.user))
  BY <1>2, <1>6, <1>7, <1>8, ReloadSafe
<1> QED BY <1>2, <1>9, BecomeStep

LEMMA RestartSafe ==
    ASSUME IInv, NEW t \in Tabs, Restart(t)
    PROVE  IInv'
<1>1. boots' \in 0..MaxBoots
  BY IInvParts, PersistenceAssumption DEF Restart
<1>2. /\ tab' = [tab EXCEPT ![t] = Boot(local)]
      /\ local' = local /\ idb' = idb /\ clock' = clock
  BY DEF Restart
<1>3. Safe(Boot(local))
  BY IInvParts, BootSafe
<1>4. /\ local' \in LocalStorage /\ Kept(local') /\ idb' \in Database /\ Kept(idb')
      /\ clock' \in 0..MaxEdits
  BY <1>2, IInvParts
<1> QED BY <1>1, <1>2, <1>3, <1>4, TabStep

\* A broadcast adds one message of its own room to another tab's inbox.
LEMMA ReceiveSafe ==
    ASSUME NEW s, Safe(s), NEW m \in Message, Within(m.ws, m.room)
    PROVE  Safe([s EXCEPT !.inbox = Append(@, m)])
<1> DEFINE n == [s EXCEPT !.inbox = Append(s.inbox, m)]
<1>1. s \in TabState /\ s.inbox \in Seq(Message)
  BY DEF Safe, Sound, TabState
<1>2. Append(s.inbox, m) \in Seq(Message)
  BY <1>1, AppendElements
<1>3. n \in TabState
  BY <1>1, <1>2 DEF TabState
<1>4. /\ n.ctx = s.ctx /\ n.gate = s.gate /\ n.gen = s.gen
      /\ n.user = s.user /\ n.mounted = s.mounted /\ n.starting = s.starting
      /\ n.store = s.store /\ n.queue = s.queue /\ n.inbox = Append(s.inbox, m)
  BY <1>1 DEF TabState
<1>5. Leased(n)
  BY <1>4 DEF Safe, Sound, Leased
<1>6. \A i \in DOMAIN n.inbox : Within(n.inbox[i].ws, n.inbox[i].room)
  BY <1>1, <1>4, AppendElements DEF Safe, Sound, Carried
<1>7. Carried(n)
  BY <1>4, <1>6 DEF Safe, Sound, Carried, Sourced
<1>8. Safe(n)
  BY <1>3, <1>4, <1>5, <1>7 DEF Safe, Sound
<1> QED BY <1>1, <1>8 DEF TabState

LEMMA PublishSafe ==
    ASSUME IInv, NEW t \in Tabs, NEW ws \in Workspace, Within(ws, tab[t].user),
           NEW recovery \in BOOLEAN, NEW kept \in BOOLEAN, clock < MaxEdits,
           Publish(t, ws, recovery, kept)
    PROVE  IInv'
<1> DEFINE s == tab[t]
           m == [s EXCEPT !.recovery = recovery]
           n == Changed(m, ws, FALSE)
           broadcast == [room |-> s.user, ws |-> ws]
<1>1. Safe(s) /\ s \in TabState /\ s.user \in Rooms
  BY IInvParts DEF Safe, Sound, TabState
<1>2. clock + 1 \in 0..MaxEdits
  BY IInvParts, PersistenceAssumption
<1>3. /\ clock' = clock + 1 /\ idb' = idb /\ boots' = boots
      /\ local' = IF kept THEN [local EXCEPT ![s.user] = [ws |-> ws, at |-> clock + 1]]
                  ELSE local
      /\ tab' = [x \in Tabs |->
                   IF x = t THEN n
                   ELSE [tab[x] EXCEPT !.inbox = Append(@, broadcast)]]
  BY DEF Publish
<1>4. local' \in LocalStorage /\ Kept(local')
  <2>1. [ws |-> ws, at |-> clock + 1] \in [ws : Workspace, at : 0..MaxEdits]
    BY <1>2
  <2>2. local \in LocalStorage /\ Kept(local)
    BY IInvParts
  <2>3. local' \in LocalStorage
    BY <1>1, <1>3, <2>1, <2>2 DEF LocalStorage
  <2>4. \A r \in Rooms : local'[r] = local[r] \/ (r = s.user /\ local'[r].ws = ws)
    BY <1>1, <1>3, <2>2 DEF LocalStorage
  <2> QED BY <2>2, <2>3, <2>4 DEF Kept
<1>5. Safe(n)
  <2>1. m \in TabState
    BY <1>1 DEF TabState
  <2>2. /\ m.ctx = s.ctx /\ m.gate = s.gate /\ m.gen = s.gen
        /\ m.user = s.user /\ m.mounted = s.mounted /\ m.starting = s.starting
        /\ m.queue = s.queue /\ m.inbox = s.inbox
    BY <1>1 DEF TabState
  <2>3. Sound(m)
    BY <1>1, <2>1, <2>2 DEF Safe, Sound, Leased, Carried, Sourced
  <2> HIDE DEF m
  <2>4. Sound(n) /\ SameLease(m, n) /\ Within(n.store, m.user)
    BY <2>2, <2>3, ChangedSound
  <2> QED BY <2>4 DEF Safe, SameLease
<1>6. broadcast \in Message /\ Within(broadcast.ws, broadcast.room)
  BY <1>1 DEF Message
<1> HIDE DEF n, broadcast
<1>7. \A x \in Tabs : Safe(tab'[x])
  <2> SUFFICES ASSUME NEW x \in Tabs PROVE Safe(tab'[x])
    OBVIOUS
  <2>1. CASE x = t
    BY <1>3, <1>5, <2>1
  <2>2. CASE x # t
    <3>1. Safe([tab[x] EXCEPT !.inbox = Append(@, broadcast)])
      BY <1>6, IInvParts, ReceiveSafe
    <3> QED BY <1>3, <2>2, <3>1
  <2> QED BY <2>1, <2>2
<1>8. tab' \in [Tabs -> TabState]
  <2>1. \A x \in Tabs : tab'[x] \in TabState
    BY <1>7 DEF Safe, Sound
  <2>2. tab' = [x \in Tabs |-> tab'[x]]
    BY <1>3
  <2> QED BY <2>1, <2>2
<1>9. idb' \in Database /\ Kept(idb') /\ clock' \in 0..MaxEdits /\ boots' \in 0..MaxBoots
  BY <1>2, <1>3, IInvParts
<1> QED BY <1>4, <1>7, <1>8, <1>9, PartsIInv

LEMMA WithWithin ==
    ASSUME NEW ws \in Workspace, NEW r \in Rooms, Within(ws, r), NEW big \in BOOLEAN,
           clock \in 0..MaxEdits, clock < MaxEdits
    PROVE  With(ws, r, big) \in Workspace /\ Within(With(ws, r, big), r)
<1>1. clock + 1 \in 0..MaxEdits
  BY PersistenceAssumption
<1>2. <<r, clock + 1>> \in Edits
  BY <1>1 DEF Edits
<1>3. With(ws, r, big) \in Workspace
  BY <1>2 DEF With, Workspace
<1>4. Within(With(ws, r, big), r)
  BY DEF With, Within
<1> QED BY <1>3, <1>4

LEMMA MutationSafe ==
    ASSUME IInv, NEW t \in Tabs, NEW kept \in BOOLEAN,
           \/ Edit(t, kept) \/ AgentEdit(t, kept)
           \/ \E big \in BOOLEAN : Reduce(t, big, kept)
    PROVE  IInv'
<1> DEFINE s == tab[t]
<1>1. /\ Safe(s) /\ s.user \in Rooms /\ s.store \in Workspace /\ Within(s.store, s.user)
      /\ clock \in 0..MaxEdits
  BY IInvParts DEF Safe, Sound, TabState
<1>2. CASE Edit(t, kept)
  <2>1. /\ clock < MaxEdits
        /\ Publish(t, With(s.store, s.user, FALSE), FALSE, kept)
    BY <1>2 DEF Edit, MayMutate
  <2> QED BY <1>1, <2>1, WithWithin, PublishSafe
<1>3. CASE AgentEdit(t, kept)
  <2>1. /\ clock < MaxEdits /\ s.gate.hydrated /\ s.gate.room = s.lease.room
        /\ Publish(t, With(s.store, s.lease.room, FALSE), FALSE, kept)
    BY <1>3 DEF AgentEdit, MayMutate, IsCurrent
  <2>2. s.lease.room = s.user
    BY <1>1, <2>1 DEF Safe, Sound, Leased
  <2> QED BY <1>1, <2>1, <2>2, WithWithin, PublishSafe
<1>4. ASSUME NEW big \in BOOLEAN, Reduce(t, big, kept) PROVE IInv'
  <2>1. /\ clock < MaxEdits
        /\ Publish(t, With(s.store, s.user, big), big, kept)
    BY <1>4 DEF Reduce, MayMutate
  <2> QED BY <1>1, <1>4, <2>1, WithWithin, PublishSafe
<1> QED BY <1>2, <1>3, <1>4

LEMMA CaptureSafe ==
    ASSUME IInv, NEW t \in Tabs, Capture(t)
    PROVE  IInv'
<1> DEFINE s == tab[t]
           l == [gen |-> s.gate.gen, room |-> s.gate.room]
           n == [s EXCEPT !.lease = l]
<1>1. Safe(s) /\ s \in TabState
  BY IInvParts DEF Safe, Sound
<1>2. l \in Lease
  BY <1>1 DEF TabState, Gate, Lease
<1>3. n \in TabState
  BY <1>1, <1>2 DEF TabState
<1>4. /\ n.ctx = s.ctx /\ n.gate = s.gate /\ n.gen = s.gen
      /\ n.user = s.user /\ n.mounted = s.mounted /\ n.starting = s.starting
      /\ n.store = s.store /\ n.queue = s.queue /\ n.inbox = s.inbox
  BY <1>1 DEF TabState
<1>5. Safe(n)
  BY <1>1, <1>3, <1>4 DEF Safe, Sound, Leased, Carried, Sourced
<1>6. Become(t, n)
  BY DEF Capture
<1> HIDE DEF n
<1> QED BY <1>5, <1>6, BecomeStep

LEMMA RemoteSafe ==
    ASSUME IInv, NEW t \in Tabs, Remote(t)
    PROVE  IInv'
<1> DEFINE s == tab[t]
           m == Head(s.inbox)
           read == [s EXCEPT !.inbox = Tail(s.inbox)]
<1>1. Safe(s) /\ s \in TabState /\ s.inbox \in Seq(Message) /\ s.inbox # <<>>
  BY IInvParts DEF Safe, Sound, TabState, Remote
<1>2. /\ Tail(s.inbox) \in Seq(Message) /\ m \in Message
      /\ 1 \in DOMAIN s.inbox /\ m = s.inbox[1]
      /\ \A i \in DOMAIN Tail(s.inbox) : \E j \in DOMAIN s.inbox :
            Tail(s.inbox)[i] = s.inbox[j]
  BY <1>1, TailElements
<1>3. m.ws \in Workspace /\ Within(m.ws, m.room)
  BY <1>1, <1>2 DEF Message, Safe, Sound, Carried
<1>4. read \in TabState
  BY <1>1, <1>2 DEF TabState
<1>5. /\ read.ctx = s.ctx /\ read.gate = s.gate /\ read.gen = s.gen
      /\ read.user = s.user /\ read.mounted = s.mounted /\ read.starting = s.starting
      /\ read.store = s.store /\ read.queue = s.queue /\ read.inbox = Tail(s.inbox)
  BY <1>1 DEF TabState
<1>6. \A i \in DOMAIN read.inbox : Within(read.inbox[i].ws, read.inbox[i].room)
  BY <1>1, <1>2, <1>5 DEF Safe, Sound, Carried
<1>7. Safe(read)
  BY <1>1, <1>4, <1>5, <1>6 DEF Safe, Sound, Leased, Carried, Sourced
<1>8. Become(t, IF Accepts(s, m) THEN Changed(read, m.ws, FALSE) ELSE read)
  BY <1>1 DEF Remote, TabState
<1> HIDE DEF read, m
<1>9. CASE Accepts(s, m)
  <2>1. Within(m.ws, read.user)
    BY <1>3, <1>5, <1>9 DEF Accepts
  <2>2. Safe(Changed(read, m.ws, FALSE))
    BY <1>3, <1>7, <2>1, ChangedSound DEF Safe, SameLease
  <2> QED BY <1>8, <1>9, <2>2, BecomeStep
<1>10. CASE ~Accepts(s, m)
  BY <1>7, <1>8, <1>10, BecomeStep
<1> QED BY <1>9, <1>10

LEMMA ClaimSaveSafe ==
    ASSUME IInv, NEW t \in Tabs, ClaimSave(t)
    PROVE  IInv'
<1> DEFINE s == tab[t]
           ws == s.ctx.latest
           c == [s.ctx EXCEPT !.latest = None]
           m == [s EXCEPT !.ctx = c]
<1>1. Safe(s) /\ s \in TabState /\ ws # None
  BY IInvParts DEF Safe, Sound, ClaimSave
<1>2. s.ctx.gen # 0
  BY <1>1 DEF Safe, Sound, Leased, NoContext
<1>3. ws \in Workspace /\ Within(ws, s.ctx.room) /\ "save" \in Kinds
  BY <1>1 DEF TabState, Context, Safe, Sound, Carried, Kinds
<1>4. c \in Context
  BY <1>1 DEF TabState, Context
<1>5. m \in TabState
  BY <1>1, <1>4 DEF TabState
<1>6. /\ m.ctx.hydrated = s.ctx.hydrated /\ m.ctx.gen = s.ctx.gen
      /\ m.ctx.room = s.ctx.room /\ m.ctx.latest = None
      /\ m.gate = s.gate /\ m.gen = s.gen
      /\ m.user = s.user /\ m.mounted = s.mounted /\ m.starting = s.starting
      /\ m.store = s.store /\ m.queue = s.queue /\ m.inbox = s.inbox
  BY <1>1 DEF TabState, Context
<1>7. Safe(m)
  BY <1>1, <1>2, <1>5, <1>6 DEF Safe, Sound, Leased, Carried, Sourced
<1>8. Become(t, Issue(m, "save", ws, 0))
  BY <1>1 DEF ClaimSave, TabState, Context
<1> HIDE DEF m, c, ws
<1>9. Safe(Issue(m, "save", ws, 0))
  BY <1>2, <1>3, <1>6, <1>7, IssueSafe
<1> QED BY <1>8, <1>9, BecomeStep

\* A request writes into the room its lease was handed out for, and its
\* continuation runs only while that lease is the context's.
LEMMA ServeSafe ==
    ASSUME IInv, NEW t \in Tabs, NEW works \in BOOLEAN, NEW flushed \in BOOLEAN,
           Serve(t, works, flushed)
    PROVE  IInv'
<1> DEFINE s == tab[t]
           req == Head(s.queue)
           record == idb[req.room]
           write == req.kind \notin {"load", "probe"}
           ok == works /\ (write => Fits(req, record))
           after == IF ok /\ write THEN Put(req, record) ELSE record
           served == [s EXCEPT !.queue = Tail(s.queue)]
           n == IF req.kind = "save"
                THEN IF s.ctx.gen = req.gen THEN SaveReturned(served, ok, flushed) ELSE served
                ELSE IF Resumes(s, req) THEN Continue(served, req, ok, after) ELSE served
<1>1. Safe(s) /\ s \in TabState /\ s.queue \in Seq(Request) /\ s.queue # <<>>
  BY IInvParts DEF Safe, Sound, TabState, Serve
<1>2. /\ Tail(s.queue) \in Seq(Request) /\ req \in Request
      /\ 1 \in DOMAIN s.queue /\ req = s.queue[1]
      /\ \A i \in DOMAIN Tail(s.queue) : \E j \in DOMAIN s.queue :
            Tail(s.queue)[i] = s.queue[j]
  BY <1>1, TailElements
<1>3. Sourced(s, req)
  BY <1>1, <1>2 DEF Safe, Sound, Carried
<1>4. /\ req.kind \in Kinds /\ req.gen # 0 /\ req.room \in Rooms /\ req.ws \in Workspace
      /\ Within(req.ws, req.room)
  BY <1>2, <1>3, PersistenceAssumption DEF Request, Sourced
<1>5. /\ tab' = [tab EXCEPT ![t] = n] /\ idb' = [idb EXCEPT ![req.room] = after]
      /\ local' = local /\ clock' = clock /\ boots' = boots
  BY <1>1 DEF Serve, TabState
<1>6. served \in TabState
  BY <1>1, <1>2 DEF TabState
<1>7. /\ served.ctx = s.ctx /\ served.gate = s.gate /\ served.gen = s.gen
      /\ served.user = s.user /\ served.mounted = s.mounted
      /\ served.starting = s.starting /\ served.store = s.store
      /\ served.queue = Tail(s.queue) /\ served.inbox = s.inbox
  BY <1>1 DEF TabState
<1>8. \A i \in DOMAIN served.queue : Sourced(s, served.queue[i])
  BY <1>1, <1>2, <1>7 DEF Safe, Sound, Carried
<1>9. Safe(served)
  BY <1>1, <1>6, <1>7, <1>8 DEF Safe, Sound, Leased, Carried, Sourced
<1>10. record \in Record \cup {None} /\ (record # None => Within(record.ws, req.room))
  BY <1>4, IInvParts DEF Database, Kept
<1>11. Put(req, record) \in Record /\ Put(req, record).ws = req.ws
  BY <1>4, <1>10, IInvParts DEF Put, Rev, Record
<1>12. ok \in BOOLEAN
  BY DEF Fits
<1>13. /\ after \in Record \cup {None}
       /\ after # None => Within(after.ws, req.room)
       /\ write /\ ok => after \in Record /\ Within(after.ws, req.room)
  BY <1>4, <1>10, <1>11
<1>14. idb' \in Database /\ Kept(idb')
  <2>1. idb \in Database /\ Kept(idb)
    BY IInvParts
  <2>2. idb' \in Database
    BY <1>4, <1>5, <1>13, <2>1 DEF Database
  <2>3. \A r \in Rooms : idb'[r] = idb[r] \/ (r = req.room /\ idb'[r] = after)
    BY <1>4, <1>5, <2>1 DEF Database
  <2> QED BY <1>13, <2>1, <2>2, <2>3 DEF Kept
<1> HIDE DEF served, after, ok, record, req
<1>15. Safe(n)
  <2>1. CASE req.kind = "save" /\ s.ctx.gen = req.gen
    <3>1. Safe(SaveReturned(served, ok, flushed))
      BY <1>4, <1>7, <1>9, <1>12, <2>1, SaveReturnedSafe
    <3> QED BY <2>1, <3>1
  <2>2. CASE req.kind # "save" /\ Resumes(s, req)
    <3>1. served.ctx.gen # 0 /\ req.room = served.ctx.room
      BY <1>3, <1>4, <1>7, <2>2 DEF Resumes, Sourced
    <3>2. local \in LocalStorage /\ Kept(local)
      BY IInvParts
    <3>3. Safe(Continue(served, req, ok, after))
      BY <1>2, <1>9, <1>12, <1>13, <2>2, <3>1, <3>2, ContinueSafe
    <3> QED BY <2>2, <3>3
  <2>3. CASE ~(req.kind = "save" /\ s.ctx.gen = req.gen)
             /\ ~(req.kind # "save" /\ Resumes(s, req))
    BY <1>9, <2>3
  <2> QED BY <2>1, <2>2, <2>3
<1>16. /\ local' \in LocalStorage /\ Kept(local')
       /\ clock' \in 0..MaxEdits /\ boots' \in 0..MaxBoots
  BY <1>5, IInvParts
<1> HIDE DEF n
<1> QED BY <1>5, <1>14, <1>15, <1>16, TabStep

LEMMA NextPreserves == IInv /\ [Next]_vars => IInv'
<1> SUFFICES ASSUME IInv, [Next]_vars PROVE IInv'
  OBVIOUS
<1>1. CASE UNCHANGED vars
  BY <1>1 DEF vars, IInv, TypeOK, Kept, Leased, Carried, Sourced, Within
<1>2. CASE Next
  <2> PICK t \in Tabs :
         \/ Start(t) \/ Stop(t) \/ AuthReady(t) \/ Restart(t)
         \/ \E u \in Rooms : SessionChange(t, u)
         \/ Capture(t) \/ Remote(t) \/ ClaimSave(t)
         \/ \E kept \in BOOLEAN :
               \/ Edit(t, kept) \/ AgentEdit(t, kept)
               \/ \E big \in BOOLEAN : Reduce(t, big, kept)
         \/ \E works, flushed \in BOOLEAN : Serve(t, works, flushed)
    BY <1>2 DEF Next
  <2>1. CASE Start(t)
    BY <2>1, StartSafe
  <2>2. CASE Stop(t)
    BY <2>2, StopSafe
  <2>3. CASE AuthReady(t)
    BY <2>3, AuthReadySafe
  <2>4. CASE Restart(t)
    BY <2>4, RestartSafe
  <2>5. CASE \E u \in Rooms : SessionChange(t, u)
    BY <2>5, SessionChangeSafe
  <2>6. CASE Capture(t)
    BY <2>6, CaptureSafe
  <2>7. CASE Remote(t)
    BY <2>7, RemoteSafe
  <2>8. CASE ClaimSave(t)
    BY <2>8, ClaimSaveSafe
  <2>9. CASE \E kept \in BOOLEAN :
                \/ Edit(t, kept) \/ AgentEdit(t, kept)
                \/ \E big \in BOOLEAN : Reduce(t, big, kept)
    BY <2>9, MutationSafe
  <2>10. CASE \E works, flushed \in BOOLEAN : Serve(t, works, flushed)
    BY <2>10, ServeSafe
  <2> QED BY <2>1, <2>2, <2>3, <2>4, <2>5, <2>6, <2>7, <2>8, <2>9, <2>10
<1> QED BY <1>1, <1>2

-----------------------------------------------------------------------------
(* The theorems.                                                           *)

\* In every reachable state each tab holds one consistent lease and whatever
\* it or the storage holds belongs to its own room: IInv is inductive.
THEOREM Invariance == Spec => []IInv
<1>1. IInv /\ [Next]_vars => IInv'
  BY NextPreserves
<1> QED BY InitEstablishes, <1>1, PTL DEF Spec

\* The tabs' memory, both storages and the bounds keep their types.
THEOREM TypeCorrect == Spec => []TypeOK
<1>1. IInv => TypeOK
  BY DEF IInv
<1> QED BY Invariance, <1>1, PTL

\* No edit of one user's room is ever in another room's store, saver,
\* request or storage, for any number of tabs, rooms, leases and failures.
THEOREM Isolation == Spec => []RoomIsolation
<1>1. IInv => RoomIsolation
  BY DEF IInv, RoomIsolation, Kept, Carried, Sourced
<1> QED BY Invariance, <1>1, PTL

\* A gate that permits mutation always is the saving context's, in the room
\* of the session.
THEOREM LeaseSound == Spec => []LeaseMatchesRoom
<1>1. IInv => LeaseMatchesRoom
  BY DEF IInv, LeaseMatchesRoom, Leased
<1> QED BY Invariance, <1>1, PTL

-----------------------------------------------------------------------------
(* Recovery.  A context that is not hydrated has saved nothing, and what it *)
(* waits for is the one answer of its hydration.                            *)

Own(s, req) == req.gen = s.ctx.gen
Quiet(s) == s.ctx.latest = None /\ ~Saving(s)

\* Nothing of the context waits, neither in its saver nor in IndexedDB.
Idle(s) == s.ctx.latest = None /\ \A i \in DOMAIN s.queue : ~Own(s, s.queue[i])

Frozen(s) ==
    /\ s.ctx.hydrated => s.gate.hydrated
    /\ s.recovery \/ ~s.ctx.hydrated => Quiet(s)
    /\ \A i \in DOMAIN s.queue : Own(s, s.queue[i]) /\ s.queue[i].kind # "save" =>
          /\ ~s.ctx.hydrated
          /\ \A j \in DOMAIN s.queue : Own(s, s.queue[j]) => j = i

FrozenTabs == \A t \in Tabs : Frozen(tab[t])

LEMMA TailIndices ==
    ASSUME NEW S, NEW q \in Seq(S), q # <<>>
    PROVE  /\ DOMAIN q = 1..Len(q) /\ Len(q) \in Nat /\ Len(q) >= 1
           /\ Tail(q) \in Seq(S) /\ DOMAIN Tail(q) = 1..(Len(q) - 1) /\ Len(Tail(q)) = Len(q) - 1
           /\ 1 \in DOMAIN q /\ Head(q) = q[1]
           /\ \A i \in DOMAIN Tail(q) : i \in Nat /\ i + 1 \in DOMAIN q /\ Tail(q)[i] = q[i + 1]
<1>1. /\ Head(q) \in S /\ Tail(q) \in Seq(S) /\ Len(Tail(q)) = Len(q) - 1
      /\ \A i \in 1..Len(Tail(q)) : Tail(q)[i] = q[i + 1]
  BY HeadTailProperties
<1>2. /\ DOMAIN q = 1..Len(q) /\ Len(q) \in Nat /\ Len(q) # 0
      /\ DOMAIN Tail(q) = 1..Len(Tail(q))
  BY <1>1, LenProperties, EmptySeq
<1>3. Head(q) = q[1]
  OBVIOUS
<1>4. \A i \in 1..(Len(q) - 1) : i \in Nat /\ i + 1 \in 1..Len(q)
  BY <1>2
<1>5. 1 \in 1..Len(q) /\ Len(q) >= 1
  BY <1>2
<1> QED BY <1>1, <1>2, <1>3, <1>4, <1>5

LEMMA AppendIndices ==
    ASSUME NEW S, NEW q \in Seq(S), NEW e \in S
    PROVE  /\ DOMAIN q = 1..Len(q) /\ Len(q) \in Nat
           /\ Append(q, e) \in Seq(S) /\ Len(Append(q, e)) = Len(q) + 1
           /\ DOMAIN Append(q, e) = 1..(Len(q) + 1)
           /\ Append(q, e)[Len(q) + 1] = e /\ Append(q, e) # <<>>
           /\ \A i \in DOMAIN q : Append(q, e)[i] = q[i] /\ i # Len(q) + 1
           /\ \A i \in DOMAIN Append(q, e) : i = Len(q) + 1 \/ i \in DOMAIN q
<1>1. /\ Append(q, e) \in Seq(S) /\ Len(Append(q, e)) = Len(q) + 1
      /\ \A i \in 1..Len(q) : Append(q, e)[i] = q[i]
      /\ Append(q, e)[Len(q) + 1] = e
  BY AppendProperties
<1>2. /\ DOMAIN q = 1..Len(q) /\ Len(q) \in Nat
      /\ DOMAIN Append(q, e) = 1..Len(Append(q, e))
  BY <1>1, LenProperties
<1>3. \A i \in 1..(Len(q) + 1) : i = Len(q) + 1 \/ i \in 1..Len(q)
  BY <1>2
<1>4. \A i \in 1..Len(q) : i # Len(q) + 1
  BY <1>2
<1>5. Append(q, e) # <<>>
  <2>1. Len(q) + 1 # 0
    BY <1>2
  <2> QED BY <1>1, <2>1, EmptySeq
<1> QED BY <1>1, <1>2, <1>3, <1>4, <1>5

-----------------------------------------------------------------------------
(* What each function makes of the fields that recovery depends on.         *)

LEMMA CompleteFields ==
    ASSUME NEW s \in TabState, NEW failed
    PROVE  LET n == Complete(s, failed) IN
           /\ n.ctx.gen = s.ctx.gen /\ n.ctx.room = s.ctx.room /\ n.ctx.hydrated
           /\ n.ctx.latest = s.ctx.latest /\ n.ctx.failed = failed
           /\ n.ctx.pend = s.ctx.pend /\ n.ctx.localAt = s.ctx.localAt
           /\ s.gate.gen = s.ctx.gen /\ s.gate.room = s.ctx.room => n.gate.hydrated
           /\ n.user = s.user /\ n.mounted = s.mounted /\ n.store = s.store
           /\ n.recovery = s.recovery /\ n.queue = s.queue /\ n.inbox = s.inbox
  BY DEF Complete, TabState, Context, Gate

LEMMA IssueFields ==
    ASSUME NEW s \in TabState, NEW kind, NEW ws, NEW expect
    PROVE  LET n == Issue(s, kind, ws, expect) IN
           /\ n.queue = Append(s.queue, [kind |-> kind, gen |-> s.ctx.gen, room |-> s.ctx.room,
                                         ws |-> ws, expect |-> expect])
           /\ n.ctx = s.ctx /\ n.gate = s.gate /\ n.user = s.user /\ n.mounted = s.mounted
           /\ n.store = s.store /\ n.recovery = s.recovery /\ n.inbox = s.inbox
  BY DEF Issue, TabState

LEMMA ScheduleSaveFields ==
    ASSUME NEW s \in TabState
    PROVE  LET n == ScheduleSave(s) IN
           /\ n.ctx.gen = s.ctx.gen /\ n.ctx.room = s.ctx.room /\ n.ctx.hydrated = s.ctx.hydrated
           /\ s.ctx.hydrated /\ ~s.recovery => n.ctx.latest = s.store /\ ~n.ctx.failed
           /\ ~(s.ctx.hydrated /\ ~s.recovery) => n.ctx = s.ctx
           /\ n.ctx.pend = s.ctx.pend /\ n.ctx.localAt = s.ctx.localAt
           /\ n.gate = s.gate /\ n.user = s.user /\ n.mounted = s.mounted /\ n.store = s.store
           /\ n.recovery = s.recovery /\ n.queue = s.queue /\ n.inbox = s.inbox
  BY DEF ScheduleSave, TabState, Context

\* The store subscription saves for a hydrated context, and marks the work for
\* one that is still hydrating.
LEMMA ChangedFields ==
    ASSUME NEW s \in TabState, NEW ws \in Workspace, NEW expected \in BOOLEAN
    PROVE  LET n == Changed(s, ws, expected)
               live == s.mounted /\ s.ctx.gen # 0
               saves == live /\ s.ctx.hydrated /\ ~s.recovery
           IN
           /\ n.ctx.gen = s.ctx.gen /\ n.ctx.room = s.ctx.room /\ n.ctx.hydrated = s.ctx.hydrated
           /\ saves => n.ctx.latest = ws /\ ~n.ctx.failed
           /\ ~saves => n.ctx.latest = s.ctx.latest /\ n.ctx.failed = s.ctx.failed
           /\ ~s.ctx.pend /\ (expected \/ s.ctx.hydrated \/ ~live) => ~n.ctx.pend
           /\ n.ctx.localAt = s.ctx.localAt
           /\ n.gate = s.gate /\ n.user = s.user /\ n.mounted = s.mounted /\ n.store = ws
           /\ n.recovery = s.recovery /\ n.queue = s.queue /\ n.inbox = s.inbox
<1> DEFINE set == [s EXCEPT !.store = ws]
<1>1. /\ set \in TabState /\ set.store = ws /\ set.ctx = s.ctx /\ set.gate = s.gate
      /\ set.user = s.user /\ set.mounted = s.mounted /\ set.recovery = s.recovery
      /\ set.queue = s.queue /\ set.inbox = s.inbox
  BY DEF TabState
<1>2. CASE ~s.mounted \/ s.ctx.gen = 0
  <2>1. Changed(s, ws, expected) = set
    BY <1>2 DEF Changed
  <2> QED BY <1>1, <1>2, <2>1
<1>3. CASE s.mounted /\ s.ctx.gen # 0 /\ s.ctx.hydrated
  <2>1. Changed(s, ws, expected) = ScheduleSave(set)
    BY <1>3 DEF Changed
  <2> HIDE DEF set
  <2> DEFINE n == ScheduleSave(set)
  <2>2. /\ n.ctx.gen = set.ctx.gen /\ n.ctx.room = set.ctx.room
        /\ n.ctx.hydrated = set.ctx.hydrated
        /\ set.ctx.hydrated /\ ~set.recovery => n.ctx.latest = set.store /\ ~n.ctx.failed
        /\ ~(set.ctx.hydrated /\ ~set.recovery) => n.ctx = set.ctx
        /\ n.ctx.pend = set.ctx.pend /\ n.ctx.localAt = set.ctx.localAt
        /\ n.gate = set.gate /\ n.user = set.user /\ n.mounted = set.mounted
        /\ n.store = set.store /\ n.recovery = set.recovery
        /\ n.queue = set.queue /\ n.inbox = set.inbox
    BY <1>1, ScheduleSaveFields
  <2> HIDE DEF n
  <2>3. n = Changed(s, ws, expected)
    BY <2>1 DEF n
  <2>4. set.ctx = s.ctx /\ set.store = ws /\ set.recovery = s.recovery
    BY <1>1
  <2> QED BY <1>1, <1>3, <2>2, <2>3, <2>4
<1>4. CASE s.mounted /\ s.ctx.gen # 0 /\ ~s.ctx.hydrated
  <2> DEFINE c == [s.ctx EXCEPT !.pend = @ \/ ~expected]
  <2>1. Changed(s, ws, expected) = [set EXCEPT !.ctx = c]
    BY <1>1, <1>4 DEF Changed, TabState
  <2>2. /\ c.gen = s.ctx.gen /\ c.room = s.ctx.room /\ c.hydrated = s.ctx.hydrated
        /\ c.latest = s.ctx.latest /\ c.failed = s.ctx.failed /\ c.localAt = s.ctx.localAt
        /\ ~s.ctx.pend /\ expected => ~c.pend
    BY DEF TabState, Context
  <2> HIDE DEF c
  <2>3. /\ Changed(s, ws, expected).ctx = c
        /\ Changed(s, ws, expected).gate = s.gate /\ Changed(s, ws, expected).user = s.user
        /\ Changed(s, ws, expected).mounted = s.mounted /\ Changed(s, ws, expected).store = ws
        /\ Changed(s, ws, expected).recovery = s.recovery
        /\ Changed(s, ws, expected).queue = s.queue /\ Changed(s, ws, expected).inbox = s.inbox
    BY <1>1, <2>1 DEF TabState
  <2> QED BY <1>4, <2>2, <2>3
<1> QED BY <1>2, <1>3, <1>4

\* No request was made under generation 0, the one of a tab without a context.
LEMMA RequestsHaveLeases ==
    ASSUME NEW s \in TabState
    PROVE  \A i \in DOMAIN s.queue : s.queue[i] \in Request /\ s.queue[i].gen # 0
<1>1. \A i \in DOMAIN s.queue : s.queue[i] \in Request
  BY SeqElements DEF TabState
<1>2. \A req \in Request : req.gen # 0
  BY PersistenceAssumption DEF Request
<1> QED BY <1>1, <1>2

LEMMA IdleFrozen ==
    ASSUME NEW s, Idle(s), s.ctx.hydrated => s.gate.hydrated
    PROVE  Frozen(s)
  BY DEF Idle, Frozen, Quiet, Saving, Own

LEMMA ScheduleSaveFrozen ==
    ASSUME NEW s \in TabState, Frozen(s)
    PROVE  Frozen(ScheduleSave(s))
<1> DEFINE n == ScheduleSave(s)
<1>1. /\ n.ctx.gen = s.ctx.gen /\ n.ctx.hydrated = s.ctx.hydrated
      /\ ~(s.ctx.hydrated /\ ~s.recovery) => n.ctx.latest = s.ctx.latest
      /\ n.gate = s.gate /\ n.recovery = s.recovery /\ n.queue = s.queue
  BY ScheduleSaveFields
<1> HIDE DEF n
<1> QED BY <1>1 DEF n, Frozen, Quiet, Saving, Own

LEMMA ChangedFrozen ==
    ASSUME NEW s \in TabState, Frozen(s), NEW ws \in Workspace, NEW expected \in BOOLEAN
    PROVE  Frozen(Changed(s, ws, expected))
<1> DEFINE n == Changed(s, ws, expected)
<1>1. /\ n.ctx.gen = s.ctx.gen /\ n.ctx.hydrated = s.ctx.hydrated
      /\ ~(s.ctx.hydrated /\ ~s.recovery) => n.ctx.latest = s.ctx.latest
      /\ n.gate = s.gate /\ n.recovery = s.recovery /\ n.queue = s.queue
  BY ChangedFields
<1> HIDE DEF n
<1> QED BY <1>1 DEF n, Frozen, Quiet, Saving, Own

\* The hydration of a context that has nothing else under way ends.
LEMMA CompleteFrozen ==
    ASSUME NEW s, Sound(s), s.ctx.gen # 0, Idle(s), NEW failed \in BOOLEAN
    PROVE  Frozen(Complete(s, failed)) /\ Frozen(CompleteAndSave(s, failed))
<1> DEFINE n == Complete(s, failed)
<1>1. /\ n.ctx.gen = s.ctx.gen /\ n.ctx.latest = s.ctx.latest /\ n.queue = s.queue
      /\ s.gate.gen = s.ctx.gen /\ s.gate.room = s.ctx.room => n.gate.hydrated
  BY CompleteFields DEF Sound
<1>2. n \in TabState
  BY CompleteSound DEF Sound
<1> HIDE DEF n
<1>3. Idle(n) /\ n.gate.hydrated
  BY <1>1, LeaseIsSession DEF Idle, Own
<1>4. Frozen(n)
  BY <1>3, IdleFrozen
<1> QED BY <1>2, <1>4, ScheduleSaveFrozen DEF CompleteAndSave, n

\* ... or makes one more request.
LEMMA IssueFrozen ==
    ASSUME NEW s, Sound(s), s.ctx.gen # 0, Idle(s), ~s.ctx.hydrated,
           NEW kind \in Kinds, kind # "save", NEW ws \in Workspace,
           Within(ws, s.ctx.room), NEW expect \in Nat
    PROVE  Frozen(Issue(s, kind, ws, expect)) /\ Quiet(Issue(s, kind, ws, expect))
<1> DEFINE n == Issue(s, kind, ws, expect)
           req == [kind |-> kind, gen |-> s.ctx.gen, room |-> s.ctx.room,
                   ws |-> ws, expect |-> expect]
<1>1. n.queue = Append(s.queue, req) /\ n.ctx = s.ctx /\ n.gate = s.gate
  BY IssueFields DEF Sound
<1>2. s.queue \in Seq(Request) /\ req \in Request /\ req.kind = kind
  BY LeaseIsSession DEF Sound, TabState, Request
<1>3. /\ \A i \in DOMAIN s.queue : n.queue[i] = s.queue[i]
      /\ n.queue[Len(s.queue) + 1] = req
      /\ \A i \in DOMAIN n.queue : i = Len(s.queue) + 1 \/ i \in DOMAIN s.queue
  BY <1>1, <1>2, AppendIndices
<1> HIDE DEF n, req
<1>4. \A i \in DOMAIN n.queue : Own(n, n.queue[i]) => i = Len(s.queue) + 1
  BY <1>1, <1>3 DEF Idle, Own
<1>5. \A i \in DOMAIN n.queue : Own(n, n.queue[i]) => n.queue[i].kind # "save"
  BY <1>2, <1>3, <1>4
<1>6. Quiet(n)
  BY <1>1, <1>5 DEF Quiet, Saving, Idle, Own
<1> QED BY <1>1, <1>4, <1>6 DEF Frozen, n

\* The tab as hydrateForCurrentRoom leaves it for a new room, before it reads.
Fresh(s, loc, fresh) ==
    /\ Sound(fresh) /\ fresh.ctx.gen # 0 /\ Idle(fresh) /\ ~fresh.ctx.hydrated
    /\ ~fresh.ctx.pend /\ fresh.ctx.room = s.user /\ fresh.user = s.user
    /\ fresh.ctx.gen = s.gen + 1 /\ fresh.ctx.localAt = StoredAt(loc, s.user)
    /\ fresh.store = s.store /\ fresh.recovery = s.recovery
    /\ fresh.queue = s.queue /\ fresh.inbox = s.inbox
    /\ BeginHydration(s, loc) = IF s.recovery THEN Complete(fresh, TRUE)
          ELSE Issue(fresh, "load", Empty, 0)

\* A fresh context has nothing under way yet.
LEMMA FreshIdle ==
    ASSUME NEW s, Unsettled(s), s.mounted, HasLease(s, s.user),
           NEW loc \in LocalStorage, Kept(loc)
    PROVE  s.ctx.room # s.user =>
             \E fresh : Fresh(s, loc, fresh)
<1> DEFINE g == [gen |-> s.gen + 1, room |-> s.user, hydrated |-> FALSE]
           c == [NoContext EXCEPT !.gen = s.gen + 1, !.room = s.user, !.joined = TRUE,
                                  !.localAt = StoredAt(loc, s.user)]
           fresh == [s EXCEPT !.gen = s.gen + 1, !.gate = g, !.ctx = c]
           begun == BeginRoom(s, s.user)
<1>0. SUFFICES ASSUME s.ctx.room # s.user
               PROVE  \E f : Fresh(s, loc, f)
  OBVIOUS
<1>1. /\ s.user \in Rooms /\ s.gen \in Nat /\ s.gen < MaxGen
      /\ s.gen + 1 \in 1..MaxGen
  BY <1>0, PersistenceAssumption DEF HasLease, Unsettled, TabState
<1>2. s.gate.room # s.user
  BY <1>0, <1>1, PersistenceAssumption DEF Unsettled
<1>3. begun = [s EXCEPT !.gen = s.gen + 1, !.gate = g]
  BY <1>2 DEF BeginRoom, Unsettled, TabState
<1>4. BeginHydration(s, loc) = IF s.recovery THEN Complete(fresh, TRUE)
                               ELSE Issue(fresh, "load", Empty, 0)
  <2>1. begun.gate.gen = s.gen + 1 /\ [begun EXCEPT !.ctx = c] = fresh
    BY <1>3 DEF Unsettled, TabState
  <2>2. BeginHydration(s, loc) =
           IF s.recovery THEN Complete([begun EXCEPT !.ctx = c], TRUE)
           ELSE Issue([begun EXCEPT !.ctx = c], "load", Empty, 0)
    <3> HIDE DEF begun
    <3> QED BY <1>0, <2>1 DEF BeginHydration, begun
  <2> QED BY <2>1, <2>2
<1>5. g \in Gate /\ g.gen = s.gen + 1 /\ g.room = s.user /\ ~g.hydrated
  BY <1>1 DEF Gate
<1>6. /\ c \in Context /\ c.gen = s.gen + 1 /\ c.room = s.user /\ ~c.hydrated
      /\ c.latest = None /\ ~c.pend /\ c.localAt = StoredAt(loc, s.user)
  <2>1. StoredAt(loc, s.user) \in 0..MaxEdits
    BY <1>1, StoredWithin
  <2>2. s.gen + 1 \in 0..MaxGen
    BY <1>1
  <2>3. c \in Context
    BY <1>1, <2>1, <2>2, Constants DEF Context
  <2> QED BY <2>3 DEF NoContext
<1>7. /\ fresh.ctx = c /\ fresh.recovery = s.recovery
      /\ fresh.queue = s.queue /\ fresh.inbox = s.inbox
  BY DEF Unsettled, TabState
<1> HIDE DEF g, c
<1>8. /\ Sound(fresh) /\ fresh.ctx.gen # 0 /\ fresh.ctx.room = s.user
      /\ fresh.user = s.user /\ fresh.store = s.store
  <2>1. c \in Context /\ c.gen = s.gen + 1 /\ c.room = s.user /\ c.latest = None
    BY <1>6
  <2>2. LET n == [s EXCEPT !.gen = s.gen + 1, !.gate = g, !.ctx = c]
        IN  /\ Sound(n) /\ n.ctx.gen # 0 /\ n.ctx.room = s.user
            /\ n.user = s.user /\ n.store = s.store
    <3> HIDE DEF fresh, begun
    <3> QED BY <1>1, <1>5, <2>1, FreshLeaseSound
  <2> QED BY <2>2
<1>9. \A i \in DOMAIN s.queue : s.queue[i].gen # s.gen + 1
  <2>1. \A i \in DOMAIN s.queue : s.queue[i].gen <= s.gen /\ s.queue[i] \in Request
    BY RequestsHaveLeases DEF Unsettled, Carried, Sourced
  <2>2. \A req \in Request : req.gen \in Nat
    BY PersistenceAssumption DEF Request
  <2>3. \A i \in DOMAIN s.queue : s.queue[i].gen \in Nat /\ s.queue[i].gen <= s.gen
    BY <2>1, <2>2
  <2>4. \A k \in Nat : k <= s.gen => k # s.gen + 1
    BY <1>1
  <2> QED BY <2>3, <2>4
<1>10. Idle(fresh)
  BY <1>6, <1>7, <1>9 DEF Idle, Own
<1> HIDE DEF fresh
<1>11. Fresh(s, loc, fresh)
  BY <1>4, <1>6, <1>7, <1>8, <1>10 DEF Fresh
<1> QED BY <1>11

LEMMA BeginHydrationFrozen ==
    ASSUME NEW s, Unsettled(s), Frozen(s), s.mounted, HasLease(s, s.user),
           NEW loc \in LocalStorage, Kept(loc)
    PROVE  /\ Frozen(BeginHydration(s, loc))
           /\ s.ctx.room # s.user => Quiet(BeginHydration(s, loc))
<1> DEFINE n == BeginHydration(s, loc)
<1>1. CASE s.ctx.room = s.user
  <2>1. /\ n.ctx.gen = s.ctx.gen /\ n.ctx.hydrated = s.ctx.hydrated
        /\ n.ctx.latest = s.ctx.latest
        /\ n.gate = s.gate /\ n.recovery = s.recovery /\ n.queue = s.queue
    BY <1>1 DEF BeginHydration, Unsettled, TabState, Context
  <2> HIDE DEF n
  <2> QED BY <1>1, <2>1 DEF n, Frozen, Quiet, Saving, Own
<1>2. CASE s.ctx.room # s.user
  <2> PICK fresh : Fresh(s, loc, fresh)
    BY <1>2, FreshIdle
  <2>0. /\ Sound(fresh) /\ fresh.ctx.gen # 0 /\ Idle(fresh) /\ ~fresh.ctx.hydrated
        /\ n = IF s.recovery THEN Complete(fresh, TRUE) ELSE Issue(fresh, "load", Empty, 0)
    BY DEF Fresh
  <2> HIDE DEF n
  <2>1. CASE s.recovery
    <3>1. n = Complete(fresh, TRUE)
      BY <2>0, <2>1
    <3>2. /\ Complete(fresh, TRUE).ctx.gen = fresh.ctx.gen
          /\ Complete(fresh, TRUE).ctx.latest = fresh.ctx.latest
          /\ Complete(fresh, TRUE).queue = fresh.queue
      BY <2>0, CompleteFields DEF Sound
    <3>3. Quiet(n)
      BY <2>0, <3>1, <3>2 DEF Idle, Quiet, Saving, Own
    <3> QED BY <2>0, <3>1, <3>3, CompleteFrozen DEF n
  <2>2. CASE ~s.recovery
    <3>1. n = Issue(fresh, "load", Empty, 0)
      BY <2>0, <2>2
    <3>2. "load" \in Kinds /\ Empty \in Workspace /\ Within(Empty, fresh.ctx.room)
      BY <2>0, LeaseIsSession, Constants DEF Kinds
    <3> QED BY <2>0, <3>1, <3>2, IssueFrozen DEF n
  <2> QED BY <2>1, <2>2
<1> QED BY <1>1, <1>2

LEMMA HydrateFrozen ==
    ASSUME NEW s, Unsettled(s), Frozen(s), s.mounted, HasLease(s, s.user),
           NEW loc \in LocalStorage, Kept(loc)
    PROVE  /\ Frozen(Hydrate(s, loc))
           /\ s.ctx.room # s.user => Quiet(Hydrate(s, loc))
  BY BeginHydrationFrozen DEF Hydrate

LEMMA ReloadFrozen ==
    ASSUME NEW s, Sound(s), Frozen(s), NEW loc \in LocalStorage, Kept(loc),
           NEW roomChanged \in BOOLEAN, roomChanged => Quiet(s)
    PROVE  Frozen(Reload(s, loc, roomChanged))
<1>1. CASE ~roomChanged /\ s.gate.hydrated
  BY <1>1 DEF Reload
<1>2. CASE ~(~roomChanged /\ s.gate.hydrated)
  <2> DEFINE next == Stored(loc, s.user)
             m == [s EXCEPT !.recovery = next.big]
             expected == s.gate.gen # 0 /\ ~s.gate.hydrated
  <2>1. Reload(s, loc, roomChanged) = Changed(m, next, expected)
    BY <1>2 DEF Reload
  <2>2. s.user \in Rooms /\ next \in Workspace
    BY StoredWithin DEF Sound, TabState
  <2>3. next.big \in BOOLEAN /\ expected \in BOOLEAN
    BY <2>2 DEF Workspace, Sound, TabState, Gate
  <2>4. /\ m \in TabState
        /\ m.ctx = s.ctx /\ m.gate = s.gate /\ m.queue = s.queue
    BY <2>3 DEF Sound, TabState
  <2>5. Quiet(s)
    BY <1>2 DEF Frozen
  <2> HIDE DEF m, next, expected
  <2>6. Frozen(m)
    BY <2>4, <2>5 DEF Frozen, Quiet, Saving, Own
  <2> QED BY <2>1, <2>2, <2>3, <2>4, <2>6, ChangedFrozen
<1> QED BY <1>1, <1>2

LEMMA PreserveFrozen ==
    ASSUME NEW s, Safe(s), s.ctx.gen # 0, Idle(s), ~s.ctx.hydrated, NEW rev \in Nat
    PROVE  Frozen(Preserve(s, rev))
<1> DEFINE c == [s.ctx EXCEPT !.pend = FALSE]
           m == [s EXCEPT !.ctx = c]
<1>1. Preserve(s, rev) = Issue(m, "preserve", s.store, rev)
  BY DEF Preserve, Safe, Sound, TabState
<1>2. c \in Context
  BY DEF Safe, Sound, TabState, Context
<1>3. m \in TabState
  BY <1>2 DEF Safe, Sound, TabState
<1>4. /\ m.ctx.hydrated = s.ctx.hydrated /\ m.ctx.gen = s.ctx.gen
      /\ m.ctx.room = s.ctx.room /\ m.ctx.latest = s.ctx.latest
      /\ m.gate = s.gate /\ m.gen = s.gen
      /\ m.user = s.user /\ m.mounted = s.mounted /\ m.starting = s.starting /\ m.store = s.store
      /\ m.queue = s.queue /\ m.inbox = s.inbox
  BY DEF Safe, Sound, TabState, Context
<1>5. Sound(m)
  BY <1>3, <1>4 DEF Safe, Sound, Leased, Carried, Sourced
<1>6. Idle(m)
  BY <1>4 DEF Idle, Own
<1>7. /\ s.store \in Workspace /\ Within(s.store, m.ctx.room)
      /\ "preserve" \in Kinds /\ "preserve" # "save"
  BY <1>4, LeaseIsSession DEF Safe, Sound, TabState, Kinds
<1> HIDE DEF m, c
<1> QED BY <1>1, <1>4, <1>5, <1>6, <1>7, IssueFrozen

LEMMA ApplyFrozen ==
    ASSUME NEW s, Sound(s), s.ctx.gen # 0, Idle(s), NEW ws \in Workspace,
           Within(ws, s.ctx.room)
    PROVE  Frozen(Apply(s, ws))
<1> DEFINE m == [s EXCEPT !.store = ws, !.recovery = @ \/ ws.big]
<1>1. ws.big \in BOOLEAN
  BY DEF Workspace
<1>2. m \in TabState
  BY <1>1 DEF Sound, TabState
<1>3. /\ m.ctx = s.ctx /\ m.gate = s.gate /\ m.gen = s.gen
      /\ m.user = s.user /\ m.mounted = s.mounted /\ m.starting = s.starting
      /\ m.queue = s.queue /\ m.inbox = s.inbox
  BY DEF Sound, TabState
<1>4. Sound(m)
  BY <1>2, <1>3 DEF Sound, Leased, Carried, Sourced
<1>5. Idle(m)
  BY <1>3 DEF Idle, Own
<1>6. Apply(s, ws) = Complete(m, ws.big)
  BY DEF Apply
<1> HIDE DEF m
<1> QED BY <1>1, <1>3, <1>4, <1>5, <1>6, CompleteFrozen

LEMMA MigratedFrozen ==
    ASSUME NEW s, Safe(s), s.ctx.gen # 0, Idle(s), ~s.ctx.hydrated,
           NEW ws \in Workspace, Within(ws, s.ctx.room), NEW rev \in Nat
    PROVE  Frozen(Migrated(s, ws, rev))
  BY PreserveFrozen, ApplyFrozen DEF Migrated, Safe

\* Whatever IndexedDB answers, the continuation saves for a room that fits or
\* waits for one more answer.
LEMMA ContinueFrozen ==
    ASSUME NEW s, Safe(s), s.ctx.gen # 0, Idle(s), ~s.ctx.hydrated,
           local \in LocalStorage, Kept(local),
           NEW req \in Request, req.kind # "save", NEW ok \in BOOLEAN,
           NEW record \in Record \cup {None},
           record # None => Within(record.ws, s.ctx.room),
           req.kind \notin {"load", "probe"} /\ ok =>
              record \in Record /\ Within(record.ws, s.ctx.room)
    PROVE  Frozen(Continue(s, req, ok, record))
<1>1. record # None => record.ws \in Workspace /\ record.rev \in Nat
  BY DEF Record
<1>2. /\ s.ctx.room \in Rooms /\ Empty \in Workspace /\ Within(Empty, s.ctx.room)
      /\ {"load", "probe", "migrate", "preserve"} \subseteq Kinds \ {"save"}
  BY LeaseIsSession, Constants DEF Safe, Kinds
<1>3. req.kind \in {"load", "probe", "migrate", "preserve"}
  BY DEF Request, Kinds
<1>4. /\ Frozen(Complete(s, TRUE)) /\ Frozen(Complete(s, FALSE))
      /\ Frozen(CompleteAndSave(s, TRUE)) /\ Frozen(CompleteAndSave(s, FALSE))
  BY CompleteFrozen DEF Safe
<1>5. CASE req.kind = "load"
  <2>1. Continue(s, req, ok, record) = Loaded(s, ok, record)
    BY <1>5 DEF Continue
  <2>2. CASE ~ok
    BY <1>4, <2>1, <2>2 DEF Loaded
  <2>3. CASE ok /\ record = None
    BY <1>2, <2>1, <2>3, IssueFrozen DEF Loaded, Safe
  <2>4. CASE ok /\ record # None
    <3>1. CASE s.ctx.pend \/ s.ctx.localAt > record.at
      BY <1>1, <2>1, <2>4, <3>1, PreserveFrozen DEF Loaded
    <3>2. CASE ~(s.ctx.pend \/ s.ctx.localAt > record.at)
      BY <1>1, <2>1, <2>4, <3>2, ApplyFrozen DEF Loaded, Safe
    <3> QED BY <3>1, <3>2
  <2> QED BY <2>2, <2>3, <2>4
<1>6. CASE req.kind = "probe"
  <2>1. Continue(s, req, ok, record) = Probed(s, ok, record, local)
    BY <1>6 DEF Continue
  <2>2. CASE ~ok \/ (record = None /\ local[s.ctx.room] = None)
    BY <1>4, <2>1, <2>2 DEF Probed
  <2>3. CASE ~(~ok \/ (record = None /\ local[s.ctx.room] = None)) /\ record = None
    <3>1. local[s.ctx.room].ws \in Workspace /\ Within(local[s.ctx.room].ws, s.ctx.room)
      BY <1>2, <2>3, StoredWithin
    <3> QED BY <1>2, <2>1, <2>3, <3>1, IssueFrozen DEF Probed, Safe
  <2>4. CASE ok /\ record # None
    BY <1>1, <2>1, <2>4, MigratedFrozen DEF Probed
  <2> QED BY <2>2, <2>3, <2>4
<1>7. CASE req.kind = "migrate"
  <2>1. CASE ok
    <3>1. record.ws \in Workspace /\ record.rev \in Nat /\ Within(record.ws, s.ctx.room)
      BY <1>7, <2>1 DEF Record
    <3>2. Continue(s, req, ok, record) = Migrated(s, record.ws, record.rev)
      BY <1>7, <2>1 DEF Continue
    <3> QED BY <3>1, <3>2, MigratedFrozen
  <2>2. CASE ~ok
    <3>1. Continue(s, req, ok, record) = CompleteAndSave(s, FALSE)
      BY <1>7, <2>2 DEF Continue
    <3> QED BY <1>4, <3>1
  <2> QED BY <2>1, <2>2
<1>8. CASE req.kind = "preserve"
  <2>1. Continue(s, req, ok, record) = Preserved(s, ok)
    BY <1>8 DEF Continue
  <2>2. ok = TRUE \/ ok = FALSE
    OBVIOUS
  <2> QED BY <1>4, <2>1, <2>2 DEF Preserved
<1> QED BY <1>3, <1>5, <1>6, <1>7, <1>8

-----------------------------------------------------------------------------
(* Each task of a tab leaves it frozen.                                     *)

\* A tab that changes only what recovery does not depend on.
LEMMA SameFrozen ==
    ASSUME NEW s, NEW n, Frozen(s), n.ctx = s.ctx, n.gate.hydrated = s.gate.hydrated,
           n.recovery = s.recovery, n.queue = s.queue
    PROVE  Frozen(n)
  BY DEF Frozen, Quiet, Saving, Own

LEMMA TaskFrozen ==
    ASSUME IInv, FrozenTabs, NEW t \in Tabs, NEW n, Frozen(n), tab' = [tab EXCEPT ![t] = n]
    PROVE  FrozenTabs'
<1>1. \A x \in Tabs : tab'[x] = IF x = t THEN n ELSE tab[x]
  BY IInvParts
<1>2. \A x \in Tabs : Frozen(tab'[x])
  BY <1>1 DEF FrozenTabs
<1> QED BY <1>2 DEF FrozenTabs, Frozen, Quiet, Saving, Own

LEMMA BootFrozen ==
    ASSUME NEW loc
    PROVE  Frozen(Boot(loc))
  BY DEF Boot, Frozen, Quiet, Saving, Own, NoContext

LEMMA StartFrozen ==
    ASSUME IInv, FrozenTabs, NEW t \in Tabs, Start(t)
    PROVE  FrozenTabs'
<1> DEFINE s == tab[t]
           n == [s EXCEPT !.mounted = TRUE, !.starting = TRUE, !.gen = @ + 1,
                          !.gate = [NoGate EXCEPT !.gen = s.gen + 1]]
<1>1. Safe(s) /\ s \in TabState /\ ~s.mounted /\ tab' = [tab EXCEPT ![t] = n]
  BY IInvParts DEF Start, Become, Safe, Sound
<1>2. n.ctx = s.ctx /\ n.recovery = s.recovery /\ n.queue = s.queue
  BY <1>1 DEF TabState
<1>3. s.ctx = NoContext
  BY <1>1 DEF Safe, Sound, Leased
<1>4. Frozen(s)
  BY DEF FrozenTabs
<1> HIDE DEF n
<1>5. Frozen(n)
  BY <1>2, <1>3, <1>4 DEF Frozen, Quiet, Saving, Own, NoContext
<1> QED BY <1>1, <1>5, TaskFrozen

LEMMA StopFrozen ==
    ASSUME IInv, FrozenTabs, NEW t \in Tabs, Stop(t)
    PROVE  FrozenTabs'
<1> DEFINE s == tab[t]
           n == [s EXCEPT !.mounted = FALSE, !.starting = FALSE,
                          !.gate = NoGate, !.ctx = NoContext]
<1>1. s \in TabState /\ tab' = [tab EXCEPT ![t] = n]
  BY IInvParts DEF Stop, Become, Safe, Sound
<1>2. n.ctx = NoContext /\ n.queue = s.queue
  BY <1>1 DEF TabState
<1>3. \A i \in DOMAIN s.queue : s.queue[i].gen # 0
  BY <1>1, RequestsHaveLeases
<1> HIDE DEF n
<1>4. Idle(n) /\ ~n.ctx.hydrated
  BY <1>2, <1>3 DEF Idle, Own, NoContext
<1> QED BY <1>1, <1>4, IdleFrozen, TaskFrozen

LEMMA AuthReadyFrozen ==
    ASSUME IInv, FrozenTabs, NEW t \in Tabs, AuthReady(t)
    PROVE  FrozenTabs'
<1> DEFINE s == tab[t]
           m == [s EXCEPT !.starting = FALSE]
<1>1. Safe(s) /\ s \in TabState /\ Frozen(s)
  BY IInvParts DEF Safe, Sound, FrozenTabs
<1>2. /\ tab' = [tab EXCEPT ![t] = Hydrate(m, local)] /\ HasLease(s, s.user) /\ s.starting
      /\ local \in LocalStorage /\ Kept(local)
  BY IInvParts DEF AuthReady, Become
<1>3. m \in TabState
  BY <1>1 DEF TabState
<1>4. /\ m.ctx = s.ctx /\ m.gate = s.gate /\ m.gen = s.gen /\ ~m.starting
      /\ m.user = s.user /\ m.mounted = s.mounted /\ m.store = s.store
      /\ m.queue = s.queue /\ m.inbox = s.inbox /\ m.recovery = s.recovery
  BY <1>1 DEF TabState
<1>5. Unsettled(m)
  BY <1>1, <1>3, <1>4 DEF Safe, Sound, Leased, Unsettled, Carried, Sourced
<1>6. m.mounted /\ HasLease(m, m.user)
  BY <1>1, <1>2, <1>4 DEF Safe, Sound, Leased, HasLease
<1> HIDE DEF m
<1>7. Frozen(m)
  BY <1>1, <1>4, SameFrozen
<1>8. Frozen(Hydrate(m, local))
  BY <1>2, <1>5, <1>6, <1>7, HydrateFrozen
<1> QED BY <1>2, <1>8, TaskFrozen

\* The session's new room starts with a fresh context, which has saved nothing
\* when the store is swapped.
LEMMA SessionChangeFrozen ==
    ASSUME IInv, FrozenTabs, NEW t \in Tabs, NEW u \in Rooms, SessionChange(t, u)
    PROVE  FrozenTabs'
<1> DEFINE s == tab[t]
           signed == [s EXCEPT !.user = u, !.authed = TRUE]
           hydrating == IF s.mounted THEN Hydrate(signed, local) ELSE signed
<1>1. Safe(s) /\ s \in TabState /\ Frozen(s)
  BY IInvParts DEF Safe, Sound, FrozenTabs
<1>2. /\ tab' = [tab EXCEPT ![t] = Reload(hydrating, local, u # s.user)]
      /\ s.mounted => HasLease(s, u)
      /\ local \in LocalStorage /\ Kept(local)
  BY IInvParts DEF SessionChange, Become
<1>3. signed \in TabState
  BY <1>1 DEF TabState
<1>4. /\ signed.ctx = s.ctx /\ signed.gate = s.gate /\ signed.gen = s.gen
      /\ signed.starting = s.starting /\ signed.recovery = s.recovery
      /\ signed.user = u /\ signed.mounted = s.mounted /\ signed.store = s.store
      /\ signed.queue = s.queue /\ signed.inbox = s.inbox
  BY <1>1 DEF TabState
<1>5. Unsettled(signed)
  BY <1>1, <1>3, <1>4 DEF Safe, Sound, Leased, Unsettled, Carried, Sourced
<1>6. Frozen(signed)
  BY <1>1, <1>4, SameFrozen
<1>7. /\ Sound(hydrating) /\ Frozen(hydrating)
      /\ u # s.user => Quiet(hydrating)
  <2>1. CASE s.mounted
    <3>1. signed.mounted /\ HasLease(signed, signed.user)
      BY <1>2, <1>4, <2>1 DEF HasLease
    <3>2. u # s.user => signed.ctx.room # signed.user
      BY <1>1, <1>4, PersistenceAssumption DEF Safe, Sound, Leased, NoContext
    <3> HIDE DEF signed
    <3> QED BY <1>2, <1>5, <1>6, <2>1, <3>1, <3>2, HydrateSound, HydrateFrozen
  <2>2. CASE ~s.mounted
    <3>1. Leased(signed) /\ ~signed.ctx.hydrated
      BY <1>1, <1>4, <2>2 DEF Safe, Sound, Leased, NoContext
    <3> HIDE DEF signed
    <3>2. Sound(signed) /\ Quiet(signed)
      BY <1>3, <1>5, <1>6, <3>1 DEF Sound, Unsettled, Frozen
    <3> QED BY <1>6, <2>2, <3>2
  <2> QED BY <2>1, <2>2
<1> HIDE DEF hydrating
<1>8. (u # s.user) \in BOOLEAN
  OBVIOUS
<1>9. Frozen(Reload(hydrating, local, u # s.user))
  BY <1>2, <1>7, <1>8, ReloadFrozen
<1> QED BY <1>2, <1>9, TaskFrozen

LEMMA RestartFrozen ==
    ASSUME IInv, FrozenTabs, NEW t \in Tabs, Restart(t)
    PROVE  FrozenTabs'
  BY BootFrozen, TaskFrozen DEF Restart

LEMMA CaptureFrozen ==
    ASSUME IInv, FrozenTabs, NEW t \in Tabs, Capture(t)
    PROVE  FrozenTabs'
<1> DEFINE s == tab[t]
           n == [s EXCEPT !.lease = [gen |-> s.gate.gen, room |-> s.gate.room]]
<1>1. s \in TabState /\ Frozen(s) /\ tab' = [tab EXCEPT ![t] = n]
  BY IInvParts DEF Capture, Become, Safe, Sound, FrozenTabs
<1>2. /\ n.ctx = s.ctx /\ n.gate = s.gate
      /\ n.recovery = s.recovery /\ n.queue = s.queue
  BY <1>1 DEF TabState
<1> HIDE DEF n
<1>3. Frozen(n)
  BY <1>1, <1>2, SameFrozen
<1> QED BY <1>1, <1>3, TaskFrozen

LEMMA RemoteFrozen ==
    ASSUME IInv, FrozenTabs, NEW t \in Tabs, Remote(t)
    PROVE  FrozenTabs'
<1> DEFINE s == tab[t]
           m == Head(s.inbox)
           read == [s EXCEPT !.inbox = Tail(s.inbox)]
           n == IF Accepts(s, m) THEN Changed(read, m.ws, FALSE) ELSE read
<1>1. /\ s \in TabState /\ Frozen(s) /\ s.inbox \in Seq(Message) /\ s.inbox # <<>>
  BY IInvParts DEF Safe, Sound, TabState, FrozenTabs, Remote
<1>2. tab' = [tab EXCEPT ![t] = n]
  BY <1>1 DEF Remote, Become, TabState
<1>3. Tail(s.inbox) \in Seq(Message) /\ m.ws \in Workspace
  <2>1. Tail(s.inbox) \in Seq(Message) /\ m \in Message
    BY <1>1, TailElements
  <2> QED BY <2>1 DEF Message
<1>4. /\ read \in TabState /\ read.ctx = s.ctx /\ read.gate = s.gate
      /\ read.recovery = s.recovery /\ read.queue = s.queue
  BY <1>1, <1>3 DEF TabState
<1> HIDE DEF read, m
<1>5. Frozen(read)
  BY <1>1, <1>4, SameFrozen
<1>6. Frozen(n)
  BY <1>3, <1>4, <1>5, ChangedFrozen
<1> HIDE DEF n
<1> QED BY <1>2, <1>6, TaskFrozen

LEMMA ClaimSaveFrozen ==
    ASSUME IInv, FrozenTabs, NEW t \in Tabs, ClaimSave(t)
    PROVE  FrozenTabs'
<1> DEFINE s == tab[t]
           c == [s.ctx EXCEPT !.latest = None]
           m == [s EXCEPT !.ctx = c]
           req == [kind |-> "save", gen |-> m.ctx.gen, room |-> m.ctx.room,
                   ws |-> s.ctx.latest, expect |-> 0]
           n == Issue(m, "save", s.ctx.latest, 0)
<1>1. Safe(s) /\ s \in TabState /\ Frozen(s) /\ s.ctx.latest # None /\ s.queue \in Seq(Request)
  BY IInvParts DEF Safe, Sound, TabState, FrozenTabs, ClaimSave
<1>2. s.ctx.hydrated /\ ~s.recovery /\ s.gate.hydrated
  BY <1>1 DEF Frozen, Quiet
<1>3. tab' = [tab EXCEPT ![t] = n]
  BY <1>1 DEF ClaimSave, Become, TabState, Context
<1>4. /\ m.ctx.gen = s.ctx.gen /\ m.ctx.room = s.ctx.room /\ m.ctx.hydrated
      /\ m.gate = s.gate /\ m.recovery = s.recovery /\ m.queue = s.queue
  BY <1>1, <1>2 DEF TabState, Context
<1>5. /\ n.queue = Append(s.queue, req) /\ n.ctx = m.ctx
      /\ n.gate = s.gate /\ n.recovery = s.recovery
  BY <1>1 DEF Issue, TabState
<1>6. req \in Request /\ req.kind = "save"
  <2>1. s.ctx.gen # 0
    BY <1>1, <1>2 DEF Safe, Sound, Leased, NoContext
  <2>2. s.ctx.gen \in 1..MaxGen /\ s.ctx.room \in Rooms
    BY <1>1, <2>1, LeaseIsSession DEF Safe
  <2>3. s.ctx.latest \in Workspace
    BY <1>1 DEF TabState, Context
  <2> QED BY <1>4, <2>2, <2>3 DEF Request, Kinds
<1> HIDE DEF n, m, c, req
<1>7. /\ \A i \in DOMAIN s.queue : n.queue[i] = s.queue[i]
      /\ n.queue[Len(s.queue) + 1] = req
      /\ \A i \in DOMAIN n.queue : i = Len(s.queue) + 1 \/ i \in DOMAIN s.queue
  BY <1>1, <1>5, <1>6, AppendIndices
<1>8. \A i \in DOMAIN s.queue : ~(Own(s, s.queue[i]) /\ s.queue[i].kind # "save")
  BY <1>1, <1>2 DEF Frozen
<1>9. \A i \in DOMAIN n.queue : ~(Own(n, n.queue[i]) /\ n.queue[i].kind # "save")
  BY <1>4, <1>5, <1>6, <1>7, <1>8 DEF Own
<1>10. Frozen(n)
  BY <1>2, <1>4, <1>5, <1>9 DEF Frozen
<1> QED BY <1>3, <1>10, TaskFrozen

LEMMA PublishFrozen ==
    ASSUME IInv, FrozenTabs, NEW t \in Tabs, NEW ws \in Workspace,
           NEW recovery \in BOOLEAN, NEW kept \in BOOLEAN, tab[t].gate.hydrated,
           recovery => tab[t].recovery,
           Publish(t, ws, recovery, kept)
    PROVE  FrozenTabs'
<1> DEFINE s == tab[t]
           m == [s EXCEPT !.recovery = recovery]
           n == Changed(m, ws, FALSE)
           broadcast == [room |-> s.user, ws |-> ws]
<1>1. Safe(s) /\ s \in TabState /\ Frozen(s) /\ s.ctx.hydrated
  BY IInvParts DEF Safe, Sound, Leased, FrozenTabs
<1>2. tab' = [x \in Tabs |-> IF x = t THEN n
                            ELSE [tab[x] EXCEPT !.inbox = Append(@, broadcast)]]
  BY DEF Publish
<1>3. /\ m \in TabState /\ m.ctx = s.ctx /\ m.gate = s.gate /\ m.queue = s.queue
      /\ m.recovery = recovery
  BY <1>1 DEF TabState
<1> HIDE DEF m
<1>4. Frozen(m)
  BY <1>1, <1>3 DEF Frozen, Quiet, Saving, Own
<1>5. Frozen(n)
  BY <1>3, <1>4, ChangedFrozen
<1> HIDE DEF n, broadcast
<1>6. \A x \in Tabs : Frozen(tab'[x])
  <2> SUFFICES ASSUME NEW x \in Tabs PROVE Frozen(tab'[x])
    OBVIOUS
  <2>1. CASE x = t
    BY <1>2, <1>5, <2>1
  <2>2. CASE x # t
    <3> DEFINE other == [tab[x] EXCEPT !.inbox = Append(@, broadcast)]
    <3>1. tab[x] \in TabState /\ Frozen(tab[x]) /\ tab'[x] = other
      BY <1>2, <2>2, IInvParts DEF FrozenTabs
    <3>2. /\ other.ctx = tab[x].ctx /\ other.gate = tab[x].gate
          /\ other.recovery = tab[x].recovery /\ other.queue = tab[x].queue
      BY <3>1 DEF TabState
    <3> HIDE DEF other
    <3> QED BY <3>1, <3>2, SameFrozen
  <2> QED BY <2>1, <2>2
<1> QED BY <1>6 DEF FrozenTabs, Frozen, Quiet, Saving, Own

LEMMA MutationFrozen ==
    ASSUME IInv, FrozenTabs, NEW t \in Tabs, NEW kept \in BOOLEAN,
           \/ Edit(t, kept) \/ AgentEdit(t, kept)
           \/ \E big \in BOOLEAN : Reduce(t, big, kept)
    PROVE  FrozenTabs'
<1> DEFINE s == tab[t]
<1>1. /\ Safe(s) /\ s.user \in Rooms /\ s.store \in Workspace /\ Within(s.store, s.user)
      /\ clock \in 0..MaxEdits
  BY IInvParts DEF Safe, Sound, TabState
<1>2. CASE Edit(t, kept)
  <2>1. /\ clock < MaxEdits /\ s.gate.hydrated
        /\ Publish(t, With(s.store, s.user, FALSE), FALSE, kept)
    BY <1>2 DEF Edit, MayMutate
  <2> QED BY <1>1, <2>1, WithWithin, PublishFrozen
<1>3. CASE AgentEdit(t, kept)
  <2>1. /\ clock < MaxEdits /\ s.gate.hydrated /\ s.gate.room = s.lease.room
        /\ Publish(t, With(s.store, s.lease.room, FALSE), FALSE, kept)
    BY <1>3 DEF AgentEdit, MayMutate, IsCurrent
  <2>2. s.lease.room = s.user
    BY <1>1, <2>1 DEF Safe, Sound, Leased
  <2> QED BY <1>1, <2>1, <2>2, WithWithin, PublishFrozen
<1>4. ASSUME NEW big \in BOOLEAN, Reduce(t, big, kept) PROVE FrozenTabs'
  <2>1. /\ clock < MaxEdits /\ s.gate.hydrated /\ s.recovery
        /\ Publish(t, With(s.store, s.user, big), big, kept)
    BY <1>4 DEF Reduce, MayMutate
  <2> QED BY <1>1, <1>4, <2>1, WithWithin, PublishFrozen
<1> QED BY <1>2, <1>3, <1>4

\* A request that is answered leaves the queue; if it was the hydration's, the
\* context has nothing else under way.
LEMMA ServedFrozen ==
    ASSUME NEW s \in TabState, Frozen(s), s.queue # <<>>
    PROVE  LET served == [s EXCEPT !.queue = Tail(@)] IN
           /\ Frozen(served)
           /\ Own(s, Head(s.queue)) /\ Head(s.queue).kind # "save" =>
                 ~s.ctx.hydrated /\ Idle(served)
<1> DEFINE served == [s EXCEPT !.queue = Tail(s.queue)]
<1>1. s.queue \in Seq(Request)
  BY DEF TabState
<1>2. /\ served.queue = Tail(s.queue) /\ served.ctx = s.ctx
      /\ served.gate = s.gate /\ served.recovery = s.recovery
  BY DEF TabState
<1> HIDE DEF served
<1>3. /\ 1 \in DOMAIN s.queue /\ Head(s.queue) = s.queue[1]
      /\ \A i \in DOMAIN served.queue :
            i \in Nat /\ i + 1 \in DOMAIN s.queue /\ served.queue[i] = s.queue[i + 1]
  BY <1>1, <1>2, TailIndices
<1>4. Frozen(served)
  <2>1. Saving(served) => Saving(s)
    BY <1>2, <1>3 DEF Saving
  <2>2. \A i, j \in DOMAIN served.queue : i + 1 = j + 1 => i = j
    BY <1>3
  <2>3. ASSUME NEW i \in DOMAIN served.queue,
               Own(served, served.queue[i]) /\ served.queue[i].kind # "save"
        PROVE  /\ ~served.ctx.hydrated
               /\ \A j \in DOMAIN served.queue : Own(served, served.queue[j]) => j = i
    <3>1. /\ i + 1 \in DOMAIN s.queue /\ Own(s, s.queue[i + 1])
          /\ s.queue[i + 1].kind # "save"
      BY <1>2, <1>3, <2>3 DEF Own
    <3>2. ~s.ctx.hydrated /\ \A j \in DOMAIN s.queue : Own(s, s.queue[j]) => j = i + 1
      BY <3>1 DEF Frozen
    <3>3. \A j \in DOMAIN served.queue : Own(served, served.queue[j]) => j + 1 = i + 1
      BY <1>2, <1>3, <3>2 DEF Own
    <3> QED BY <1>2, <2>2, <3>2, <3>3
  <2>4. /\ served.ctx.hydrated => served.gate.hydrated
        /\ served.recovery \/ ~served.ctx.hydrated => Quiet(served)
    BY <1>2, <2>1 DEF Frozen, Quiet
  <2> QED BY <2>3, <2>4 DEF Frozen
<1>5. ASSUME Own(s, Head(s.queue)), Head(s.queue).kind # "save"
      PROVE  ~s.ctx.hydrated /\ Idle(served)
  <2>1. ~s.ctx.hydrated /\ \A j \in DOMAIN s.queue : Own(s, s.queue[j]) => j = 1
    BY <1>3, <1>5 DEF Frozen
  <2>2. s.ctx.latest = None
    BY <2>1 DEF Frozen, Quiet
  <2>3. \A i \in DOMAIN served.queue : i + 1 # 1 /\ i # 0
    <3>1. DOMAIN Tail(s.queue) = 1..(Len(s.queue) - 1) /\ Len(s.queue) \in Nat
      BY <1>1, TailIndices
    <3> QED BY <1>2, <3>1
  <2>4. \A i \in DOMAIN served.queue : ~Own(served, served.queue[i])
    BY <1>2, <1>3, <2>1, <2>3 DEF Own
  <2> QED BY <1>2, <2>1, <2>2, <2>4 DEF Idle
<1> QED BY <1>4, <1>5 DEF served

LEMMA SaveReturnedFrozen ==
    ASSUME NEW s \in TabState, Frozen(s), NEW ok \in BOOLEAN, NEW flushed \in BOOLEAN
    PROVE  Frozen(SaveReturned(s, ok, flushed))
<1> DEFINE n == SaveReturned(s, ok, flushed)
<1>1. /\ n.ctx.gen = s.ctx.gen /\ n.ctx.hydrated = s.ctx.hydrated
      /\ n.ctx.latest = s.ctx.latest
      /\ n.gate = s.gate /\ n.recovery = s.recovery /\ n.queue = s.queue
  BY DEF SaveReturned, TabState, Context
<1> HIDE DEF n
<1> QED BY <1>1 DEF n, Frozen, Quiet, Saving, Own

LEMMA ServeFrozen ==
    ASSUME IInv, FrozenTabs, NEW t \in Tabs, NEW works \in BOOLEAN, NEW flushed \in BOOLEAN,
           Serve(t, works, flushed)
    PROVE  FrozenTabs'
<1> DEFINE s == tab[t]
           req == Head(s.queue)
           record == idb[req.room]
           write == req.kind \notin {"load", "probe"}
           ok == works /\ (write => Fits(req, record))
           after == IF ok /\ write THEN Put(req, record) ELSE record
           served == [s EXCEPT !.queue = Tail(s.queue)]
           n == IF req.kind = "save"
                THEN IF s.ctx.gen = req.gen THEN SaveReturned(served, ok, flushed) ELSE served
                ELSE IF Resumes(s, req) THEN Continue(served, req, ok, after) ELSE served
<1>1. /\ Safe(s) /\ s \in TabState /\ s.queue \in Seq(Request) /\ s.queue # <<>>
      /\ Frozen(s)
  BY IInvParts DEF Safe, Sound, TabState, FrozenTabs, Serve
<1>2. /\ Tail(s.queue) \in Seq(Request) /\ req \in Request
      /\ 1 \in DOMAIN s.queue /\ req = s.queue[1]
      /\ \A i \in DOMAIN Tail(s.queue) : \E j \in DOMAIN s.queue :
            Tail(s.queue)[i] = s.queue[j]
  BY <1>1, TailElements
<1>3. Sourced(s, req)
  BY <1>1, <1>2 DEF Safe, Sound, Carried
<1>4. /\ req.kind \in Kinds /\ req.gen # 0 /\ req.room \in Rooms /\ req.ws \in Workspace
      /\ Within(req.ws, req.room)
  BY <1>2, <1>3, PersistenceAssumption DEF Request, Sourced
<1>5. tab' = [tab EXCEPT ![t] = n]
  BY <1>1 DEF Serve, TabState
<1>6. served \in TabState
  BY <1>1, <1>2 DEF TabState
<1>7. /\ served.ctx = s.ctx /\ served.gate = s.gate /\ served.gen = s.gen
      /\ served.user = s.user /\ served.mounted = s.mounted
      /\ served.starting = s.starting /\ served.store = s.store
      /\ served.queue = Tail(s.queue) /\ served.inbox = s.inbox
  BY <1>1 DEF TabState
<1>8. \A i \in DOMAIN served.queue : Sourced(s, served.queue[i])
  BY <1>1, <1>2, <1>7 DEF Safe, Sound, Carried
<1>9. Safe(served)
  BY <1>1, <1>6, <1>7, <1>8 DEF Safe, Sound, Leased, Carried, Sourced
<1>10. /\ Frozen(served)
       /\ Own(s, req) /\ req.kind # "save" => ~s.ctx.hydrated /\ Idle(served)
  BY <1>1, ServedFrozen
<1>11. record \in Record \cup {None} /\ (record # None => Within(record.ws, req.room))
  BY <1>4, IInvParts DEF Database, Kept
<1>12. Put(req, record) \in Record /\ Put(req, record).ws = req.ws
  BY <1>4, <1>11, IInvParts DEF Put, Rev, Record
<1>13. ok \in BOOLEAN
  BY DEF Fits
<1>14. /\ after \in Record \cup {None}
       /\ after # None => Within(after.ws, req.room)
       /\ write /\ ok => after \in Record /\ Within(after.ws, req.room)
  BY <1>4, <1>11, <1>12
<1> HIDE DEF served, after, ok, record, req
<1>15. Frozen(n)
  <2>1. CASE req.kind = "save" /\ s.ctx.gen = req.gen
    <3>1. Frozen(SaveReturned(served, ok, flushed))
      BY <1>6, <1>10, <1>13, SaveReturnedFrozen
    <3> QED BY <2>1, <3>1
  <2>2. CASE req.kind # "save" /\ Resumes(s, req)
    <3>1. /\ served.ctx.gen # 0 /\ req.room = served.ctx.room
          /\ Idle(served) /\ ~served.ctx.hydrated
      BY <1>3, <1>4, <1>7, <1>10, <2>2 DEF Resumes, Sourced, Own
    <3>2. local \in LocalStorage /\ Kept(local)
      BY IInvParts
    <3>3. Frozen(Continue(served, req, ok, after))
      BY <1>2, <1>9, <1>13, <1>14, <2>2, <3>1, <3>2, ContinueFrozen
    <3> QED BY <2>2, <3>3
  <2>3. CASE ~(req.kind = "save" /\ s.ctx.gen = req.gen)
             /\ ~(req.kind # "save" /\ Resumes(s, req))
    BY <1>10, <2>3
  <2> QED BY <2>1, <2>2, <2>3
<1> HIDE DEF n
<1> QED BY <1>5, <1>15, TaskFrozen

LEMMA NextFrozen == IInv /\ FrozenTabs /\ [Next]_vars => FrozenTabs'
<1> SUFFICES ASSUME IInv, FrozenTabs, [Next]_vars PROVE FrozenTabs'
  OBVIOUS
<1>1. CASE UNCHANGED vars
  BY <1>1 DEF vars, FrozenTabs, Frozen, Quiet, Saving, Own
<1>2. CASE Next
  <2> PICK t \in Tabs :
         \/ Start(t) \/ Stop(t) \/ AuthReady(t) \/ Restart(t)
         \/ \E u \in Rooms : SessionChange(t, u)
         \/ Capture(t) \/ Remote(t) \/ ClaimSave(t)
         \/ \E kept \in BOOLEAN :
               \/ Edit(t, kept) \/ AgentEdit(t, kept)
               \/ \E big \in BOOLEAN : Reduce(t, big, kept)
         \/ \E works, flushed \in BOOLEAN : Serve(t, works, flushed)
    BY <1>2 DEF Next
  <2>1. CASE Start(t)
    BY <2>1, StartFrozen
  <2>2. CASE Stop(t)
    BY <2>2, StopFrozen
  <2>3. CASE AuthReady(t)
    BY <2>3, AuthReadyFrozen
  <2>4. CASE Restart(t)
    BY <2>4, RestartFrozen
  <2>5. CASE \E u \in Rooms : SessionChange(t, u)
    BY <2>5, SessionChangeFrozen
  <2>6. CASE Capture(t)
    BY <2>6, CaptureFrozen
  <2>7. CASE Remote(t)
    BY <2>7, RemoteFrozen
  <2>8. CASE ClaimSave(t)
    BY <2>8, ClaimSaveFrozen
  <2>9. CASE \E kept \in BOOLEAN :
                \/ Edit(t, kept) \/ AgentEdit(t, kept)
                \/ \E big \in BOOLEAN : Reduce(t, big, kept)
    BY <2>9, MutationFrozen
  <2>10. CASE \E works, flushed \in BOOLEAN : Serve(t, works, flushed)
    BY <2>10, ServeFrozen
  <2> QED BY <2>1, <2>2, <2>3, <2>4, <2>5, <2>6, <2>7, <2>8, <2>9, <2>10
<1> QED BY <1>1, <1>2

\* While a room is in recovery its saver holds and saves nothing, in every
\* number of tabs and whatever session changes and answers overtake each other.
THEOREM RecoveryFrozen == Spec => []RecoveryFreezesSaver
<1>1. Init => FrozenTabs
  BY BootFrozen DEF Init, FrozenTabs
<1>2. IInv /\ FrozenTabs /\ [Next]_vars => FrozenTabs'
  BY NextFrozen
<1>3. FrozenTabs => RecoveryFreezesSaver
  BY DEF FrozenTabs, Frozen, Quiet, RecoveryFreezesSaver
<1>4. Spec => [](IInv /\ FrozenTabs)
  BY InitEstablishes, NextPreserves, <1>1, <1>2, PTL DEF Spec
<1> QED BY <1>3, <1>4, PTL

-----------------------------------------------------------------------------
(* What a single tab saves.  These two conditions on the constants are the  *)
(* hypotheses of the theorems that follow.                                  *)

OneTab == \A t, u \in Tabs : t = u
NoBigRoom == BigRooms = {}

Small(ws) == ~ws.big
SmallStorage(storage) == \A r \in Rooms : storage[r] # None => Small(storage[r].ws)

\* The copy in localStorage was written after the record.
Newer(loc, db, r) == loc[r] # None /\ db[r] # None /\ db[r].at < loc[r].at

\* Only the first request of a tab writes or looks for a workspace to migrate;
\* it looks while its room has no record.
Waiting(s, db) ==
    /\ \A i \in DOMAIN s.queue : Small(s.queue[i].ws) /\ (i # 1 => s.queue[i].kind = "load")
    /\ s.queue # <<>> /\ s.queue[1].kind \in {"probe", "migrate"} =>
          db[s.queue[1].room] = None

\* A hydrated context has no request but its save; one that is not has its
\* request last and compares with what localStorage holds.
Lined(s, loc) ==
    /\ s.inbox = <<>> /\ ~s.ctx.pend /\ ~s.recovery
    /\ s.ctx.hydrated =>
          \A i \in DOMAIN s.queue : i = 1 /\ s.queue[i].kind = "save" /\ Own(s, s.queue[i])
    /\ ~s.ctx.hydrated =>
          \A i \in DOMAIN s.queue :
             Own(s, s.queue[i]) => i = Len(s.queue) /\ s.queue[i].kind # "save"
    /\ s.ctx.gen # 0 /\ ~s.ctx.hydrated => s.ctx.localAt = StoredAt(loc, s.user)

\* The context waits for the save that reconciles localStorage with the record.
Preserves(s) == s.queue # <<>> /\ s.queue[1].kind = "preserve" /\ Own(s, s.queue[1])

Reconciling(s, loc, db) ==
    Preserves(s) => /\ Newer(loc, db, s.user)
                    /\ loc[s.user].ws.edits \subseteq s.queue[1].ws.edits

\* What the user sees is in the record, or on its way to it.
Durable(s, loc, db) ==
    /\ Small(s.store)
    /\ Newer(loc, db, s.user) => loc[s.user].ws.edits \subseteq s.store.edits
    /\ Preserves(s) => s.store.edits \subseteq s.queue[1].ws.edits
    /\ s.ctx.latest # None => s.ctx.latest = s.store
    /\ s.ctx.hydrated /\ s.ctx.latest = None =>
          \/ s.queue # <<>> /\ s.queue[1].ws = s.store
          \/ s.queue = <<>> /\ s.ctx.failed
          \/ s.queue = <<>> /\ db[s.ctx.room] # None
                            /\ s.store.edits \subseteq db[s.ctx.room].ws.edits

Saved(s, loc, db) ==
    Waiting(s, db) /\ Lined(s, loc) /\ Reconciling(s, loc, db) /\ Durable(s, loc, db)

SavingInv ==
    /\ SmallStorage(local) /\ SmallStorage(idb)
    /\ \A r \in Rooms : local[r] # None => local[r].at <= clock
    /\ \A t \in Tabs : Saved(tab[t], local, idb)

\* A tab whose context waits for nothing but its hydration's answer, whatever its
\* store holds: what a session event finds when it swaps the store.
Parked(s, loc, db) ==
    /\ s \in TabState /\ ~s.ctx.hydrated /\ s.ctx.latest = None
    /\ Waiting(s, db) /\ Lined(s, loc) /\ Reconciling(s, loc, db)

LEMMA ParkedSaved ==
    ASSUME NEW s, NEW loc, NEW db, Parked(s, loc, db), Small(s.store),
           Newer(loc, db, s.user) => loc[s.user].ws.edits \subseteq s.store.edits,
           Preserves(s) => s.store.edits \subseteq s.queue[1].ws.edits
    PROVE  Saved(s, loc, db)
  BY DEF Parked, Saved, Durable

LEMMA SavedParked ==
    ASSUME NEW s \in TabState, Frozen(s), NEW loc, NEW db, Saved(s, loc, db), ~s.ctx.hydrated
    PROVE  Parked(s, loc, db)
  BY DEF Parked, Saved, Frozen, Quiet

\* Neither the session nor the storage matters to a tab without a context.
LEMMA SameSaved ==
    ASSUME NEW s, NEW n, NEW loc, NEW db, Saved(s, loc, db),
           n.ctx = s.ctx, n.queue = s.queue, n.inbox = s.inbox, n.recovery = s.recovery,
           n.user = s.user, n.store = s.store
    PROVE  Saved(n, loc, db)
  BY DEF Saved, Waiting, Lined, Reconciling, Preserves, Durable, Own

LEMMA SameParked ==
    ASSUME NEW s, NEW n \in TabState, NEW loc, NEW db, Parked(s, loc, db),
           n.ctx.gen = s.ctx.gen, n.ctx.hydrated = s.ctx.hydrated, n.ctx.latest = s.ctx.latest,
           n.ctx.pend = s.ctx.pend, n.ctx.localAt = s.ctx.localAt,
           n.queue = s.queue, n.inbox = s.inbox, n.recovery = s.recovery, n.user = s.user
    PROVE  Parked(n, loc, db)
  BY DEF Parked, Waiting, Lined, Reconciling, Preserves, Own

LEMMA UnleasedParked ==
    ASSUME NEW s, NEW n \in TabState, NEW loc, NEW db, Waiting(s, db), Lined(s, loc),
           n.ctx = NoContext, n.queue = s.queue, n.inbox = s.inbox, n.recovery = s.recovery
    PROVE  Parked(n, loc, db) /\ ~Preserves(n)
<1>1. \A i \in DOMAIN n.queue : n.queue[i].gen # 0
  BY RequestsHaveLeases
<1>2. \A i \in DOMAIN n.queue : ~Own(n, n.queue[i])
  BY <1>1 DEF Own, NoContext
<1>3. Waiting(n, db)
  BY DEF Waiting
<1>4. Lined(n, loc)
  BY <1>2 DEF Lined, NoContext
<1>5. ~Preserves(n)
  <2>1. n.queue # <<>> => 1 \in DOMAIN n.queue
    BY TailElements DEF TabState
  <2> QED BY <1>2, <2>1 DEF Preserves
<1> QED BY <1>3, <1>4, <1>5 DEF Parked, Reconciling, NoContext

-----------------------------------------------------------------------------
(* Hydrations and session events.                                           *)

LEMMA StoredSmall ==
    ASSUME NEW loc \in LocalStorage, SmallStorage(loc), NEW r \in Rooms
    PROVE  Small(Stored(loc, r)) /\ Stored(loc, r) \in Workspace
  BY Constants DEF LocalStorage, SmallStorage, Small, Stored, Empty

\* The read of a fresh context joins the queue behind what is still under way.
LEMMA FreshParked ==
    ASSUME NEW s, Unsettled(s), s.mounted, HasLease(s, s.user), s.ctx.room # s.user,
           NEW loc \in LocalStorage, Kept(loc), NEW db,
           Waiting(s, db), s.inbox = <<>>, ~s.recovery
    PROVE  /\ Parked(BeginHydration(s, loc), loc, db) /\ ~Preserves(BeginHydration(s, loc))
           /\ BeginHydration(s, loc).ctx.gen # 0 /\ ~BeginHydration(s, loc).ctx.hydrated
           /\ BeginHydration(s, loc).queue[1].kind # "load" =>
                 s.queue # <<>> /\ BeginHydration(s, loc).queue[1] = s.queue[1]
<1> DEFINE n == BeginHydration(s, loc)
<1>1. PICK fresh : Fresh(s, loc, fresh)
  BY FreshIdle
<1> DEFINE req == [kind |-> "load", gen |-> fresh.ctx.gen, room |-> fresh.ctx.room,
                   ws |-> Empty, expect |-> 0]
<1>2. /\ Sound(fresh) /\ fresh.ctx.gen # 0 /\ Idle(fresh) /\ ~fresh.ctx.hydrated
      /\ ~fresh.ctx.pend /\ fresh.user = s.user /\ fresh.ctx.localAt = StoredAt(loc, s.user)
      /\ fresh.queue = s.queue /\ fresh.inbox = s.inbox /\ fresh.recovery = s.recovery
      /\ n = Issue(fresh, "load", Empty, 0)
  BY <1>1 DEF Fresh
<1>3. /\ n.queue = Append(s.queue, req)
      /\ n.ctx = fresh.ctx /\ n.user = s.user /\ n.inbox = s.inbox /\ n.recovery = s.recovery
  BY <1>2 DEF Issue, Sound, TabState
<1>4. s.queue \in Seq(Request) /\ req \in Request
  <2>1. s.queue \in Seq(Request)
    BY DEF Unsettled, TabState
  <2>2. fresh.ctx.gen \in 1..MaxGen /\ fresh.ctx.room \in Rooms
    BY <1>2, LeaseIsSession
  <2> QED BY <2>1, <2>2, Constants DEF Request, Kinds
<1>5. /\ DOMAIN s.queue = 1..Len(s.queue) /\ Len(s.queue) \in Nat
      /\ DOMAIN n.queue = 1..(Len(s.queue) + 1) /\ Len(n.queue) = Len(s.queue) + 1
      /\ n.queue[Len(s.queue) + 1] = req
      /\ \A i \in DOMAIN s.queue : n.queue[i] = s.queue[i] /\ i # Len(s.queue) + 1
      /\ \A i \in DOMAIN n.queue : i = Len(s.queue) + 1 \/ i \in DOMAIN s.queue
      /\ n.queue # <<>>
  <2> HIDE DEF n, req
  <2> QED BY <1>3, <1>4, AppendIndices
<1>6. n \in TabState
  BY BeginHydrationSound DEF Sound
<1>7. req.kind = "load" /\ req.ws = Empty /\ Small(Empty)
  BY DEF Small, Empty
<1> HIDE DEF n, req
<1>8. n.queue[1].kind # "load" =>
         s.queue # <<>> /\ 1 \in DOMAIN s.queue /\ n.queue[1] = s.queue[1]
  <2>1. 1 = Len(s.queue) + 1 \/ 1 \in DOMAIN s.queue
    BY <1>5
  <2>2. 1 \in DOMAIN s.queue => s.queue # <<>>
    OBVIOUS
  <2> QED BY <1>5, <1>7, <2>1, <2>2
<1>9. Waiting(n, db)
  <2>1. ASSUME NEW i \in DOMAIN n.queue
        PROVE  Small(n.queue[i].ws) /\ (i # 1 => n.queue[i].kind = "load")
    BY <1>5, <1>7 DEF Waiting
  <2> QED BY <1>8, <2>1 DEF Waiting
<1>10. \A i \in DOMAIN n.queue : Own(n, n.queue[i]) => i = Len(n.queue) /\ n.queue[i].kind = "load"
  BY <1>2, <1>3, <1>5, <1>7 DEF Idle, Own
<1>11. Lined(n, loc)
  BY <1>2, <1>3, <1>10 DEF Lined
<1>12. ~Preserves(n)
  BY <1>2, <1>3, <1>5, <1>8 DEF Preserves, Idle, Own
<1>13. Parked(n, loc, db)
  BY <1>2, <1>3, <1>6, <1>9, <1>11, <1>12 DEF Parked, Reconciling, Idle
<1> QED BY <1>2, <1>3, <1>8, <1>12, <1>13 DEF n

\* Swapping the store of a context that is not hydrated loses nothing.
LEMMA ReloadSaved ==
    ASSUME NEW s, Sound(s), NEW loc \in LocalStorage, Kept(loc), SmallStorage(loc), NEW db,
           Parked(s, loc, db), NEW roomChanged \in BOOLEAN
    PROVE  Saved(Reload(s, loc, roomChanged), loc, db)
<1> DEFINE next == Stored(loc, s.user)
           m == [s EXCEPT !.recovery = next.big]
           expected == s.gate.gen # 0 /\ ~s.gate.hydrated
           n == Changed(m, next, expected)
<1>1. s \in TabState /\ ~s.ctx.hydrated /\ ~s.gate.hydrated /\ ~s.ctx.pend /\ ~s.recovery
  BY DEF Parked, Lined, Sound, Leased
<1>2. Reload(s, loc, roomChanged) = n
  BY <1>1 DEF Reload
<1>3. s.user \in Rooms /\ next \in Workspace /\ Small(next)
  BY <1>1, StoredSmall DEF TabState
<1>4. next.big = FALSE /\ s.recovery = FALSE
  BY <1>1, <1>3 DEF Small, Workspace, TabState
<1>5. /\ m \in TabState /\ m.ctx = s.ctx /\ m.user = s.user /\ m.mounted = s.mounted
      /\ m.queue = s.queue /\ m.inbox = s.inbox /\ m.recovery = s.recovery
  BY <1>1, <1>4 DEF TabState
<1>6. expected \in BOOLEAN /\ (expected \/ s.ctx.gen = 0)
  BY <1>1, LeaseIsSession
<1> HIDE DEF m, next, expected
<1>7. /\ n.ctx.gen = s.ctx.gen /\ n.ctx.hydrated = s.ctx.hydrated
      /\ n.ctx.latest = s.ctx.latest /\ n.ctx.localAt = s.ctx.localAt
      /\ n.user = s.user /\ n.store = next
      /\ n.recovery = s.recovery /\ n.queue = s.queue /\ n.inbox = s.inbox
  BY <1>1, <1>3, <1>5, <1>6, ChangedFields
<1>8. ~n.ctx.pend
  BY <1>1, <1>3, <1>5, <1>6, ChangedFields
<1>9. Parked(n, loc, db)
  <2>1. Sound(m)
    BY <1>5 DEF m, Sound, Leased, Carried, Sourced, TabState
  <2>2. n \in TabState
    BY <1>3, <1>6, <2>1, <1>5, StoredWithin, ChangedSound DEF next, Sound
  <2> QED BY <1>1, <1>7, <1>8, <2>2 DEF Parked, Waiting, Lined, Reconciling, Preserves, Own
<1>10. loc[s.user] # None => next = loc[s.user].ws
  BY DEF next, Stored
<1>11. Newer(loc, db, n.user) => loc[n.user].ws.edits \subseteq n.store.edits
  BY <1>7, <1>10 DEF Newer
<1>12. Preserves(n) => n.store.edits \subseteq n.queue[1].ws.edits
  BY <1>7, <1>9, <1>10 DEF Parked, Reconciling, Newer
<1>13. Saved(n, loc, db)
  BY <1>3, <1>7, <1>9, <1>11, <1>12, ParkedSaved
<1> QED BY <1>2, <1>13

-----------------------------------------------------------------------------
(* The continuations of a hydration: the queue is empty, and they end it or *)
(* make one more request.                                                   *)

Alone(s, loc) ==
    /\ Safe(s) /\ s.ctx.gen # 0 /\ ~s.ctx.hydrated /\ s.ctx.latest = None
    /\ s.queue = <<>> /\ s.inbox = <<>> /\ ~s.ctx.pend /\ ~s.recovery /\ Small(s.store)
    /\ s.ctx.localAt = StoredAt(loc, s.user)

\* The newer copy in localStorage is part of what the user sees.
Shown(s, loc, db) == Newer(loc, db, s.user) => loc[s.user].ws.edits \subseteq s.store.edits

LEMMA AloneIssue ==
    ASSUME NEW s, NEW loc, NEW db, Alone(s, loc), Shown(s, loc, db),
           NEW kind \in Kinds, kind # "save", NEW ws \in Workspace, Small(ws),
           Within(ws, s.ctx.room), NEW expect \in Nat,
           kind \in {"probe", "migrate"} => db[s.ctx.room] = None,
           kind = "preserve" => /\ Newer(loc, db, s.user)
                                /\ s.store.edits \subseteq ws.edits
    PROVE  Saved(Issue(s, kind, ws, expect), loc, db)
<1> DEFINE n == Issue(s, kind, ws, expect)
           req == [kind |-> kind, gen |-> s.ctx.gen, room |-> s.ctx.room,
                   ws |-> ws, expect |-> expect]
<1>1. Sound(s) /\ s.queue = <<>> /\ s.queue \in Seq(Request)
  BY DEF Alone, Safe, Sound, TabState
<1>2. req \in Request /\ req.kind = kind /\ req.ws = ws /\ req.room = s.ctx.room
      /\ req.gen = s.ctx.gen
  BY <1>1, LeaseIsSession DEF Request, Alone
<1>3. /\ n.queue = Append(s.queue, req) /\ n.ctx = s.ctx /\ n.user = s.user
      /\ n.inbox = s.inbox /\ n.recovery = s.recovery /\ n.store = s.store
  BY <1>1, IssueFields DEF Sound
<1>4. n \in TabState
  BY <1>1, IssueSound DEF Sound, Alone
<1> HIDE DEF n, req
<1>5. /\ n.queue # <<>> /\ n.queue[1] = req /\ Len(n.queue) = 1
      /\ \A i \in DOMAIN n.queue : i = 1
  <2>1. Len(s.queue) = 0
    BY <1>1
  <2> QED BY <1>1, <1>2, <1>3, <2>1, AppendIndices
<1>6. Waiting(n, db)
  BY <1>2, <1>5 DEF Waiting
<1>7. Lined(n, loc)
  BY <1>2, <1>3, <1>5 DEF Lined, Alone
<1>8. Preserves(n) => /\ Newer(loc, db, n.user)
                      /\ loc[n.user].ws.edits \subseteq n.queue[1].ws.edits
                      /\ n.store.edits \subseteq n.queue[1].ws.edits
  BY <1>2, <1>3, <1>5 DEF Preserves, Shown
<1>9. Parked(n, loc, db)
  BY <1>3, <1>4, <1>6, <1>7, <1>8 DEF Parked, Reconciling, Alone
<1>10. Saved(n, loc, db)
  BY <1>3, <1>8, <1>9, ParkedSaved DEF Alone, Shown
<1> QED BY <1>10 DEF n

LEMMA AloneComplete ==
    ASSUME NEW s, NEW loc, NEW db, Alone(s, loc), Shown(s, loc, db), NEW failed \in BOOLEAN
    PROVE  /\ failed \/ (db[s.ctx.room] # None /\ s.store.edits \subseteq db[s.ctx.room].ws.edits)
                 => Saved(Complete(s, failed), loc, db)
           /\ Saved(CompleteAndSave(s, failed), loc, db)
<1> DEFINE c == Complete(s, failed)
           n == ScheduleSave(c)
<1>1. s \in TabState /\ s.store \in Workspace
  BY DEF Alone, Safe, Sound, TabState
<1>2. /\ c.ctx.gen = s.ctx.gen /\ c.ctx.room = s.ctx.room /\ c.ctx.hydrated
      /\ c.ctx.latest = s.ctx.latest /\ c.ctx.failed = failed /\ c.ctx.pend = s.ctx.pend
      /\ c.user = s.user /\ c.store = s.store /\ c.recovery = s.recovery
      /\ c.queue = s.queue /\ c.inbox = s.inbox
  BY <1>1, CompleteFields
<1>3. c \in TabState
  BY CompleteSound DEF Sound, Alone, Safe
<1> HIDE DEF c
<1>4. ASSUME failed \/ (db[s.ctx.room] # None /\ s.store.edits \subseteq db[s.ctx.room].ws.edits)
      PROVE  Saved(c, loc, db)
  BY <1>2, <1>4 DEF Alone, Shown, Saved, Waiting, Lined, Reconciling, Preserves, Durable
<1>5. /\ n.ctx.hydrated /\ n.ctx.latest = s.store /\ n.ctx.pend = c.ctx.pend
      /\ n.user = c.user /\ n.store = c.store /\ n.recovery = c.recovery
      /\ n.queue = c.queue /\ n.inbox = c.inbox
  BY <1>2, <1>3, ScheduleSaveFields DEF Alone
<1> HIDE DEF n
<1>6. Saved(n, loc, db)
  BY <1>1, <1>2, <1>5, NoneAssumption
     DEF Alone, Shown, Saved, Waiting, Lined, Reconciling, Preserves, Durable
<1> QED BY <1>4, <1>6 DEF CompleteAndSave, c, n

LEMMA AloneApply ==
    ASSUME NEW s, NEW loc, NEW db, Alone(s, loc), NEW ws \in Workspace, Small(ws),
           ~Newer(loc, db, s.user), db[s.ctx.room] # None, db[s.ctx.room].ws = ws
    PROVE  Saved(Apply(s, ws), loc, db)
<1> DEFINE m == [s EXCEPT !.store = ws, !.recovery = @ \/ ws.big]
           n == Complete(m, ws.big)
<1>1. s \in TabState /\ s.recovery = FALSE /\ ws.big = FALSE
  BY DEF Alone, Safe, Sound, TabState, Workspace, Small
<1>2. /\ m \in TabState /\ m.ctx = s.ctx /\ m.user = s.user /\ m.store = ws
      /\ m.queue = s.queue /\ m.inbox = s.inbox /\ m.recovery = FALSE
  BY <1>1 DEF TabState
<1>3. Apply(s, ws) = n
  BY DEF Apply
<1> HIDE DEF m
<1>4. /\ n.ctx.gen = s.ctx.gen /\ n.ctx.room = s.ctx.room /\ n.ctx.hydrated
      /\ n.ctx.latest = s.ctx.latest /\ n.ctx.failed = ws.big /\ n.ctx.pend = s.ctx.pend
      /\ n.user = s.user /\ n.store = ws /\ n.recovery = FALSE
      /\ n.queue = s.queue /\ n.inbox = s.inbox
  BY <1>2, CompleteFields
<1> HIDE DEF n
<1>5. Saved(n, loc, db)
  BY <1>4 DEF Alone, Saved, Waiting, Lined, Reconciling, Preserves, Durable
<1> QED BY <1>3, <1>5

LEMMA AlonePreserve ==
    ASSUME NEW s, NEW loc, NEW db, Alone(s, loc), Shown(s, loc, db), NEW rev \in Nat,
           Newer(loc, db, s.user)
    PROVE  Saved(Preserve(s, rev), loc, db)
<1> DEFINE m == [s EXCEPT !.ctx.pend = FALSE]
<1>1. s \in TabState /\ s.ctx.pend = FALSE
  BY DEF Alone, Safe, Sound, TabState, Context
<1>2. /\ m \in TabState /\ m.ctx.gen = s.ctx.gen /\ m.ctx.room = s.ctx.room
      /\ m.ctx.hydrated = s.ctx.hydrated /\ m.ctx.latest = s.ctx.latest
      /\ m.ctx.pend = s.ctx.pend /\ m.ctx.localAt = s.ctx.localAt
      /\ m.gate = s.gate /\ m.gen = s.gen /\ m.user = s.user /\ m.store = s.store
      /\ m.mounted = s.mounted /\ m.starting = s.starting
      /\ m.queue = s.queue /\ m.inbox = s.inbox /\ m.recovery = s.recovery
  BY <1>1 DEF TabState, Context
<1>3. Preserve(s, rev) = Issue(m, "preserve", s.store, rev)
  BY DEF Preserve
<1>4. Sound(m)
  BY <1>2 DEF Alone, Safe, Sound, Leased, Carried, Sourced
<1>5. "preserve" \in Kinds /\ "preserve" \notin {"save", "probe", "migrate"}
      /\ s.store \in Workspace
  BY <1>1 DEF Kinds, TabState
<1> HIDE DEF m
<1>6. Alone(m, loc) /\ Shown(m, loc, db)
  BY <1>2, <1>4 DEF Alone, Safe, Shown
<1>7. Within(s.store, m.ctx.room) /\ Small(s.store)
  BY <1>2, LeaseIsSession DEF Alone, Safe
<1> QED BY <1>2, <1>3, <1>5, <1>6, <1>7, AloneIssue

\* Whatever IndexedDB answers, the tab ends its hydration with everything it shows
\* in the record or about to be saved.
LEMMA ContinueSaved ==
    ASSUME NEW s, NEW db \in Database, local \in LocalStorage, Kept(local),
           SmallStorage(local), SmallStorage(db), Alone(s, local), Shown(s, local, db),
           NEW req \in Request, req.kind # "save", NEW ok \in BOOLEAN,
           Within(req.ws, s.ctx.room),
           Kept(db), req.kind = "probe" \/ (req.kind = "migrate" /\ ~ok) => db[s.ctx.room] = None,
           req.kind \in {"migrate", "preserve"} /\ ok =>
              db[s.ctx.room] # None /\ db[s.ctx.room].ws = req.ws /\ ~Newer(local, db, s.user),
           req.kind = "preserve" => s.store.edits \subseteq req.ws.edits
    PROVE  Saved(Continue(s, req, ok, db[s.ctx.room]), local, db)
<1> DEFINE record == db[s.ctx.room]
<1>1. /\ s.ctx.room \in Rooms /\ s.ctx.room = s.user /\ ~s.ctx.pend
      /\ {"load", "probe", "migrate", "preserve"} \subseteq Kinds \ {"save"}
      /\ Empty \in Workspace /\ Within(Empty, s.ctx.room) /\ Small(Empty)
  BY LeaseIsSession, Constants DEF Alone, Safe, Kinds, Small, Empty
<1>2. record # None => /\ record.ws \in Workspace /\ record.rev \in Nat /\ Small(record.ws)
                       /\ record.at \in Nat
  BY <1>1, PersistenceAssumption DEF Database, Record, SmallStorage
<1>3. req.kind \in {"load", "probe", "migrate", "preserve"}
  BY DEF Request, Kinds
<1>4. /\ Saved(Complete(s, TRUE), local, db) /\ Saved(CompleteAndSave(s, FALSE), local, db)
      /\ record # None /\ s.store.edits \subseteq record.ws.edits
            => Saved(Complete(s, FALSE), local, db)
  BY AloneComplete
<1>5. StoredAt(local, s.user) \in Nat
  BY <1>1, StoredWithin, PersistenceAssumption
<1>6. CASE req.kind = "load"
  <2>1. Continue(s, req, ok, record) = Loaded(s, ok, record)
    BY <1>6 DEF Continue
  <2>2. CASE ~ok
    BY <1>4, <2>1, <2>2 DEF Loaded
  <2>3. CASE ok /\ record = None
    BY <1>1, <2>1, <2>3, AloneIssue DEF Loaded
  <2>4. CASE ok /\ record # None
    <3>1. CASE s.ctx.localAt > record.at
      <4>1. Newer(local, db, s.user)
        BY <1>1, <1>2, <1>5, <2>4, <3>1 DEF Newer, StoredAt, Alone
      <4> QED BY <1>2, <2>1, <2>4, <3>1, <4>1, AlonePreserve DEF Loaded
    <3>2. CASE ~(s.ctx.localAt > record.at)
      <4>1. ~Newer(local, db, s.user)
        BY <1>1, <1>2, <1>5, <2>4, <3>2 DEF Newer, StoredAt, Alone
      <4> QED BY <1>1, <1>2, <2>1, <2>4, <3>2, <4>1, AloneApply DEF Loaded
    <3> QED BY <3>1, <3>2
  <2> QED BY <2>2, <2>3, <2>4
<1>7. CASE req.kind = "probe"
  <2>1. Continue(s, req, ok, record) = Probed(s, ok, record, local) /\ record = None
    BY <1>7 DEF Continue
  <2>2. CASE ~ok \/ local[s.ctx.room] = None
    BY <1>4, <2>1, <2>2 DEF Probed
  <2>3. CASE ~(~ok \/ local[s.ctx.room] = None)
    <3>1. /\ local[s.ctx.room].ws \in Workspace /\ Within(local[s.ctx.room].ws, s.ctx.room)
          /\ Small(local[s.ctx.room].ws)
      BY <1>1, <2>3, StoredWithin DEF SmallStorage
    <3> QED BY <1>1, <2>1, <2>3, <3>1, AloneIssue DEF Probed
  <2> QED BY <2>2, <2>3
<1>8. CASE req.kind = "migrate"
  <2>1. CASE ok
    <3>1. record # None /\ ~Newer(local, db, s.user)
      BY <1>8, <2>1
    <3>2. Continue(s, req, ok, record) = Apply(s, record.ws)
      BY <1>1, <1>8, <2>1 DEF Continue, Migrated
    <3> QED BY <1>2, <3>1, <3>2, AloneApply
  <2>2. CASE ~ok
    <3>1. Continue(s, req, ok, record) = CompleteAndSave(s, FALSE)
      BY <1>8, <2>2 DEF Continue
    <3> QED BY <1>4, <3>1
  <2> QED BY <2>1, <2>2
<1>9. CASE req.kind = "preserve"
  <2>1. Continue(s, req, ok, record) = IF ok THEN Complete(s, FALSE) ELSE Complete(s, TRUE)
    BY <1>1, <1>9 DEF Continue, Preserved
  <2> QED BY <1>4, <1>9, <2>1
<1> QED BY <1>3, <1>6, <1>7, <1>8, <1>9

-----------------------------------------------------------------------------
(* Each task of the one tab keeps what it shows on its way to the record.    *)

\* With one tab, a task that leaves its tab saved keeps the invariant.
LEMMA TaskSaved ==
    ASSUME OneTab, IInv, NEW t \in Tabs, NEW n, tab' = [tab EXCEPT ![t] = n],
           Saved(n, local', idb'), SmallStorage(local'), SmallStorage(idb'),
           \A r \in Rooms : local'[r] # None => local'[r].at <= clock'
    PROVE  SavingInv'
<1>1. \A x \in Tabs : x = t /\ tab'[x] = n
  BY IInvParts DEF OneTab
<1>2. \A x \in Tabs : Saved(tab'[x], local', idb')
  BY <1>1
<1>3. \A x \in Tabs : Saved(tab[x], local, idb)'
  BY <1>2 DEF Saved, Waiting, Lined, Reconciling, Preserves, Durable, Newer, Small, Own, StoredAt
<1> QED BY <1>3 DEF SavingInv, SmallStorage, Small

LEMMA BecomeSaved ==
    ASSUME OneTab, IInv, SavingInv, NEW t \in Tabs, NEW n, Become(t, n), Saved(n, local, idb)
    PROVE  SavingInv'
  BY TaskSaved DEF Become, SavingInv

LEMMA SavingParts ==
    ASSUME IInv, FrozenTabs, SavingInv, NEW t \in Tabs
    PROVE  /\ tab[t] \in TabState /\ Safe(tab[t]) /\ Frozen(tab[t])
           /\ Saved(tab[t], local, idb)
           /\ local \in LocalStorage /\ Kept(local) /\ SmallStorage(local)
           /\ idb \in Database /\ Kept(idb) /\ SmallStorage(idb)
           /\ \A r \in Rooms : local[r] # None => local[r].at <= clock
  BY IInvParts DEF SavingInv, FrozenTabs, Safe, Sound

LEMMA StartSaved ==
    ASSUME OneTab, IInv, FrozenTabs, SavingInv, NEW t \in Tabs, Start(t) \/ Capture(t)
    PROVE  SavingInv'
<1> DEFINE s == tab[t]
<1>1. s \in TabState /\ Saved(s, local, idb)
  BY SavingParts
<1>2. CASE Start(t)
  <2> DEFINE n == [s EXCEPT !.mounted = TRUE, !.starting = TRUE, !.gen = @ + 1,
                            !.gate = [NoGate EXCEPT !.gen = s.gen + 1]]
  <2>1. Become(t, n)
    BY <1>2 DEF Start
  <2>2. /\ n.ctx = s.ctx /\ n.queue = s.queue /\ n.inbox = s.inbox /\ n.recovery = s.recovery
        /\ n.user = s.user /\ n.store = s.store
    BY <1>1 DEF TabState
  <2> HIDE DEF n
  <2> QED BY <1>1, <2>1, <2>2, SameSaved, BecomeSaved
<1>3. CASE Capture(t)
  <2> DEFINE n == [s EXCEPT !.lease = [gen |-> s.gate.gen, room |-> s.gate.room]]
  <2>1. Become(t, n)
    BY <1>3 DEF Capture
  <2>2. /\ n.ctx = s.ctx /\ n.queue = s.queue /\ n.inbox = s.inbox /\ n.recovery = s.recovery
        /\ n.user = s.user /\ n.store = s.store
    BY <1>1 DEF TabState
  <2> HIDE DEF n
  <2> QED BY <1>1, <2>1, <2>2, SameSaved, BecomeSaved
<1> QED BY <1>2, <1>3

LEMMA StopSaved ==
    ASSUME OneTab, IInv, FrozenTabs, SavingInv, NEW t \in Tabs, Stop(t)
    PROVE  SavingInv'
<1> DEFINE s == tab[t]
           n == [s EXCEPT !.mounted = FALSE, !.starting = FALSE,
                          !.gate = NoGate, !.ctx = NoContext]
<1>1. s \in TabState /\ Saved(s, local, idb)
  BY SavingParts
<1>2. Become(t, n)
  BY DEF Stop
<1>3. /\ n \in TabState /\ n.ctx = NoContext /\ n.user = s.user /\ n.store = s.store
      /\ n.queue = s.queue /\ n.inbox = s.inbox /\ n.recovery = s.recovery
  BY <1>1, Constants DEF TabState
<1> HIDE DEF n
<1>4. Parked(n, local, idb) /\ ~Preserves(n)
  BY <1>1, <1>3, UnleasedParked DEF Saved
<1>5. Saved(n, local, idb)
  BY <1>1, <1>3, <1>4, ParkedSaved DEF Saved, Durable
<1> QED BY <1>2, <1>5, BecomeSaved

LEMMA BootSaved ==
    ASSUME NEW loc \in LocalStorage, Kept(loc), SmallStorage(loc), NEW db
    PROVE  Saved(Boot(loc), loc, db)
<1> DEFINE n == Boot(loc)
<1>1. Small(Stored(loc, Anon)) /\ Stored(loc, Anon).big \in BOOLEAN
  BY StoredSmall, PersistenceAssumption DEF Workspace
<1>2. /\ n.ctx = NoContext /\ n.user = Anon /\ n.store = Stored(loc, Anon)
      /\ n.queue = <<>> /\ n.inbox = <<>> /\ ~n.recovery
  BY <1>1 DEF Boot, Small
<1>3. n \in TabState
  BY BootSafe DEF Safe, Sound
<1> HIDE DEF n
<1>4. Parked(n, loc, db) /\ ~Preserves(n)
  BY <1>2, <1>3 DEF Parked, Waiting, Lined, Reconciling, Preserves, NoContext
<1>5. Newer(loc, db, n.user) => loc[n.user].ws.edits \subseteq n.store.edits
  BY <1>2 DEF Newer, Stored
<1> QED BY <1>1, <1>2, <1>4, <1>5, ParkedSaved DEF n

LEMMA RestartSaved ==
    ASSUME OneTab, IInv, FrozenTabs, SavingInv, NEW t \in Tabs, Restart(t)
    PROVE  SavingInv'
<1>1. /\ tab' = [tab EXCEPT ![t] = Boot(local)]
      /\ local' = local /\ idb' = idb /\ clock' = clock
  BY DEF Restart
<1>2. Saved(Boot(local), local, idb)
  BY SavingParts, BootSaved
<1> QED BY <1>1, <1>2, TaskSaved, SavingParts

\* The room the page was opened in starts its hydration.
LEMMA AuthReadySaved ==
    ASSUME OneTab, IInv, FrozenTabs, SavingInv, NEW t \in Tabs, AuthReady(t)
    PROVE  SavingInv'
<1> DEFINE s == tab[t]
           m == [s EXCEPT !.starting = FALSE]
           n == Hydrate(m, local)
<1>1. Safe(s) /\ s \in TabState /\ Frozen(s) /\ Saved(s, local, idb)
  BY SavingParts
<1>2. /\ Become(t, n) /\ HasLease(s, s.user) /\ s.starting
      /\ local \in LocalStorage /\ Kept(local)
  BY SavingParts DEF AuthReady
<1>3. m \in TabState
  BY <1>1 DEF TabState
<1>4. /\ m.ctx = s.ctx /\ m.gate = s.gate /\ m.gen = s.gen /\ ~m.starting
      /\ m.user = s.user /\ m.mounted = s.mounted /\ m.store = s.store
      /\ m.queue = s.queue /\ m.inbox = s.inbox /\ m.recovery = s.recovery
  BY <1>1 DEF TabState
<1>5. Unsettled(m)
  BY <1>1, <1>3, <1>4 DEF Safe, Sound, Leased, Unsettled, Carried, Sourced
<1>6. m.mounted /\ HasLease(m, m.user)
  BY <1>1, <1>2, <1>4 DEF Safe, Sound, Leased, HasLease
<1> HIDE DEF m
<1>7. Saved(m, local, idb)
  BY <1>1, <1>4, SameSaved
<1>8. CASE m.ctx.room = m.user /\ ~m.ctx.hydrated
  BY <1>2, <1>7, <1>8, BecomeSaved DEF Hydrate
<1>9. CASE m.ctx.room = m.user /\ m.ctx.hydrated
  <2>1. n = [m EXCEPT !.ctx.joined = @ /\ m.ctx.hydrated]
    BY <1>9 DEF Hydrate, BeginHydration
  <2>2. /\ n.ctx.gen = m.ctx.gen /\ n.ctx.room = m.ctx.room /\ n.ctx.hydrated = m.ctx.hydrated
        /\ n.ctx.latest = m.ctx.latest /\ n.ctx.failed = m.ctx.failed
        /\ n.ctx.pend = m.ctx.pend /\ n.ctx.localAt = m.ctx.localAt
        /\ n.user = m.user /\ n.store = m.store
        /\ n.queue = m.queue /\ n.inbox = m.inbox /\ n.recovery = m.recovery
    BY <1>3, <2>1 DEF TabState, Context
  <2> HIDE DEF n
  <2>3. Saved(n, local, idb)
    BY <1>7, <2>2 DEF Saved, Waiting, Lined, Reconciling, Preserves, Durable, Own
  <2> QED BY <1>2, <2>3, BecomeSaved
<1>10. CASE m.ctx.room # m.user
  <2>1. n = BeginHydration(m, local)
    BY <1>10 DEF Hydrate
  <2>2. Waiting(m, idb) /\ m.inbox = <<>> /\ ~m.recovery
    BY <1>7 DEF Saved, Lined
  <2>3. Parked(n, local, idb) /\ ~Preserves(n)
    BY <1>2, <1>5, <1>6, <1>10, <2>1, <2>2, FreshParked
  <2>4. n.user = m.user /\ n.store = m.store
    BY <1>2, <1>5, <1>6, <2>1, BeginHydrationSound
  <2> HIDE DEF n
  <2>5. Saved(n, local, idb)
    BY <1>7, <2>3, <2>4, ParkedSaved DEF Saved, Durable
  <2> QED BY <1>2, <2>5, BecomeSaved
<1> QED BY <1>8, <1>9, <1>10

\* A session event replaces the store only while the context is not hydrated.
LEMMA SessionChangeSaved ==
    ASSUME OneTab, IInv, FrozenTabs, SavingInv, NEW t \in Tabs, NEW u \in Rooms,
           SessionChange(t, u)
    PROVE  SavingInv'
<1> DEFINE s == tab[t]
           signed == [s EXCEPT !.user = u, !.authed = TRUE]
           hydrating == IF s.mounted THEN Hydrate(signed, local) ELSE signed
           changed == u # s.user
           n == Reload(hydrating, local, changed)
<1>1. /\ Safe(s) /\ s \in TabState /\ Frozen(s) /\ Saved(s, local, idb)
      /\ local \in LocalStorage /\ Kept(local) /\ SmallStorage(local)
  BY SavingParts
<1>2. Become(t, n) /\ (s.mounted => HasLease(s, u))
  BY DEF SessionChange
<1>3. signed \in TabState
  BY <1>1 DEF TabState
<1>4. /\ signed.ctx = s.ctx /\ signed.gate = s.gate /\ signed.gen = s.gen
      /\ signed.starting = s.starting /\ signed.recovery = s.recovery
      /\ signed.user = u /\ signed.mounted = s.mounted /\ signed.store = s.store
      /\ signed.queue = s.queue /\ signed.inbox = s.inbox
  BY <1>1 DEF TabState
<1>5. Unsettled(signed)
  BY <1>1, <1>3, <1>4 DEF Safe, Sound, Leased, Unsettled, Carried, Sourced
<1>6. s.mounted => signed.mounted /\ HasLease(signed, signed.user)
  BY <1>2, <1>4 DEF HasLease
<1>7. changed \in BOOLEAN
  OBVIOUS
<1> HIDE DEF signed
<1>8. Sound(hydrating)
  <2>1. CASE s.mounted
    BY <1>1, <1>5, <1>6, <2>1, HydrateSound
  <2>2. CASE ~s.mounted
    <3>1. Leased(signed)
      BY <1>1, <1>4, <2>2 DEF Safe, Sound, Leased
    <3> QED BY <1>3, <1>5, <2>2, <3>1 DEF Sound, Unsettled
  <2> QED BY <2>1, <2>2
<1>9. Waiting(signed, idb) /\ signed.inbox = <<>> /\ ~signed.recovery
  BY <1>1, <1>4 DEF Saved, Waiting, Lined
<1>10. CASE s.mounted /\ s.ctx.room = u /\ s.ctx.hydrated
  <2>1. ~changed
    BY <1>1, <1>10, PersistenceAssumption DEF Safe, Sound, Leased, NoContext
  <2>2. hydrating = [signed EXCEPT !.ctx.joined = @ /\ signed.ctx.hydrated]
    BY <1>4, <1>10 DEF Hydrate, BeginHydration
  <2>3. /\ hydrating.ctx.gen = s.ctx.gen /\ hydrating.ctx.room = s.ctx.room
        /\ hydrating.ctx.hydrated = s.ctx.hydrated
        /\ hydrating.ctx.latest = s.ctx.latest /\ hydrating.ctx.failed = s.ctx.failed
        /\ hydrating.ctx.pend = s.ctx.pend /\ hydrating.ctx.localAt = s.ctx.localAt
        /\ hydrating.gate = s.gate /\ hydrating.user = s.user /\ hydrating.store = s.store
        /\ hydrating.queue = s.queue /\ hydrating.inbox = s.inbox
        /\ hydrating.recovery = s.recovery
    BY <1>3, <1>4, <2>1, <2>2 DEF TabState, Context
  <2>4. s.gate.hydrated
    BY <1>1, <1>10 DEF Frozen
  <2> HIDE DEF hydrating
  <2>5. n = hydrating
    BY <2>1, <2>3, <2>4 DEF Reload
  <2>6. Saved(n, local, idb)
    BY <1>1, <2>3, <2>5 DEF Saved, Waiting, Lined, Reconciling, Preserves, Durable, Own
  <2> QED BY <1>2, <2>6, BecomeSaved
<1>11. CASE ~(s.mounted /\ s.ctx.room = u /\ s.ctx.hydrated)
  <2>1. Parked(hydrating, local, idb)
    <3>1. CASE s.mounted /\ s.ctx.room = u
      <4>1. hydrating = signed /\ u = s.user
        BY <1>1, <1>4, <1>11, <3>1, PersistenceAssumption
           DEF Hydrate, Safe, Sound, Leased, NoContext
      <4>2. Parked(s, local, idb)
        BY <1>1, <1>11, <3>1, SavedParked
      <4> QED BY <1>3, <1>4, <4>1, <4>2, SameParked
    <3>2. CASE s.mounted /\ s.ctx.room # u
      <4>1. hydrating = BeginHydration(signed, local)
        BY <1>4, <3>2 DEF Hydrate
      <4> QED BY <1>1, <1>4, <1>5, <1>6, <1>9, <3>2, <4>1, FreshParked
    <3>3. CASE ~s.mounted
      <4>1. hydrating = signed /\ signed.ctx = NoContext
        BY <1>1, <1>4, <3>3 DEF Safe, Sound, Leased
      <4>2. Waiting(s, idb) /\ Lined(s, local)
        BY <1>1 DEF Saved
      <4> QED BY <1>3, <1>4, <4>1, <4>2, UnleasedParked
    <3> QED BY <3>1, <3>2, <3>3
  <2> HIDE DEF hydrating, changed
  <2>2. Saved(n, local, idb)
    BY <1>1, <1>7, <1>8, <2>1, ReloadSaved
  <2> QED BY <1>2, <2>2, BecomeSaved
<1> QED BY <1>10, <1>11

\* With one tab nobody sends broadcasts, and with no big room nobody reduces one.
LEMMA RemoteSaved ==
    ASSUME IInv, FrozenTabs, SavingInv, NEW t \in Tabs,
           Remote(t) \/ \E big, kept \in BOOLEAN : Reduce(t, big, kept)
    PROVE  FALSE
<1>1. tab[t].inbox = <<>> /\ ~tab[t].recovery
  BY SavingParts DEF Saved, Lined
<1> QED BY <1>1 DEF Remote, Reduce

\* The saver claims what the user sees.
LEMMA ClaimSaveSaved ==
    ASSUME OneTab, IInv, FrozenTabs, SavingInv, NEW t \in Tabs, ClaimSave(t)
    PROVE  SavingInv'
<1> DEFINE s == tab[t]
           m == [s EXCEPT !.ctx.latest = None]
           req == [kind |-> "save", gen |-> m.ctx.gen, room |-> m.ctx.room,
                   ws |-> s.ctx.latest, expect |-> 0]
           n == Issue(m, "save", s.ctx.latest, 0)
<1>1. /\ Safe(s) /\ s \in TabState /\ Frozen(s) /\ Saved(s, local, idb)
      /\ s.ctx.latest # None /\ ~Saving(s) /\ s.queue \in Seq(Request)
  BY SavingParts DEF ClaimSave, TabState
<1>2. s.ctx.hydrated /\ s.ctx.latest = s.store
  BY <1>1 DEF Frozen, Quiet, Saved, Durable
<1>3. s.queue = <<>>
  <2>1. s.queue # <<>> => 1 \in DOMAIN s.queue
    BY <1>1, TailElements
  <2> QED BY <1>1, <1>2, <2>1 DEF Saved, Lined, Own, Saving
<1>4. Become(t, n)
  BY DEF ClaimSave
<1>5. /\ m.ctx.gen = s.ctx.gen /\ m.ctx.room = s.ctx.room /\ m.ctx.hydrated
      /\ m.ctx.latest = None /\ m.ctx.pend = s.ctx.pend /\ m.user = s.user
      /\ m.store = s.store /\ m.queue = s.queue /\ m.inbox = s.inbox /\ m.recovery = s.recovery
  BY <1>1, <1>2 DEF TabState, Context
<1>6. /\ n.queue = Append(s.queue, req) /\ n.ctx = m.ctx
      /\ n.user = s.user /\ n.store = s.store /\ n.inbox = s.inbox /\ n.recovery = s.recovery
  BY <1>1 DEF Issue, TabState
<1>7. /\ req \in Request /\ req.kind = "save" /\ req.ws = s.store /\ req.gen = s.ctx.gen
      /\ Small(s.store)
  <2>1. s.ctx.gen # 0
    BY <1>1, <1>2 DEF Safe, Sound, Leased, NoContext
  <2>2. s.ctx.gen \in 1..MaxGen /\ s.ctx.room \in Rooms
    BY <1>1, <2>1, LeaseIsSession DEF Safe
  <2>3. s.store \in Workspace /\ Small(s.store)
    BY <1>1 DEF TabState, Saved, Durable
  <2> QED BY <1>2, <1>5, <2>2, <2>3 DEF Request, Kinds
<1> HIDE DEF n, m, req
<1>8. /\ n.queue # <<>> /\ n.queue[1] = req /\ \A i \in DOMAIN n.queue : i = 1
  <2>1. Len(s.queue) = 0
    BY <1>3
  <2> QED BY <1>1, <1>3, <1>6, <1>7, <2>1, AppendIndices
<1>9. Saved(n, local, idb)
  BY <1>1, <1>5, <1>6, <1>7, <1>8
     DEF Saved, Waiting, Lined, Reconciling, Preserves, Durable, Own
<1> QED BY <1>4, <1>9, BecomeSaved

\* An edit waits in the saver, whether or not localStorage took it.
LEMMA PublishSaved ==
    ASSUME OneTab, IInv, FrozenTabs, SavingInv, NEW t \in Tabs, NEW ws \in Workspace, ~ws.big,
           tab[t].store.edits \subseteq ws.edits,
           NEW kept \in BOOLEAN, tab[t].gate.hydrated, Publish(t, ws, FALSE, kept)
    PROVE  SavingInv'
<1> DEFINE s == tab[t]
           m == [s EXCEPT !.recovery = FALSE]
           expected == FALSE
           n == Changed(m, ws, expected)
<1>1. /\ Safe(s) /\ s \in TabState /\ Frozen(s) /\ Saved(s, local, idb) /\ s.user \in Rooms
      /\ local \in LocalStorage /\ SmallStorage(local) /\ SmallStorage(idb)
      /\ \A r \in Rooms : local[r] # None => local[r].at <= clock
      /\ clock \in Nat
  BY SavingParts, IInvParts DEF TabState
<1>2. s.ctx.hydrated /\ s.ctx.gen # 0 /\ s.mounted
  BY <1>1 DEF Safe, Sound, Leased, NoContext
<1>3. /\ clock' = clock + 1 /\ idb' = idb
      /\ local' = IF kept THEN [local EXCEPT ![s.user] = [ws |-> ws, at |-> clock + 1]]
                  ELSE local
      /\ tab' = [x \in Tabs |->
                   IF x = t THEN n
                   ELSE [tab[x] EXCEPT !.inbox = Append(@, [room |-> s.user, ws |-> ws])]]
  BY DEF Publish
<1>4. tab' = [tab EXCEPT ![t] = n]
  <2>1. tab' = [x \in Tabs |-> n]
    BY <1>3 DEF OneTab
  <2>2. [tab EXCEPT ![t] = n] = [x \in Tabs |-> n]
    BY IInvParts DEF OneTab
  <2> QED BY <2>1, <2>2
<1>5. /\ m \in TabState /\ m.ctx = s.ctx /\ m.mounted = s.mounted /\ m.user = s.user
      /\ m.queue = s.queue /\ m.inbox = s.inbox /\ ~m.recovery
  BY <1>1 DEF TabState
<1> HIDE DEF m
<1>0. expected \in BOOLEAN
  OBVIOUS
<1> HIDE DEF expected
<1>6. /\ n.ctx.gen = s.ctx.gen /\ n.ctx.room = s.ctx.room /\ n.ctx.hydrated
      /\ n.ctx.latest = ws /\ n.user = s.user /\ n.store = ws
      /\ n.queue = s.queue /\ n.inbox = s.inbox /\ ~n.recovery
  <2>1. m.mounted /\ m.ctx.gen # 0 /\ m.ctx.hydrated /\ ~m.recovery
    BY <1>2, <1>5
  <2>2. /\ n.ctx.gen = m.ctx.gen /\ n.ctx.room = m.ctx.room /\ n.ctx.hydrated = m.ctx.hydrated
        /\ m.mounted /\ m.ctx.gen # 0 /\ m.ctx.hydrated /\ ~m.recovery => n.ctx.latest = ws
        /\ n.user = m.user /\ n.store = ws
        /\ n.queue = m.queue /\ n.inbox = m.inbox /\ n.recovery = m.recovery
    BY <1>5, <1>0, ChangedFields
  <2> HIDE DEF n
  <2> QED BY <1>5, <2>1, <2>2
<1>7. ~n.ctx.pend
  <2>1. ~m.ctx.pend /\ m.ctx.hydrated
    BY <1>1, <1>2, <1>5 DEF Saved, Lined
  <2> QED BY <1>5, <1>0, <2>1, ChangedFields
<1> HIDE DEF n
<1> DEFINE copy == [ws |-> ws, at |-> clock + 1]
<1>8. \A r \in Rooms : local'[r] = local[r] \/ (r = s.user /\ local'[r] = copy)
  <2>1. local' = local \/ local' = [local EXCEPT ![s.user] = copy]
    BY <1>3
  <2> HIDE DEF copy
  <2> QED BY <1>1, <2>1 DEF LocalStorage
<1>9. SmallStorage(local')
  BY <1>1, <1>8 DEF SmallStorage, Small
<1>10. \A r \in Rooms : local'[r] # None => local'[r].at <= clock'
  <2> SUFFICES ASSUME NEW r \in Rooms, local'[r] # None PROVE local'[r].at <= clock'
    OBVIOUS
  <2>1. CASE local'[r] = local[r]
    <3>1. local[r] # None /\ local[r].at <= clock /\ local[r].at \in Nat
      BY <1>1, <2>1, PersistenceAssumption DEF LocalStorage
    <3> QED BY <1>1, <1>3, <2>1, <3>1
  <2>2. CASE local'[r] = copy
    BY <1>1, <1>3, <2>2
  <2> QED BY <1>8, <2>1, <2>2
<1>11. Newer(local', idb', s.user) => local'[s.user].ws.edits \subseteq ws.edits
  <2>1. CASE local'[s.user] = local[s.user]
    BY <1>1, <1>3, <2>1 DEF Newer, Saved, Durable
  <2>2. CASE local'[s.user] = copy
    BY <2>2
  <2> QED BY <1>1, <1>8, <2>1, <2>2
<1>12. ~Preserves(n)
  BY <1>1, <1>2, <1>6, TailElements DEF Preserves, Own, Saved, Lined, TabState
<1>13. Saved(n, local', idb')
  BY <1>1, <1>2, <1>3, <1>6, <1>7, <1>11, <1>12, NoneAssumption
     DEF Saved, Waiting, Lined, Reconciling, Durable, Own, Small
<1> QED BY <1>1, <1>3, <1>4, <1>9, <1>10, <1>13, TaskSaved

LEMMA MutationSaved ==
    ASSUME OneTab, IInv, FrozenTabs, SavingInv, NEW t \in Tabs, NEW kept \in BOOLEAN,
           Edit(t, kept) \/ AgentEdit(t, kept)
    PROVE  SavingInv'
<1> DEFINE s == tab[t]
<1>1. /\ Safe(s) /\ s.user \in Rooms /\ s.store \in Workspace /\ Within(s.store, s.user)
      /\ clock \in 0..MaxEdits
  BY IInvParts DEF Safe, Sound, TabState
<1>2. PICK r \in Rooms : /\ clock < MaxEdits /\ s.gate.hydrated /\ r = s.user
                         /\ Publish(t, With(s.store, r, FALSE), FALSE, kept)
  <2>1. CASE Edit(t, kept)
    BY <1>1, <2>1 DEF Edit, MayMutate
  <2>2. CASE AgentEdit(t, kept)
    <3>1. s.gate.room = s.lease.room /\ s.gate.hydrated
      BY <2>2 DEF AgentEdit, MayMutate, IsCurrent
    <3>2. s.lease.room = s.user
      BY <1>1, <3>1 DEF Safe, Sound, Leased
    <3> QED BY <1>1, <2>2, <3>2 DEF AgentEdit, MayMutate
  <2> QED BY <2>1, <2>2
<1> DEFINE ws == With(s.store, r, FALSE)
<1>3. ws \in Workspace
  BY <1>1, <1>2, WithWithin
<1>4. s.store.edits \subseteq ws.edits /\ ~ws.big
  BY DEF With
<1> HIDE DEF ws
<1>5. Publish(t, ws, FALSE, kept) /\ s.gate.hydrated
  BY <1>2 DEF ws
<1> QED BY <1>3, <1>4, <1>5, PublishSaved

\* A request that no context waits for leaves the queue with nothing but reads.
LEMMA DroppedSaved ==
    ASSUME NEW s \in TabState, NEW served, NEW loc, NEW db, NEW db2, Frozen(s),
           Saved(s, loc, db), ~s.ctx.hydrated, s.queue # <<>>,
           served = [s EXCEPT !.queue = Tail(@)],
           db2[s.user] = db[s.user] \/ ~Newer(loc, db2, s.user)
    PROVE  /\ Saved(served, loc, db2)
           /\ served.queue # <<>> => served.queue[1].kind = "load"
<1>1. /\ served.ctx = s.ctx /\ served.user = s.user /\ served.store = s.store
      /\ served.inbox = s.inbox /\ served.recovery = s.recovery
      /\ served.queue = Tail(s.queue) /\ s.queue \in Seq(Request)
  BY DEF TabState
<1>2. /\ DOMAIN s.queue = 1..Len(s.queue) /\ Len(s.queue) \in Nat
      /\ served.queue \in Seq(Request) /\ Len(served.queue) = Len(s.queue) - 1
      /\ \A i \in DOMAIN served.queue :
            i \in Nat /\ i + 1 \in DOMAIN s.queue /\ served.queue[i] = s.queue[i + 1]
  BY <1>1, TailIndices
<1>3. \A i \in DOMAIN served.queue : i \in 1..(Len(s.queue) - 1)
  BY <1>1, TailIndices
<1>4. \A i \in DOMAIN served.queue : i + 1 # 1
  BY <1>2, <1>3
<1>5. \A i \in DOMAIN served.queue :
         Small(served.queue[i].ws) /\ served.queue[i].kind = "load"
  BY <1>2, <1>4 DEF Saved, Waiting
<1>6. served.queue # <<>> => served.queue[1].kind = "load"
  BY <1>2, <1>5, TailElements
<1>7. Waiting(served, db2)
  BY <1>5, <1>6 DEF Waiting
<1>8. Lined(served, loc)
  <2>1. ASSUME NEW i \in DOMAIN served.queue, Own(served, served.queue[i])
        PROVE  i = Len(served.queue) /\ served.queue[i].kind # "save"
    <3>1. Own(s, s.queue[i + 1])
      BY <1>1, <1>2, <2>1 DEF Own
    <3>2. i + 1 = Len(s.queue)
      BY <1>2, <3>1 DEF Saved, Lined
    <3> QED BY <1>2, <1>5, <3>2
  <2> QED BY <1>1, <2>1 DEF Saved, Lined
<1>9. ~Preserves(served)
  BY <1>6 DEF Preserves
<1>10. s.ctx.latest = None
  BY DEF Frozen, Quiet
<1>11. Newer(loc, db2, s.user) => Newer(loc, db, s.user)
  BY DEF Newer
<1>12. Saved(served, loc, db2)
  BY <1>1, <1>7, <1>8, <1>9, <1>10, <1>11 DEF Saved, Reconciling, Durable
<1> QED BY <1>6, <1>12

\* What the step of one request does to the record of its room.
LEMMA ServeRecord ==
    ASSUME IInv, FrozenTabs, SavingInv, NEW t \in Tabs, NEW works \in BOOLEAN,
           NEW flushed \in BOOLEAN, Serve(t, works, flushed)
    PROVE  LET s == tab[t]
               req == s.queue[1]
               write == req.kind \notin {"load", "probe"}
               ok == works /\ (write => Fits(req, idb[req.room]))
           IN  /\ s.queue # <<>> /\ 1 \in DOMAIN s.queue /\ Head(s.queue) = req /\ req \in Request
               /\ Sourced(s, req) /\ Small(req.ws)
               /\ idb' \in Database /\ Kept(idb') /\ SmallStorage(idb')
               /\ \A r \in Rooms : r # req.room => idb'[r] = idb[r]
               /\ ~(ok /\ write) => idb'[req.room] = idb[req.room]
               /\ ok /\ write => /\ idb'[req.room] # None /\ idb'[req.room].ws = req.ws
                                 /\ ~Newer(local, idb', req.room)
<1> DEFINE s == tab[t]
           req == s.queue[1]
           record == idb[req.room]
           write == req.kind \notin {"load", "probe"}
           ok == works /\ (write => Fits(req, record))
           after == IF ok /\ write THEN Put(req, record) ELSE record
<1>1. /\ s \in TabState /\ Safe(s) /\ Saved(s, local, idb)
      /\ s.queue # <<>> /\ s.queue \in Seq(Request)
      /\ idb \in Database /\ Kept(idb) /\ SmallStorage(idb) /\ local \in LocalStorage
      /\ \A r \in Rooms : local[r] # None => local[r].at <= clock
      /\ clock \in 0..MaxEdits
  BY SavingParts, IInvParts DEF Serve, TabState
<1>2. /\ 1 \in DOMAIN s.queue /\ Head(s.queue) = req /\ req \in Request
  BY <1>1, TailElements
<1>3. Sourced(s, req) /\ Small(req.ws) /\ req.room \in Rooms /\ req.ws \in Workspace
  BY <1>1, <1>2 DEF Safe, Sound, Carried, Saved, Waiting, Request
<1>4. idb' = [idb EXCEPT ![req.room] = after]
  BY <1>2 DEF Serve
<1>5. record \in Record \cup {None}
  BY <1>1, <1>3 DEF Database
<1> DEFINE put == Put(req, record)
<1>6. put \in Record /\ put.ws = req.ws /\ put.at = clock /\ put # None
  <2>1. put \in Record /\ put.ws = req.ws /\ put.at = clock
    BY <1>1, <1>3, <1>5 DEF Put, Rev, Record
  <2> HIDE DEF put
  <2> QED BY <2>1, NoneAssumption DEF Record
<1> HIDE DEF put
<1>7. (ok /\ write => after = put) /\ (~(ok /\ write) => after = record)
  BY DEF put
<1> HIDE DEF after, ok, write, record
<1>8. after \in Record \cup {None}
  BY <1>5, <1>6, <1>7
<1>9. idb' \in Database /\ idb'[req.room] = after /\ \A r \in Rooms : r # req.room => idb'[r] = idb[r]
  BY <1>1, <1>3, <1>4, <1>8 DEF Database
<1>10. Kept(idb') /\ SmallStorage(idb')
  <2>1. after # None => Within(after.ws, req.room) /\ Small(after.ws)
    BY <1>1, <1>3, <1>6, <1>7 DEF Kept, SmallStorage, Sourced, record
  <2> QED BY <1>1, <1>9, <2>1 DEF Kept, SmallStorage
<1>11. ok /\ write => ~Newer(local, idb', req.room)
  <2> SUFFICES ASSUME ok, write, local[req.room] # None, clock < local[req.room].at PROVE FALSE
    BY <1>6, <1>7, <1>9 DEF Newer
  <2>1. local[req.room].at \in Nat /\ clock \in Nat /\ local[req.room].at <= clock
    BY <1>1, <1>3, PersistenceAssumption DEF LocalStorage
  <2> QED BY <2>1
<1> QED BY <1>1, <1>2, <1>3, <1>6, <1>7, <1>9, <1>10, <1>11 DEF ok, write, record

\* Nothing is queued behind the first request if the context waits for it.
LEMMA OwnIsLast ==
    ASSUME NEW s \in TabState, NEW loc, NEW db, Saved(s, loc, db), s.queue # <<>>,
           Own(s, s.queue[1])
    PROVE  Tail(s.queue) = <<>>
<1>1. /\ Len(s.queue) \in Nat /\ DOMAIN s.queue = 1..Len(s.queue) /\ Len(s.queue) >= 1
      /\ Len(Tail(s.queue)) = Len(s.queue) - 1 /\ Tail(s.queue) \in Seq(Request)
      /\ 1 \in DOMAIN s.queue
  BY TailIndices DEF TabState
<1>2. Len(s.queue) \in DOMAIN s.queue
  BY <1>1
<1>3. Len(s.queue) = 1
  <2>1. CASE s.ctx.hydrated
    BY <1>2, <2>1 DEF Saved, Lined
  <2>2. CASE ~s.ctx.hydrated
    BY <1>1, <2>2 DEF Saved, Lined
  <2> QED BY <2>1, <2>2
<1> DEFINE q == Tail(s.queue)
<1>4. q \in Seq(Request) /\ Len(q) = 0
  BY <1>1, <1>3
<1> HIDE DEF q
<1>5. q = <<>>
  BY <1>4, EmptySeq
<1> QED BY <1>5 DEF q

LEMMA ServeSaved ==
    ASSUME OneTab, IInv, FrozenTabs, SavingInv, NEW t \in Tabs, NEW works \in BOOLEAN,
           NEW flushed \in BOOLEAN, Serve(t, works, flushed)
    PROVE  SavingInv'
<1> DEFINE s == tab[t]
           req == s.queue[1]
           write == req.kind \notin {"load", "probe"}
           ok == works /\ (write => Fits(req, idb[req.room]))
           served == [s EXCEPT !.queue = Tail(s.queue)]
           n == IF req.kind = "save"
                THEN IF s.ctx.gen = req.gen THEN SaveReturned(served, ok, flushed) ELSE served
                ELSE IF Resumes(s, req) THEN Continue(served, req, ok, idb'[req.room]) ELSE served
<1>1. /\ s \in TabState /\ Safe(s) /\ Frozen(s) /\ Saved(s, local, idb)
      /\ local \in LocalStorage /\ Kept(local) /\ SmallStorage(local)
      /\ \A r \in Rooms : local[r] # None => local[r].at <= clock
      /\ s.queue \in Seq(Request)
  BY SavingParts DEF TabState
<1>2. /\ s.queue # <<>> /\ 1 \in DOMAIN s.queue /\ Head(s.queue) = req /\ req \in Request
      /\ Sourced(s, req) /\ Small(req.ws)
      /\ idb' \in Database /\ Kept(idb') /\ SmallStorage(idb')
      /\ \A r \in Rooms : r # req.room => idb'[r] = idb[r]
      /\ ~(ok /\ write) => idb'[req.room] = idb[req.room]
      /\ ok /\ write => /\ idb'[req.room] # None /\ idb'[req.room].ws = req.ws
                        /\ ~Newer(local, idb', req.room)
  BY ServeRecord
<1>3. local' = local /\ clock' = clock
  BY DEF Serve
<1>4. req.room \in Rooms /\ req.kind \in Kinds /\ s.user \in Rooms /\ req.gen # 0
  BY <1>1, <1>2, PersistenceAssumption DEF Request, TabState
<1>5. tab' = [tab EXCEPT ![t] = n]
  <2> DEFINE record == idb[req.room]
             after == IF ok /\ write THEN Put(req, record) ELSE record
             n0 == IF req.kind = "save"
                   THEN IF s.ctx.gen = req.gen THEN SaveReturned(served, ok, flushed) ELSE served
                   ELSE IF Resumes(s, req) THEN Continue(served, req, ok, after) ELSE served
  <2>1. tab' = [tab EXCEPT ![t] = n0] /\ idb' = [idb EXCEPT ![req.room] = after]
    BY <1>1, <1>2 DEF Serve, TabState
  <2>2. idb'[req.room] = after
    BY <1>4, <2>1, SavingParts DEF Database
  <2> QED BY <2>1, <2>2
<1>6. /\ served \in TabState /\ served.ctx = s.ctx /\ served.gate = s.gate /\ served.gen = s.gen
      /\ served.user = s.user /\ served.mounted = s.mounted
      /\ served.starting = s.starting /\ served.store = s.store /\ served.recovery = s.recovery
      /\ served.queue = Tail(s.queue) /\ served.inbox = s.inbox
  BY <1>1, <1>2, TailElements DEF TabState
<1>7. ok \in BOOLEAN
  BY DEF Fits
<1> HIDE DEF served, ok, req
<1>8. \A r \in Rooms : idb'[r] = idb[r] \/ ~Newer(local, idb', r)
  BY <1>2
<1>9. Newer(local, idb', s.user) => Newer(local, idb, s.user)
  BY <1>4, <1>8 DEF Newer
<1>10. Own(s, req) => req.room = s.ctx.room /\ s.ctx.gen # 0
  BY <1>2, <1>4 DEF Own, Sourced
<1>11. Own(s, req) => Tail(s.queue) = <<>>
  BY <1>1, <1>2, OwnIsLast DEF req
<1>12. CASE s.ctx.hydrated
  <2>1. req.kind = "save" /\ Own(s, req) /\ (ok => write)
    BY <1>1, <1>2, <1>12 DEF Saved, Lined, req
  <2>2. n = SaveReturned(served, ok, flushed)
    BY <2>1 DEF Own
  <2> DEFINE c == [served.ctx EXCEPT !.failed = ~ok \/ (@ /\ ~flushed)]
  <2>3. n = [served EXCEPT !.ctx = c]
    BY <1>6, <2>2 DEF SaveReturned, TabState
  <2>4. /\ c.gen = s.ctx.gen /\ c.room = s.ctx.room /\ c.hydrated = s.ctx.hydrated
        /\ c.latest = s.ctx.latest /\ c.pend = s.ctx.pend
        /\ ~ok => c.failed
    BY <1>6 DEF TabState, Context
  <2> HIDE DEF c, n
  <2>5. /\ n.ctx = c /\ n.user = s.user /\ n.store = s.store /\ n.recovery = s.recovery
        /\ n.queue = Tail(s.queue) /\ n.inbox = s.inbox
    <3>1. /\ n.ctx = c /\ n.user = served.user /\ n.store = served.store
          /\ n.recovery = served.recovery
          /\ n.queue = served.queue /\ n.inbox = served.inbox
      <4>1. served \in TabState
        BY <1>6
      <4> QED BY <2>3, <4>1 DEF TabState
    <3> QED BY <1>6, <3>1
  <2>6. n.queue = <<>>
    BY <1>11, <2>1, <2>5
  <2>7. s.ctx.latest = None => req.ws = s.store
    BY <1>1, <1>2, <1>12 DEF Saved, Durable, req
  <2>8. Saved(n, local, idb')
    <3>1. Waiting(n, idb') /\ ~Preserves(n)
      BY <2>6 DEF Waiting, Preserves
    <3>2. Lined(n, local)
      <4>1. s.inbox = <<>> /\ ~s.ctx.pend /\ ~s.recovery
        BY <1>1 DEF Saved, Lined
      <4>2. n.inbox = <<>> /\ ~n.ctx.pend /\ ~n.recovery /\ n.ctx.hydrated
        BY <1>12, <2>4, <2>5, <4>1
      <4>3. DOMAIN n.queue = {}
        BY <2>6
      <4> QED BY <4>2, <4>3 DEF Lined
    <3>3. s.ctx.latest = None =>
             \/ n.ctx.failed
             \/ idb'[n.ctx.room] # None /\ n.store.edits \subseteq idb'[n.ctx.room].ws.edits
      <4> SUFFICES ASSUME s.ctx.latest = None
                   PROVE  \/ n.ctx.failed
                          \/ /\ idb'[n.ctx.room] # None
                             /\ n.store.edits \subseteq idb'[n.ctx.room].ws.edits
        OBVIOUS
      <4>1. n.ctx.room = req.room /\ n.store = req.ws /\ n.ctx = c
        BY <1>10, <2>1, <2>4, <2>5, <2>7
      <4>2. CASE ok
        <5>1. idb'[req.room] # None /\ idb'[req.room].ws = req.ws
          BY <1>2, <2>1, <4>2
        <5> QED BY <4>1, <5>1
      <4>3. CASE ~ok
        BY <2>4, <4>1, <4>3
      <4> QED BY <4>2, <4>3
    <3>4. Durable(n, local, idb')
      BY <1>1, <1>9, <2>4, <2>5, <2>6, <3>1, <3>3 DEF Saved, Durable
    <3> QED BY <3>1, <3>2, <3>4 DEF Saved, Reconciling
  <2> QED BY <1>1, <1>2, <1>3, <1>5, <2>8, TaskSaved
<1>13. CASE ~s.ctx.hydrated /\ req.kind # "save" /\ Resumes(s, req)
  <2>1. Own(s, req) /\ s.ctx.gen # 0 /\ req.room = s.ctx.room /\ s.ctx.room = s.user
    BY <1>1, <1>10, <1>13, LeaseIsSession DEF Resumes, Own, Safe
  <2>2. n = Continue(served, req, ok, idb'[served.ctx.room])
    BY <1>6, <1>13, <2>1
  <2>3. Sound(served)
    BY <1>1, <1>6, <1>11, <2>1 DEF Safe, Sound, Leased, Carried, Sourced
  <2>4. s.ctx.latest = None
    BY <1>1, <1>13 DEF Frozen, Quiet
  <2>5. Alone(served, local) /\ Shown(served, local, idb')
    BY <1>1, <1>6, <1>9, <1>11, <1>13, <2>1, <2>3, <2>4
       DEF Alone, Shown, Safe, Saved, Lined, Durable
  <2>6. req.kind = "probe" \/ (req.kind = "migrate" /\ ~ok) => idb'[served.ctx.room] = None
    BY <1>1, <1>2, <1>6, <2>1 DEF Saved, Waiting, req
  <2>7. req.kind \in {"migrate", "preserve"} /\ ok =>
           /\ idb'[served.ctx.room] # None /\ idb'[served.ctx.room].ws = req.ws
           /\ ~Newer(local, idb', served.user)
    BY <1>2, <1>6, <2>1
  <2>8. req.kind = "preserve" => served.store.edits \subseteq req.ws.edits
    BY <1>1, <1>2, <1>6, <2>1 DEF Saved, Durable, Preserves, req
  <2>9. Within(req.ws, served.ctx.room)
    BY <1>2, <1>6, <2>1 DEF Sourced
  <2> HIDE DEF n
  <2>10. Saved(n, local, idb')
    BY <1>1, <1>2, <1>7, <1>13, <2>2, <2>5, <2>6, <2>7, <2>8, <2>9, ContinueSaved
  <2> QED BY <1>1, <1>2, <1>3, <1>5, <2>10, TaskSaved
<1>14. CASE ~s.ctx.hydrated /\ ~(req.kind # "save" /\ Resumes(s, req))
  <2>1. req.kind = "save" => ~Own(s, req)
    BY <1>1, <1>2, <1>14 DEF Saved, Lined, req
  <2>2. n = served
    BY <1>14, <2>1 DEF Own
  <2> HIDE DEF n
  <2>3. Saved(served, local, idb')
    <3>1. served = [s EXCEPT !.queue = Tail(s.queue)]
      BY DEF served
    <3> QED BY <1>1, <1>2, <1>4, <1>8, <1>14, <3>1, DroppedSaved
  <2> QED BY <1>1, <1>2, <1>3, <1>5, <2>2, <2>3, TaskSaved
<1> QED BY <1>12, <1>13, <1>14

LEMMA InitSaves == NoBigRoom /\ Init => SavingInv
<1> SUFFICES ASSUME NoBigRoom, Init PROVE SavingInv
  OBVIOUS
<1>1. IInv
  BY InitEstablishes
<1>2. \A r \in Rooms : \A w \in Seeds(r) : Small(w)
  BY DEF NoBigRoom, Seeds, Small
<1>3. SmallStorage(local) /\ \A r \in Rooms : local[r] # None => local[r].at <= clock
  BY <1>2 DEF Init, LocalSeeds, SmallStorage
<1>4. SmallStorage(idb)
  BY <1>2 DEF Init, IdbSeeds, SmallStorage
<1>5. \A t \in Tabs : tab[t] = Boot(local)
  BY DEF Init
<1> QED BY <1>1, <1>3, <1>4, <1>5, IInvParts, BootSaved DEF SavingInv

LEMMA NextSaves == OneTab /\ IInv /\ FrozenTabs /\ SavingInv /\ [Next]_vars => SavingInv'
<1> SUFFICES ASSUME OneTab, IInv, FrozenTabs, SavingInv, [Next]_vars PROVE SavingInv'
  OBVIOUS
<1>1. CASE UNCHANGED vars
  BY <1>1 DEF vars, SavingInv, SmallStorage, Small, Saved, Waiting, Lined, Reconciling,
     Preserves, Durable, Newer, Own, StoredAt
<1>2. CASE Next
  <2> PICK t \in Tabs :
         \/ Start(t) \/ Stop(t) \/ AuthReady(t) \/ Restart(t)
         \/ \E u \in Rooms : SessionChange(t, u)
         \/ Capture(t) \/ Remote(t) \/ ClaimSave(t)
         \/ \E kept \in BOOLEAN :
               \/ Edit(t, kept) \/ AgentEdit(t, kept)
               \/ \E big \in BOOLEAN : Reduce(t, big, kept)
         \/ \E works, flushed \in BOOLEAN : Serve(t, works, flushed)
    BY <1>2 DEF Next
  <2>1. CASE Start(t) \/ Capture(t)
    BY <2>1, StartSaved
  <2>2. CASE Stop(t)
    BY <2>2, StopSaved
  <2>3. CASE AuthReady(t)
    BY <2>3, AuthReadySaved
  <2>4. CASE Restart(t)
    BY <2>4, RestartSaved
  <2>5. CASE \E u \in Rooms : SessionChange(t, u)
    BY <2>5, SessionChangeSaved
  <2>6. CASE Remote(t) \/ \E big, kept \in BOOLEAN : Reduce(t, big, kept)
    BY <2>6, RemoteSaved
  <2>7. CASE ClaimSave(t)
    BY <2>7, ClaimSaveSaved
  <2>8. CASE \E kept \in BOOLEAN : Edit(t, kept) \/ AgentEdit(t, kept)
    BY <2>8, MutationSaved
  <2>9. CASE \E works, flushed \in BOOLEAN : Serve(t, works, flushed)
    BY <2>9, ServeSaved
  <2> QED BY <2>1, <2>2, <2>3, <2>4, <2>5, <2>6, <2>7, <2>8, <2>9
<1> QED BY <1>1, <1>2

\* The invariants of every step, for one tab and rooms that fit.
LEMMA SavingInvariance ==
    ASSUME OneTab, NoBigRoom
    PROVE  Spec => [](IInv /\ FrozenTabs /\ SavingInv)
<1>1. Init => FrozenTabs
  BY BootFrozen DEF Init, FrozenTabs
<1>2. Init => SavingInv
  BY InitSaves
<1>3. OneTab /\ IInv /\ FrozenTabs /\ SavingInv /\ [Next]_vars => SavingInv'
  BY NextSaves
<1> QED BY InitEstablishes, NextPreserves, NextFrozen, <1>1, <1>2, <1>3, PTL DEF Spec

\* With one tab and rooms within the capacity limit, the status "saved" always
\* means that the record in IndexedDB reflects every edit the user sees, whichever
\* reads and writes fail and whichever session events overtake them.
THEOREM SavedDurable ==
    ASSUME OneTab, NoBigRoom
    PROVE  Spec => []SavedIsDurable
<1>1. ASSUME IInv, FrozenTabs, SavingInv, NEW t \in Tabs, StatusSaved(tab[t])
      PROVE  /\ idb[tab[t].ctx.room] # None
             /\ tab[t].store.edits \subseteq idb[tab[t].ctx.room].ws.edits
  <2> DEFINE s == tab[t]
  <2>1. s \in TabState /\ Saved(s, local, idb)
    BY <1>1, SavingParts
  <2>2. s.queue = <<>>
    <3>1. s.queue # <<>> => 1 \in DOMAIN s.queue
      BY <2>1, TailElements DEF TabState
    <3> QED BY <1>1, <2>1, <3>1 DEF StatusSaved, Saving, Saved, Lined, Own
  <2> QED BY <1>1, <2>1, <2>2 DEF StatusSaved, Saved, Durable
<1>2. IInv /\ FrozenTabs /\ SavingInv => SavedIsDurable
  BY <1>1 DEF SavedIsDurable
<1> QED BY SavingInvariance, <1>2, PTL

-----------------------------------------------------------------------------
(* No save loses what the record holds.  A write is built on the record it  *)
(* replaces: on what the user sees, which was read from the record or is    *)
(* newer and holds it.                                                      *)

\* The first read answers and setItem stores: the third hypothesis.
Reliable == {"load", "local"} \cap Failing = {}

\* A copy in localStorage that is newer than the record holds all of it.
Grown(loc, db) == \A r \in Rooms : Newer(loc, db, r) => db[r].ws.edits \subseteq loc[r].ws.edits

\* What the first request is about to write holds the record it replaces.
BuiltOn(s, db) ==
    s.queue # <<>> /\ s.queue[1].kind \in {"save", "preserve"} /\ db[s.queue[1].room] # None =>
        db[s.queue[1].room].ws.edits \subseteq s.queue[1].ws.edits

\* The save that reconciles writes nothing that localStorage lacks.
HeldLocally(s, loc) == Preserves(s) => s.queue[1].ws.edits \subseteq loc[s.user].ws.edits

\* The user sees all of the record, and what is being saved.
Sees(s, db) ==
    s.ctx.hydrated =>
        /\ db[s.ctx.room] # None => db[s.ctx.room].ws.edits \subseteq s.store.edits
        /\ s.queue # <<>> => s.queue[1].ws.edits \subseteq s.store.edits

Growing(s, loc, db) ==
    /\ BuiltOn(s, db) /\ HeldLocally(s, loc) /\ Sees(s, db)
    /\ Newer(loc, db, s.user) => s.store.edits \subseteq loc[s.user].ws.edits

GrowingInv == Grown(local, idb) /\ \A t \in Tabs : Growing(tab[t], local, idb)

\* A tab that issues at most a read, and swaps its store at most for what
\* localStorage holds while it is not hydrated.
LEMMA CarriedGrowing ==
    ASSUME NEW s, NEW n, NEW loc, NEW db, Growing(s, loc, db),
           n.queue # <<>> /\ n.queue[1].kind # "load" => s.queue # <<>> /\ n.queue[1] = s.queue[1],
           Preserves(n) => n.user = s.user /\ Own(s, n.queue[1]),
           n.ctx.hydrated => /\ s.ctx.hydrated /\ n.ctx.room = s.ctx.room /\ n.store = s.store
                             /\ n.queue # <<>> => s.queue # <<>> /\ n.queue[1] = s.queue[1],
           (n.user = s.user /\ n.store = s.store) \/ n.store = Stored(loc, n.user)
    PROVE  Growing(n, loc, db)
<1>1. BuiltOn(n, db)
  BY DEF Growing, BuiltOn
<1>2. HeldLocally(n, loc)
  <2>1. Preserves(n) => Preserves(s) /\ n.queue[1] = s.queue[1]
    BY DEF Preserves
  <2> QED BY <2>1 DEF Growing, HeldLocally
<1>3. Sees(n, db)
  BY DEF Growing, Sees
<1>4. Newer(loc, db, n.user) => n.store.edits \subseteq loc[n.user].ws.edits
  BY DEF Growing, Newer, Stored
<1> QED BY <1>1, <1>2, <1>3, <1>4 DEF Growing

LEMMA SameGrowing ==
    ASSUME NEW s, NEW n, NEW loc, NEW db, Growing(s, loc, db),
           n.queue = s.queue, n.user = s.user, n.store = s.store,
           n.ctx.gen = s.ctx.gen, n.ctx.room = s.ctx.room, n.ctx.hydrated = s.ctx.hydrated
    PROVE  Growing(n, loc, db)
  BY DEF Growing, BuiltOn, HeldLocally, Preserves, Own, Sees

\* With one tab, a task that leaves its tab growing keeps the invariant.
LEMMA TaskGrowing ==
    ASSUME OneTab, IInv, NEW t \in Tabs, NEW n, tab' = [tab EXCEPT ![t] = n],
           Growing(n, local', idb'), Grown(local', idb')
    PROVE  GrowingInv'
<1>1. \A x \in Tabs : x = t /\ tab'[x] = n
  BY IInvParts DEF OneTab
<1>2. \A x \in Tabs : Growing(tab'[x], local', idb')
  BY <1>1
<1>3. \A x \in Tabs : Growing(tab[x], local, idb)'
  BY <1>2 DEF Growing, BuiltOn, HeldLocally, Preserves, Own, Sees, Newer
<1> QED BY <1>3 DEF GrowingInv, Grown, Newer

LEMMA BecomeGrowing ==
    ASSUME OneTab, IInv, GrowingInv, NEW t \in Tabs, NEW n, Become(t, n), Growing(n, local, idb)
    PROVE  GrowingInv'
  BY TaskGrowing DEF Become, GrowingInv

LEMMA StartGrowing ==
    ASSUME OneTab, IInv, GrowingInv, NEW t \in Tabs, Start(t) \/ Capture(t)
    PROVE  GrowingInv'
<1> DEFINE s == tab[t]
<1>1. s \in TabState /\ Growing(s, local, idb)
  BY IInvParts DEF GrowingInv
<1>2. CASE Start(t)
  <2> DEFINE n == [s EXCEPT !.mounted = TRUE, !.starting = TRUE, !.gen = @ + 1,
                            !.gate = [NoGate EXCEPT !.gen = s.gen + 1]]
  <2>1. Become(t, n)
    BY <1>2 DEF Start
  <2>2. n.ctx = s.ctx /\ n.queue = s.queue /\ n.user = s.user /\ n.store = s.store
    BY <1>1 DEF TabState
  <2> HIDE DEF n
  <2> QED BY <1>1, <2>1, <2>2, SameGrowing, BecomeGrowing
<1>3. CASE Capture(t)
  <2> DEFINE n == [s EXCEPT !.lease = [gen |-> s.gate.gen, room |-> s.gate.room]]
  <2>1. Become(t, n)
    BY <1>3 DEF Capture
  <2>2. n.ctx = s.ctx /\ n.queue = s.queue /\ n.user = s.user /\ n.store = s.store
    BY <1>1 DEF TabState
  <2> HIDE DEF n
  <2> QED BY <1>1, <2>1, <2>2, SameGrowing, BecomeGrowing
<1> QED BY <1>2, <1>3

LEMMA StopGrowing ==
    ASSUME OneTab, IInv, FrozenTabs, SavingInv, GrowingInv, NEW t \in Tabs, Stop(t)
    PROVE  GrowingInv'
<1> DEFINE s == tab[t]
           n == [s EXCEPT !.mounted = FALSE, !.starting = FALSE,
                          !.gate = NoGate, !.ctx = NoContext]
<1>1. s \in TabState /\ Saved(s, local, idb) /\ Growing(s, local, idb)
  BY SavingParts DEF GrowingInv
<1>2. Become(t, n)
  BY DEF Stop
<1>3. /\ n \in TabState /\ n.ctx = NoContext /\ n.user = s.user /\ n.store = s.store
      /\ n.queue = s.queue /\ n.inbox = s.inbox /\ n.recovery = s.recovery
  BY <1>1, Constants DEF TabState
<1> HIDE DEF n
<1>4. ~Preserves(n) /\ ~n.ctx.hydrated
  <2>1. Waiting(s, idb) /\ Lined(s, local)
    BY <1>1 DEF Saved
  <2>2. ~Preserves(n)
    BY <1>3, <2>1, UnleasedParked
  <2> QED BY <1>3, <2>2 DEF NoContext
<1>5. Growing(n, local, idb)
  BY <1>1, <1>3, <1>4, CarriedGrowing
<1> QED BY <1>2, <1>5, BecomeGrowing

LEMMA BootGrowing ==
    ASSUME NEW loc \in LocalStorage, NEW db
    PROVE  Growing(Boot(loc), loc, db)
<1> DEFINE n == Boot(loc)
<1>1. /\ n.ctx = NoContext /\ n.user = Anon /\ n.store = Stored(loc, Anon) /\ n.queue = <<>>
  BY DEF Boot
<1> HIDE DEF n
<1>2. Newer(loc, db, n.user) => n.store.edits \subseteq loc[n.user].ws.edits
  BY <1>1 DEF Newer, Stored
<1>3. Growing(n, loc, db)
  BY <1>1, <1>2 DEF Growing, BuiltOn, HeldLocally, Preserves, Sees, NoContext
<1> QED BY <1>3 DEF n

LEMMA RestartGrowing ==
    ASSUME OneTab, IInv, GrowingInv, NEW t \in Tabs, Restart(t)
    PROVE  GrowingInv'
<1>1. tab' = [tab EXCEPT ![t] = Boot(local)] /\ local' = local /\ idb' = idb
  BY DEF Restart
<1>2. Growing(Boot(local), local, idb)
  BY IInvParts, BootGrowing
<1> QED BY <1>1, <1>2, TaskGrowing DEF GrowingInv

\* What a hydration that starts does to a tab whose store may still be another's.
LEMMA FreshGrowing ==
    ASSUME NEW s, Unsettled(s), s.mounted, HasLease(s, s.user), s.ctx.room # s.user,
           NEW loc \in LocalStorage, Kept(loc), NEW db,
           Waiting(s, db), s.inbox = <<>>, ~s.recovery
    PROVE  LET n == BeginHydration(s, loc) IN
           /\ Sound(n) /\ n.user = s.user /\ n.store = s.store
           /\ ~Preserves(n) /\ ~n.ctx.hydrated
           /\ n.queue[1].kind # "load" => s.queue # <<>> /\ n.queue[1] = s.queue[1]
  BY FreshParked, BeginHydrationSound

LEMMA AuthReadyGrowing ==
    ASSUME OneTab, IInv, FrozenTabs, SavingInv, GrowingInv, NEW t \in Tabs, AuthReady(t)
    PROVE  GrowingInv'
<1> DEFINE s == tab[t]
           m == [s EXCEPT !.starting = FALSE]
           n == Hydrate(m, local)
<1>1. Safe(s) /\ s \in TabState /\ Saved(s, local, idb) /\ Growing(s, local, idb)
  BY SavingParts DEF GrowingInv
<1>2. /\ Become(t, n) /\ HasLease(s, s.user) /\ s.starting
      /\ local \in LocalStorage /\ Kept(local)
  BY SavingParts DEF AuthReady
<1>3. m \in TabState
  BY <1>1 DEF TabState
<1>4. /\ m.ctx = s.ctx /\ m.gate = s.gate /\ m.gen = s.gen /\ ~m.starting
      /\ m.user = s.user /\ m.mounted = s.mounted /\ m.store = s.store
      /\ m.queue = s.queue /\ m.inbox = s.inbox /\ m.recovery = s.recovery
  BY <1>1 DEF TabState
<1>5. Unsettled(m)
  BY <1>1, <1>3, <1>4 DEF Safe, Sound, Leased, Unsettled, Carried, Sourced
<1>6. m.mounted /\ HasLease(m, m.user)
  BY <1>1, <1>2, <1>4 DEF Safe, Sound, Leased, HasLease
<1> HIDE DEF m
<1>7. Growing(m, local, idb)
  BY <1>1, <1>4, SameGrowing
<1>8. CASE m.ctx.room = m.user /\ ~m.ctx.hydrated
  BY <1>2, <1>7, <1>8, BecomeGrowing DEF Hydrate
<1>9. CASE m.ctx.room = m.user /\ m.ctx.hydrated
  <2>1. n = [m EXCEPT !.ctx.joined = @ /\ m.ctx.hydrated]
    BY <1>9 DEF Hydrate, BeginHydration
  <2>2. /\ n.ctx.gen = m.ctx.gen /\ n.ctx.room = m.ctx.room /\ n.ctx.hydrated = m.ctx.hydrated
        /\ n.user = m.user /\ n.store = m.store /\ n.queue = m.queue
    BY <1>3, <2>1 DEF TabState, Context
  <2> HIDE DEF n
  <2> QED BY <1>2, <1>7, <2>2, SameGrowing, BecomeGrowing
<1>10. CASE m.ctx.room # m.user
  <2>1. n = BeginHydration(m, local)
    BY <1>10 DEF Hydrate
  <2>2. Waiting(m, idb) /\ m.inbox = <<>> /\ ~m.recovery
    BY <1>1, <1>4 DEF Saved, Lined, Waiting
  <2>3. /\ ~Preserves(n) /\ ~n.ctx.hydrated /\ n.user = m.user /\ n.store = m.store
        /\ n.queue[1].kind # "load" => m.queue # <<>> /\ n.queue[1] = m.queue[1]
    BY <1>2, <1>5, <1>6, <1>10, <2>1, <2>2, FreshGrowing
  <2> HIDE DEF n
  <2>4. Growing(n, local, idb)
    BY <1>7, <2>3, CarriedGrowing
  <2> QED BY <1>2, <2>4, BecomeGrowing
<1> QED BY <1>8, <1>9, <1>10

\* A session event shows what the room's localStorage holds, or leaves the store alone.
LEMMA SessionChangeGrowing ==
    ASSUME OneTab, IInv, FrozenTabs, SavingInv, GrowingInv, NEW t \in Tabs, NEW u \in Rooms,
           SessionChange(t, u)
    PROVE  GrowingInv'
<1> DEFINE s == tab[t]
           signed == [s EXCEPT !.user = u, !.authed = TRUE]
           hydrating == IF s.mounted THEN Hydrate(signed, local) ELSE signed
           changed == u # s.user
           n == Reload(hydrating, local, changed)
<1>1. /\ Safe(s) /\ s \in TabState /\ Frozen(s) /\ Saved(s, local, idb)
      /\ Growing(s, local, idb)
      /\ local \in LocalStorage /\ Kept(local) /\ SmallStorage(local)
  BY SavingParts DEF GrowingInv
<1>2. Become(t, n) /\ (s.mounted => HasLease(s, u))
  BY DEF SessionChange
<1>3. signed \in TabState
  BY <1>1 DEF TabState
<1>4. /\ signed.ctx = s.ctx /\ signed.gate = s.gate /\ signed.gen = s.gen
      /\ signed.starting = s.starting /\ signed.recovery = s.recovery
      /\ signed.user = u /\ signed.mounted = s.mounted /\ signed.store = s.store
      /\ signed.queue = s.queue /\ signed.inbox = s.inbox
  BY <1>1 DEF TabState
<1>5. Unsettled(signed)
  BY <1>1, <1>3, <1>4 DEF Safe, Sound, Leased, Unsettled, Carried, Sourced
<1>6. s.mounted => signed.mounted /\ HasLease(signed, signed.user)
  BY <1>2, <1>4 DEF HasLease
<1> HIDE DEF signed
<1>7. Waiting(signed, idb) /\ signed.inbox = <<>> /\ ~signed.recovery
  BY <1>1, <1>4 DEF Saved, Waiting, Lined
<1>8. CASE s.mounted /\ s.ctx.room = u /\ s.ctx.hydrated
  <2>1. ~changed
    BY <1>1, <1>8, PersistenceAssumption DEF Safe, Sound, Leased, NoContext
  <2>2. hydrating = [signed EXCEPT !.ctx.joined = @ /\ signed.ctx.hydrated]
    BY <1>4, <1>8 DEF Hydrate, BeginHydration
  <2>3. /\ hydrating.ctx.gen = s.ctx.gen /\ hydrating.ctx.room = s.ctx.room
        /\ hydrating.ctx.hydrated = s.ctx.hydrated
        /\ hydrating.gate = s.gate /\ hydrating.user = s.user /\ hydrating.store = s.store
        /\ hydrating.queue = s.queue
    BY <1>3, <1>4, <2>1, <2>2 DEF TabState, Context
  <2>4. s.gate.hydrated
    BY <1>1, <1>8 DEF Frozen
  <2> HIDE DEF hydrating
  <2>5. n = hydrating
    BY <2>1, <2>3, <2>4 DEF Reload
  <2>6. Growing(n, local, idb)
    BY <1>1, <2>3, <2>5, SameGrowing
  <2> QED BY <1>2, <2>6, BecomeGrowing
<1>9. CASE ~(s.mounted /\ s.ctx.room = u /\ s.ctx.hydrated)
  <2> DEFINE h == hydrating
  <2>1. /\ h \in TabState /\ ~h.ctx.hydrated /\ ~h.gate.hydrated /\ h.user = u
        /\ h.queue # <<>> /\ h.queue[1].kind # "load" =>
              s.queue # <<>> /\ h.queue[1] = s.queue[1]
        /\ Preserves(h) => u = s.user /\ Own(s, h.queue[1])
    <3>1. CASE s.mounted /\ s.ctx.room = u
      <4>1. h = signed /\ u = s.user
        BY <1>1, <1>4, <1>9, <3>1, PersistenceAssumption
           DEF Hydrate, Safe, Sound, Leased, NoContext
      <4>2. ~s.gate.hydrated /\ ~s.ctx.hydrated
        BY <1>1, <1>9, <3>1 DEF Safe, Sound, Leased
      <4> QED BY <1>3, <1>4, <4>1, <4>2 DEF Preserves, Own
    <3>2. CASE s.mounted /\ s.ctx.room # u
      <4>1. h = BeginHydration(signed, local)
        BY <1>4, <3>2 DEF Hydrate
      <4> HIDE DEF h
      <4>2. signed.mounted /\ HasLease(signed, signed.user) /\ signed.ctx.room # signed.user
        BY <1>4, <1>6, <3>2
      <4>3. /\ Sound(h) /\ ~Preserves(h) /\ ~h.ctx.hydrated /\ h.user = signed.user
            /\ h.queue[1].kind # "load" => signed.queue # <<>> /\ h.queue[1] = signed.queue[1]
        BY <1>1, <1>5, <1>7, <4>1, <4>2, FreshGrowing
      <4>4. h \in TabState /\ ~h.gate.hydrated
        BY <4>3 DEF Sound, Leased
      <4> QED BY <1>4, <4>3, <4>4
    <3>3. CASE ~s.mounted
      <4>1. h = signed /\ signed.ctx = NoContext
        BY <1>1, <1>4, <3>3 DEF Safe, Sound, Leased
      <4>2. Waiting(s, idb) /\ Lined(s, local)
        BY <1>1 DEF Saved
      <4>3. ~Preserves(signed)
        BY <1>3, <1>4, <4>1, <4>2, UnleasedParked
      <4>4. ~signed.gate.hydrated /\ ~signed.ctx.hydrated
        BY <1>1, <1>4, <3>3, <4>1 DEF Safe, Sound, Leased, NoContext
      <4> QED BY <1>3, <1>4, <4>1, <4>3, <4>4
    <3> QED BY <3>1, <3>2, <3>3
  <2> HIDE DEF h, changed
  <2> DEFINE next == Stored(local, u)
             m == [h EXCEPT !.recovery = next.big]
             expected == h.gate.gen # 0 /\ ~h.gate.hydrated
  <2>2. next \in Workspace
    BY <1>1, StoredSmall
  <2>3. /\ m \in TabState /\ m.ctx = h.ctx /\ m.user = h.user /\ m.queue = h.queue
    BY <2>1, <2>2 DEF TabState, Workspace
  <2>4. n = Changed(m, next, expected)
    BY <2>1 DEF Reload, h
  <2>5. expected \in BOOLEAN
    OBVIOUS
  <2> HIDE DEF n, m, next, expected
  <2>6. /\ n.ctx.gen = h.ctx.gen /\ ~n.ctx.hydrated /\ n.user = u /\ n.queue = h.queue
        /\ n.store = Stored(local, n.user)
    <3>1. /\ n.ctx.gen = m.ctx.gen /\ n.ctx.hydrated = m.ctx.hydrated
          /\ n.user = m.user /\ n.store = next /\ n.queue = m.queue
      BY <2>2, <2>3, <2>4, <2>5, ChangedFields
    <3> QED BY <2>1, <2>3, <3>1 DEF next
  <2>7. Preserves(n) => Preserves(h)
    BY <2>6 DEF Preserves, Own
  <2>8. Growing(n, local, idb)
    BY <1>1, <2>1, <2>6, <2>7, CarriedGrowing
  <2> QED BY <1>2, <2>8, BecomeGrowing
<1> QED BY <1>8, <1>9

\* The saver claims what the user sees, which is built on the record.
LEMMA ClaimSaveGrowing ==
    ASSUME OneTab, IInv, FrozenTabs, SavingInv, GrowingInv, NEW t \in Tabs, ClaimSave(t)
    PROVE  GrowingInv'
<1> DEFINE s == tab[t]
           m == [s EXCEPT !.ctx.latest = None]
           req == [kind |-> "save", gen |-> m.ctx.gen, room |-> m.ctx.room,
                   ws |-> s.ctx.latest, expect |-> 0]
           n == Issue(m, "save", s.ctx.latest, 0)
<1>1. /\ Safe(s) /\ s \in TabState /\ Frozen(s) /\ Saved(s, local, idb)
      /\ Growing(s, local, idb)
      /\ s.ctx.latest # None /\ ~Saving(s) /\ s.queue \in Seq(Request)
  BY SavingParts DEF ClaimSave, TabState, GrowingInv
<1>2. s.ctx.hydrated /\ s.ctx.latest = s.store
  BY <1>1 DEF Frozen, Quiet, Saved, Durable
<1>3. s.queue = <<>>
  <2>1. s.queue # <<>> => 1 \in DOMAIN s.queue
    BY <1>1, TailElements
  <2> QED BY <1>1, <1>2, <2>1 DEF Saved, Lined, Own, Saving
<1>4. Become(t, n)
  BY DEF ClaimSave
<1>5. /\ m.ctx.gen = s.ctx.gen /\ m.ctx.room = s.ctx.room /\ m.ctx.hydrated
      /\ m.user = s.user /\ m.store = s.store /\ m.queue = s.queue
  BY <1>1, <1>2 DEF TabState, Context
<1>6. /\ n.queue = Append(s.queue, req) /\ n.ctx = m.ctx
      /\ n.user = s.user /\ n.store = s.store
  BY <1>1 DEF Issue, TabState
<1>7. req.kind = "save" /\ req.ws = s.store /\ req.room = s.ctx.room
  BY <1>2, <1>5
<1> HIDE DEF n, m, req
<1>8. n.queue # <<>> /\ n.queue[1] = req
  BY <1>3, <1>6
<1>9. Growing(n, local, idb)
  BY <1>1, <1>2, <1>5, <1>6, <1>7, <1>8
     DEF Growing, BuiltOn, HeldLocally, Preserves, Sees
<1> QED BY <1>4, <1>9, BecomeGrowing

\* An edit adds to what the user sees, and localStorage takes it.
LEMMA PublishGrowing ==
    ASSUME OneTab, Reliable, IInv, FrozenTabs, SavingInv, GrowingInv,
           NEW t \in Tabs, NEW ws \in Workspace,
           tab[t].store.edits \subseteq ws.edits,
           NEW kept \in BOOLEAN, tab[t].gate.hydrated, Publish(t, ws, FALSE, kept)
    PROVE  GrowingInv'
<1> DEFINE s == tab[t]
           m == [s EXCEPT !.recovery = FALSE]
           expected == FALSE
           n == Changed(m, ws, expected)
<1>1. /\ Safe(s) /\ s \in TabState /\ Saved(s, local, idb) /\ Growing(s, local, idb)
      /\ s.user \in Rooms /\ local \in LocalStorage /\ Grown(local, idb)
  BY SavingParts DEF TabState, GrowingInv
<1>2. s.ctx.hydrated /\ s.ctx.room = s.user
  BY <1>1, LeaseIsSession DEF Safe, Sound, Leased, NoContext
<1>3. /\ idb' = idb /\ local' = [local EXCEPT ![s.user] = [ws |-> ws, at |-> clock + 1]]
      /\ tab' = [x \in Tabs |->
                   IF x = t THEN n
                   ELSE [tab[x] EXCEPT !.inbox = Append(@, [room |-> s.user, ws |-> ws])]]
  BY DEF Publish, Reliable
<1>4. tab' = [tab EXCEPT ![t] = n]
  <2>1. tab' = [x \in Tabs |-> n]
    BY <1>3 DEF OneTab
  <2>2. [tab EXCEPT ![t] = n] = [x \in Tabs |-> n]
    BY IInvParts DEF OneTab
  <2> QED BY <2>1, <2>2
<1>5. m \in TabState /\ m.ctx = s.ctx /\ m.user = s.user /\ m.queue = s.queue
  BY <1>1 DEF TabState
<1> HIDE DEF m
<1>6. expected \in BOOLEAN
  OBVIOUS
<1> HIDE DEF expected
<1>7. /\ n.ctx.gen = s.ctx.gen /\ n.ctx.room = s.ctx.room /\ n.ctx.hydrated = s.ctx.hydrated
      /\ n.user = s.user /\ n.store = ws /\ n.queue = s.queue
  <2>1. /\ n.ctx.gen = m.ctx.gen /\ n.ctx.room = m.ctx.room /\ n.ctx.hydrated = m.ctx.hydrated
        /\ n.user = m.user /\ n.store = ws /\ n.queue = m.queue
    BY <1>5, <1>6, ChangedFields
  <2> HIDE DEF n
  <2> QED BY <1>5, <2>1
<1> HIDE DEF n
<1>8. local'[s.user].ws = ws /\ \A r \in Rooms : r # s.user => local'[r] = local[r]
  BY <1>1, <1>3 DEF LocalStorage
<1>9. idb[s.user] # None => idb[s.user].ws.edits \subseteq ws.edits
  BY <1>1, <1>2 DEF Growing, Sees
<1>10. Grown(local', idb')
  BY <1>1, <1>3, <1>8, <1>9 DEF Grown, Newer
<1>11. ~Preserves(n)
  <2>1. s.queue # <<>> => s.queue[1].kind = "save"
    BY <1>1, <1>2, TailElements DEF Saved, Lined, TabState
  <2> QED BY <1>7, <2>1 DEF Preserves
<1>12. Growing(n, local', idb')
  BY <1>1, <1>2, <1>3, <1>7, <1>8, <1>9, <1>11 DEF Growing, BuiltOn, HeldLocally, Sees
<1> QED BY <1>4, <1>10, <1>12, TaskGrowing

LEMMA MutationGrowing ==
    ASSUME OneTab, Reliable, IInv, FrozenTabs, SavingInv, GrowingInv,
           NEW t \in Tabs, NEW kept \in BOOLEAN, Edit(t, kept) \/ AgentEdit(t, kept)
    PROVE  GrowingInv'
<1> DEFINE s == tab[t]
<1>1. /\ Safe(s) /\ s.user \in Rooms /\ s.store \in Workspace /\ Within(s.store, s.user)
      /\ clock \in 0..MaxEdits
  BY IInvParts DEF Safe, Sound, TabState
<1>2. PICK r \in Rooms : /\ clock < MaxEdits /\ s.gate.hydrated /\ r = s.user
                         /\ Publish(t, With(s.store, r, FALSE), FALSE, kept)
  <2>1. CASE Edit(t, kept)
    BY <1>1, <2>1 DEF Edit, MayMutate
  <2>2. CASE AgentEdit(t, kept)
    <3>1. s.gate.room = s.lease.room /\ s.gate.hydrated
      BY <2>2 DEF AgentEdit, MayMutate, IsCurrent
    <3>2. s.lease.room = s.user
      BY <1>1, <3>1 DEF Safe, Sound, Leased
    <3> QED BY <1>1, <2>2, <3>2 DEF AgentEdit, MayMutate
  <2> QED BY <2>1, <2>2
<1> DEFINE ws == With(s.store, r, FALSE)
<1>3. ws \in Workspace
  BY <1>1, <1>2, WithWithin
<1>4. s.store.edits \subseteq ws.edits
  BY DEF With
<1> HIDE DEF ws
<1>5. Publish(t, ws, FALSE, kept) /\ s.gate.hydrated
  BY <1>2 DEF ws
<1> QED BY <1>3, <1>4, <1>5, PublishGrowing

-----------------------------------------------------------------------------
(* The continuations of a hydration, once more.                             *)

\* What the user sees of a newer copy in localStorage is in it.
Held(s, loc, db) == Newer(loc, db, s.user) => s.store.edits \subseteq loc[s.user].ws.edits

LEMMA IssueGrowing ==
    ASSUME NEW s, NEW loc, NEW db, Alone(s, loc), Held(s, loc, db),
           NEW kind \in Kinds, kind # "save", NEW ws \in Workspace, NEW expect \in Nat,
           kind = "preserve" => /\ ws.edits \subseteq loc[s.user].ws.edits
                                /\ db[s.ctx.room].ws.edits \subseteq ws.edits
    PROVE  Growing(Issue(s, kind, ws, expect), loc, db)
<1> DEFINE n == Issue(s, kind, ws, expect)
           req == [kind |-> kind, gen |-> s.ctx.gen, room |-> s.ctx.room,
                   ws |-> ws, expect |-> expect]
<1>1. s \in TabState /\ s.queue = <<>> /\ ~s.ctx.hydrated
  BY DEF Alone, Safe, Sound
<1>2. req.kind = kind /\ req.ws = ws /\ req.room = s.ctx.room
  OBVIOUS
<1>3. n.queue = Append(s.queue, req) /\ n.ctx = s.ctx /\ n.user = s.user /\ n.store = s.store
  BY <1>1, IssueFields
<1> HIDE DEF n, req
<1>4. n.queue # <<>> /\ n.queue[1] = req
  BY <1>1, <1>3
<1>5. Growing(n, loc, db)
  BY <1>1, <1>2, <1>3, <1>4 DEF Growing, BuiltOn, HeldLocally, Preserves, Sees, Held
<1> QED BY <1>5 DEF n

LEMMA CompleteGrowing ==
    ASSUME NEW s, NEW loc, NEW db, Alone(s, loc), Held(s, loc, db), NEW failed \in BOOLEAN,
           db[s.ctx.room] # None => db[s.ctx.room].ws.edits \subseteq s.store.edits
    PROVE  Growing(Complete(s, failed), loc, db) /\ Growing(CompleteAndSave(s, failed), loc, db)
<1> DEFINE c == Complete(s, failed)
           n == ScheduleSave(c)
<1>1. s \in TabState /\ s.queue = <<>>
  BY DEF Alone, Safe, Sound
<1>2. /\ c.ctx.room = s.ctx.room /\ c.ctx.hydrated
      /\ c.user = s.user /\ c.store = s.store /\ c.queue = s.queue
  BY <1>1, CompleteFields
<1>3. c \in TabState
  BY CompleteSound DEF Sound, Alone, Safe
<1> HIDE DEF c
<1>4. Growing(c, loc, db)
  BY <1>1, <1>2 DEF Growing, BuiltOn, HeldLocally, Preserves, Sees, Held
<1>5. /\ n.ctx.gen = c.ctx.gen /\ n.ctx.room = c.ctx.room /\ n.ctx.hydrated = c.ctx.hydrated
      /\ n.user = c.user /\ n.store = c.store /\ n.queue = c.queue
  BY <1>3, ScheduleSaveFields
<1> HIDE DEF n
<1>6. Growing(n, loc, db)
  BY <1>4, <1>5, SameGrowing
<1> QED BY <1>4, <1>6 DEF CompleteAndSave, c, n

LEMMA ApplyGrowing ==
    ASSUME NEW s, NEW loc, NEW db, Alone(s, loc), NEW ws \in Workspace,
           ~Newer(loc, db, s.user), db[s.ctx.room].ws = ws
    PROVE  Growing(Apply(s, ws), loc, db)
<1> DEFINE m == [s EXCEPT !.store = ws, !.recovery = @ \/ ws.big]
           n == Complete(m, ws.big)
<1>1. s \in TabState /\ s.queue = <<>> /\ ws.big \in BOOLEAN
  BY DEF Alone, Safe, Sound, Workspace
<1>2. m \in TabState /\ m.ctx = s.ctx /\ m.user = s.user /\ m.store = ws /\ m.queue = s.queue
  BY <1>1 DEF TabState
<1>3. Apply(s, ws) = n
  BY DEF Apply
<1> HIDE DEF m
<1>4. /\ n.ctx.room = s.ctx.room /\ n.ctx.hydrated
      /\ n.user = s.user /\ n.store = ws /\ n.queue = s.queue
  BY <1>2, CompleteFields
<1> HIDE DEF n
<1>5. Growing(n, loc, db)
  BY <1>1, <1>4 DEF Growing, BuiltOn, HeldLocally, Preserves, Sees
<1> QED BY <1>3, <1>5

LEMMA PreserveGrowing ==
    ASSUME NEW s, NEW loc, NEW db, Alone(s, loc), Held(s, loc, db), NEW rev \in Nat,
           s.store.edits \subseteq loc[s.user].ws.edits,
           db[s.ctx.room].ws.edits \subseteq s.store.edits
    PROVE  Growing(Preserve(s, rev), loc, db)
<1> DEFINE m == [s EXCEPT !.ctx.pend = FALSE]
<1>1. s \in TabState /\ s.ctx.pend = FALSE
  BY DEF Alone, Safe, Sound, TabState, Context
<1>2. /\ m \in TabState /\ m.ctx.gen = s.ctx.gen /\ m.ctx.room = s.ctx.room
      /\ m.ctx.hydrated = s.ctx.hydrated /\ m.ctx.latest = s.ctx.latest
      /\ m.ctx.pend = s.ctx.pend /\ m.ctx.localAt = s.ctx.localAt
      /\ m.gate = s.gate /\ m.gen = s.gen /\ m.user = s.user /\ m.store = s.store
      /\ m.mounted = s.mounted /\ m.starting = s.starting
      /\ m.queue = s.queue /\ m.inbox = s.inbox /\ m.recovery = s.recovery
  BY <1>1 DEF TabState, Context
<1>3. Preserve(s, rev) = Issue(m, "preserve", s.store, rev)
  BY DEF Preserve
<1>4. Sound(m)
  BY <1>2 DEF Alone, Safe, Sound, Leased, Carried, Sourced
<1>5. "preserve" \in Kinds /\ "preserve" # "save" /\ s.store \in Workspace
  BY <1>1 DEF Kinds, TabState
<1> HIDE DEF m
<1>6. Alone(m, loc) /\ Held(m, loc, db)
  BY <1>2, <1>4 DEF Alone, Safe, Held
<1> QED BY <1>2, <1>3, <1>5, <1>6, IssueGrowing

LEMMA ContinueGrowing ==
    ASSUME NEW s, NEW db \in Database, local \in LocalStorage, Kept(local), Grown(local, db),
           Alone(s, local), Shown(s, local, db), Held(s, local, db),
           NEW req \in Request, req.kind # "save", NEW ok \in BOOLEAN,
           req.kind = "load" => ok,
           req.kind = "probe" \/ (req.kind = "migrate" /\ ~ok) => db[s.ctx.room] = None,
           req.kind = "migrate" /\ ok => db[s.ctx.room] # None /\ ~Newer(local, db, s.user),
           req.kind = "preserve" /\ db[s.ctx.room] # None =>
              db[s.ctx.room].ws.edits \subseteq s.store.edits
    PROVE  Growing(Continue(s, req, ok, db[s.ctx.room]), local, db)
<1> DEFINE record == db[s.ctx.room]
<1>1. /\ s.ctx.room \in Rooms /\ s.ctx.room = s.user /\ ~s.ctx.pend
      /\ {"load", "probe", "migrate", "preserve"} \subseteq Kinds \ {"save"}
      /\ Empty \in Workspace
  BY LeaseIsSession, Constants DEF Alone, Safe, Kinds, Empty
<1>2. record # None => /\ record.ws \in Workspace /\ record.rev \in Nat /\ record.at \in Nat
  BY <1>1, PersistenceAssumption DEF Database, Record
<1>3. req.kind \in {"load", "probe", "migrate", "preserve"}
  BY DEF Request, Kinds
<1>4. (record # None => record.ws.edits \subseteq s.store.edits) =>
         /\ Growing(Complete(s, TRUE), local, db) /\ Growing(Complete(s, FALSE), local, db)
         /\ Growing(CompleteAndSave(s, FALSE), local, db)
  <2> SUFFICES ASSUME record # None => record.ws.edits \subseteq s.store.edits
               PROVE  /\ Growing(Complete(s, TRUE), local, db)
                      /\ Growing(Complete(s, FALSE), local, db)
                      /\ Growing(CompleteAndSave(s, FALSE), local, db)
    OBVIOUS
  <2> DEFINE yes == TRUE
             no == FALSE
  <2>1. yes \in BOOLEAN /\ no \in BOOLEAN
    OBVIOUS
  <2> HIDE DEF yes, no
  <2>2. /\ Growing(Complete(s, yes), local, db) /\ Growing(Complete(s, no), local, db)
        /\ Growing(CompleteAndSave(s, no), local, db)
    BY <2>1, CompleteGrowing
  <2> QED BY <2>2 DEF yes, no
<1>5. StoredAt(local, s.user) \in Nat
  BY <1>1, StoredWithin, PersistenceAssumption
<1>6. CASE req.kind = "load"
  <2>1. Continue(s, req, ok, record) = Loaded(s, ok, record) /\ ok
    BY <1>6 DEF Continue
  <2>2. CASE record = None
    BY <1>1, <2>1, <2>2, IssueGrowing DEF Loaded
  <2>3. CASE record # None
    <3>1. CASE s.ctx.localAt > record.at
      <4>1. Newer(local, db, s.user)
        BY <1>1, <1>2, <1>5, <2>3, <3>1 DEF Newer, StoredAt, Alone
      <4>2. /\ s.store.edits \subseteq local[s.user].ws.edits
            /\ record.ws.edits \subseteq s.store.edits
        BY <1>1, <4>1 DEF Held, Shown, Grown
      <4> QED BY <1>2, <2>1, <2>3, <3>1, <4>2, PreserveGrowing DEF Loaded
    <3>2. CASE ~(s.ctx.localAt > record.at)
      <4>1. ~Newer(local, db, s.user)
        BY <1>1, <1>2, <1>5, <2>3, <3>2 DEF Newer, StoredAt, Alone
      <4> QED BY <1>1, <1>2, <2>1, <2>3, <3>2, <4>1, ApplyGrowing DEF Loaded
    <3> QED BY <3>1, <3>2
  <2> QED BY <2>2, <2>3
<1>7. CASE req.kind = "probe"
  <2>1. Continue(s, req, ok, record) = Probed(s, ok, record, local) /\ record = None
    BY <1>7 DEF Continue
  <2>2. CASE ~ok \/ local[s.ctx.room] = None
    BY <1>4, <2>1, <2>2 DEF Probed
  <2>3. CASE ~(~ok \/ local[s.ctx.room] = None)
    <3>1. local[s.ctx.room].ws \in Workspace
      BY <1>1, <2>3 DEF LocalStorage
    <3> QED BY <1>1, <2>1, <2>3, <3>1, IssueGrowing DEF Probed
  <2> QED BY <2>2, <2>3
<1>8. CASE req.kind = "migrate"
  <2>1. CASE ok
    <3>1. record # None /\ ~Newer(local, db, s.user)
      BY <1>8, <2>1
    <3>2. Continue(s, req, ok, record) = Apply(s, record.ws)
      BY <1>1, <1>8, <2>1 DEF Continue, Migrated
    <3> QED BY <1>2, <3>1, <3>2, ApplyGrowing
  <2>2. CASE ~ok
    <3>1. Continue(s, req, ok, record) = CompleteAndSave(s, FALSE) /\ record = None
      BY <1>8, <2>2 DEF Continue
    <3> QED BY <1>4, <3>1
  <2> QED BY <2>1, <2>2
<1>9. CASE req.kind = "preserve"
  <2>1. Continue(s, req, ok, record) = IF ok THEN Complete(s, FALSE) ELSE Complete(s, TRUE)
    BY <1>1, <1>9 DEF Continue, Preserved
  <2> QED BY <1>4, <1>9, <2>1
<1> QED BY <1>3, <1>6, <1>7, <1>8, <1>9

\* The step of a request: what it writes holds what it replaces, so that neither
\* the other rooms nor the copies in localStorage can tell.
LEMMA ServeBuilds ==
    ASSUME IInv, FrozenTabs, SavingInv, GrowingInv, NEW t \in Tabs, NEW works \in BOOLEAN,
           NEW flushed \in BOOLEAN, Serve(t, works, flushed)
    PROVE  /\ Grown(local, idb')
           /\ \A r \in Rooms : idb[r] # None =>
                 idb'[r] # None /\ idb[r].ws.edits \subseteq idb'[r].ws.edits
<1> DEFINE s == tab[t]
           req == s.queue[1]
           write == req.kind \notin {"load", "probe"}
           ok == works /\ (write => Fits(req, idb[req.room]))
<1>1. /\ s.queue # <<>> /\ req \in Request
      /\ \A r \in Rooms : r # req.room => idb'[r] = idb[r]
      /\ ~(ok /\ write) => idb'[req.room] = idb[req.room]
      /\ ok /\ write => /\ idb'[req.room] # None /\ idb'[req.room].ws = req.ws
                        /\ ~Newer(local, idb', req.room)
  BY ServeRecord
<1>2. Saved(s, local, idb) /\ Growing(s, local, idb) /\ Grown(local, idb)
  BY SavingParts DEF GrowingInv
<1>3. req.kind \in Kinds
  BY <1>1 DEF Request
<1>4. write /\ idb[req.room] # None => idb[req.room].ws.edits \subseteq req.ws.edits
  <2>1. req.kind # "migrate" \/ idb[req.room] = None
    BY <1>1, <1>2 DEF Saved, Waiting
  <2> QED BY <1>1, <1>2, <1>3, <2>1 DEF Growing, BuiltOn, Kinds
<1> HIDE DEF ok, write, req
<1>5. \A r \in Rooms : idb'[r] = idb[r] \/ ~Newer(local, idb', r)
  BY <1>1
<1>6. Grown(local, idb')
  BY <1>2, <1>5 DEF Grown, Newer
<1>7. ASSUME NEW r \in Rooms, idb[r] # None
      PROVE  idb'[r] # None /\ idb[r].ws.edits \subseteq idb'[r].ws.edits
  <2>1. CASE idb'[r] = idb[r]
    BY <1>7, <2>1
  <2>2. CASE idb'[r] # idb[r]
    <3>1. r = req.room /\ ok /\ write
      BY <1>1, <2>2
    <3> QED BY <1>1, <1>4, <1>7, <3>1
  <2> QED BY <2>1, <2>2
<1> QED BY <1>6, <1>7

LEMMA ServeGrowing ==
    ASSUME OneTab, Reliable, IInv, FrozenTabs, SavingInv, GrowingInv, NEW t \in Tabs,
           NEW works \in BOOLEAN, NEW flushed \in BOOLEAN, Serve(t, works, flushed)
    PROVE  GrowingInv'
<1> DEFINE s == tab[t]
           req == s.queue[1]
           write == req.kind \notin {"load", "probe"}
           ok == works /\ (write => Fits(req, idb[req.room]))
           served == [s EXCEPT !.queue = Tail(s.queue)]
           n == IF req.kind = "save"
                THEN IF s.ctx.gen = req.gen THEN SaveReturned(served, ok, flushed) ELSE served
                ELSE IF Resumes(s, req) THEN Continue(served, req, ok, idb'[req.room]) ELSE served
<1>1. /\ s \in TabState /\ Safe(s) /\ Frozen(s) /\ Saved(s, local, idb) /\ Growing(s, local, idb)
      /\ local \in LocalStorage /\ Kept(local) /\ s.queue \in Seq(Request)
  BY SavingParts DEF TabState, GrowingInv
<1>2. /\ s.queue # <<>> /\ 1 \in DOMAIN s.queue /\ Head(s.queue) = req /\ req \in Request
      /\ Sourced(s, req) /\ idb' \in Database
      /\ \A r \in Rooms : r # req.room => idb'[r] = idb[r]
      /\ ~(ok /\ write) => idb'[req.room] = idb[req.room]
      /\ ok /\ write => /\ idb'[req.room] # None /\ idb'[req.room].ws = req.ws
                        /\ ~Newer(local, idb', req.room)
  BY ServeRecord
<1>3. local' = local /\ Grown(local, idb') /\ (req.kind = "load" => works)
  BY <1>2, ServeBuilds DEF Serve, Reliable
<1>4. req.room \in Rooms /\ req.kind \in Kinds /\ s.user \in Rooms /\ req.gen # 0
  BY <1>1, <1>2, PersistenceAssumption DEF Request, TabState
<1>5. tab' = [tab EXCEPT ![t] = n]
  <2> DEFINE record == idb[req.room]
             after == IF ok /\ write THEN Put(req, record) ELSE record
             n0 == IF req.kind = "save"
                   THEN IF s.ctx.gen = req.gen THEN SaveReturned(served, ok, flushed) ELSE served
                   ELSE IF Resumes(s, req) THEN Continue(served, req, ok, after) ELSE served
  <2>1. tab' = [tab EXCEPT ![t] = n0] /\ idb' = [idb EXCEPT ![req.room] = after]
    BY <1>1, <1>2 DEF Serve, TabState
  <2>2. idb'[req.room] = after
    BY <1>4, <2>1, SavingParts DEF Database
  <2> QED BY <2>1, <2>2
<1>6. /\ served \in TabState /\ served.ctx = s.ctx /\ served.gate = s.gate /\ served.gen = s.gen
      /\ served.user = s.user /\ served.mounted = s.mounted
      /\ served.starting = s.starting /\ served.store = s.store /\ served.recovery = s.recovery
      /\ served.queue = Tail(s.queue) /\ served.inbox = s.inbox
  BY <1>1, <1>2, TailElements DEF TabState
<1>7. ok \in BOOLEAN /\ (req.kind = "load" => ok)
  BY <1>3 DEF Fits
<1> HIDE DEF served, ok, req
<1>8. \A r \in Rooms : idb'[r] = idb[r] \/ ~Newer(local, idb', r)
  BY <1>2
<1>9. Newer(local, idb', s.user) => Newer(local, idb, s.user)
  BY <1>4, <1>8 DEF Newer
<1>10. Own(s, req) => req.room = s.ctx.room /\ s.ctx.gen # 0
  BY <1>2, <1>4 DEF Own, Sourced
<1>11. Own(s, req) => Tail(s.queue) = <<>>
  BY <1>1, <1>2, OwnIsLast DEF req
<1>12. CASE s.ctx.hydrated
  <2>1. req.kind = "save" /\ Own(s, req)
    BY <1>1, <1>2, <1>12 DEF Saved, Lined, req
  <2>2. n = SaveReturned(served, ok, flushed)
    BY <2>1 DEF Own
  <2> DEFINE c == [served.ctx EXCEPT !.failed = ~ok \/ (@ /\ ~flushed)]
  <2>3. n = [served EXCEPT !.ctx = c]
    BY <1>6, <2>2 DEF SaveReturned, TabState
  <2>4. c.gen = s.ctx.gen /\ c.room = s.ctx.room /\ c.hydrated = s.ctx.hydrated
    BY <1>6 DEF TabState, Context
  <2> HIDE DEF c, n
  <2>5. n.ctx = c /\ n.user = s.user /\ n.store = s.store /\ n.queue = <<>>
    BY <1>6, <1>11, <2>1, <2>3 DEF TabState
  <2>6. idb'[s.ctx.room] # None => idb'[s.ctx.room].ws.edits \subseteq s.store.edits
    <3>1. req.ws.edits \subseteq s.store.edits
      BY <1>1, <1>2, <1>12 DEF Growing, Sees, req
    <3>2. CASE ok /\ write
      <4>1. idb'[req.room].ws = req.ws
        BY <1>2, <3>2
      <4> QED BY <1>10, <2>1, <3>1, <4>1
    <3>3. CASE ~(ok /\ write)
      <4>1. idb'[req.room] = idb[req.room]
        BY <1>2, <3>3
      <4>2. idb[s.ctx.room] # None => idb[s.ctx.room].ws.edits \subseteq s.store.edits
        BY <1>1, <1>12 DEF Growing, Sees
      <4> QED BY <1>10, <2>1, <4>1, <4>2
    <3> QED BY <3>2, <3>3
  <2>7. Newer(local, idb', s.user) => s.store.edits \subseteq local[s.user].ws.edits
    BY <1>1, <1>9 DEF Growing
  <2>8. Growing(n, local, idb')
    BY <2>4, <2>5, <2>6, <2>7 DEF Growing, BuiltOn, HeldLocally, Preserves, Sees
  <2> QED BY <1>3, <1>5, <2>8, TaskGrowing
<1>13. CASE ~s.ctx.hydrated /\ req.kind # "save" /\ Resumes(s, req)
  <2>1. Own(s, req) /\ s.ctx.gen # 0 /\ req.room = s.ctx.room /\ s.ctx.room = s.user
    BY <1>1, <1>10, <1>13, LeaseIsSession DEF Resumes, Own, Safe
  <2>2. n = Continue(served, req, ok, idb'[served.ctx.room])
    BY <1>6, <1>13, <2>1
  <2>3. Sound(served)
    BY <1>1, <1>6, <1>11, <2>1 DEF Safe, Sound, Leased, Carried, Sourced
  <2>4. s.ctx.latest = None
    BY <1>1, <1>13 DEF Frozen, Quiet
  <2>5. Alone(served, local) /\ Shown(served, local, idb')
    BY <1>1, <1>6, <1>9, <1>11, <1>13, <2>1, <2>3, <2>4
       DEF Alone, Shown, Safe, Saved, Lined, Durable
  <2>6. Held(served, local, idb')
    BY <1>1, <1>6, <1>9 DEF Growing, Held
  <2>7. req.kind = "probe" \/ (req.kind = "migrate" /\ ~ok) => idb'[served.ctx.room] = None
    BY <1>1, <1>2, <1>6, <2>1 DEF Saved, Waiting, req
  <2>8. req.kind = "migrate" /\ ok =>
           idb'[served.ctx.room] # None /\ ~Newer(local, idb', served.user)
    BY <1>2, <1>6, <2>1
  <2>9. req.kind = "preserve" /\ idb'[served.ctx.room] # None =>
           idb'[served.ctx.room].ws.edits \subseteq served.store.edits
    <3> SUFFICES ASSUME req.kind = "preserve", idb'[req.room] # None
                 PROVE  idb'[req.room].ws.edits \subseteq s.store.edits
      BY <1>6, <2>1
    <3>1. Preserves(s)
      BY <1>2, <2>1 DEF Preserves, req
    <3>2. req.ws.edits \subseteq s.store.edits
      <4>1. req.ws.edits \subseteq local[s.user].ws.edits
        BY <1>1, <3>1 DEF Growing, HeldLocally, req
      <4>2. local[s.user].ws.edits \subseteq s.store.edits
        BY <1>1, <3>1 DEF Saved, Reconciling, Durable
      <4> QED BY <4>1, <4>2
    <3>3. idb[req.room] # None => idb[req.room].ws.edits \subseteq req.ws.edits
      BY <1>1, <1>2 DEF Growing, BuiltOn, req
    <3>4. idb'[req.room] = idb[req.room] \/ idb'[req.room].ws = req.ws
      BY <1>2
    <3> QED BY <3>2, <3>3, <3>4
  <2> HIDE DEF n
  <2>10. Growing(n, local, idb')
    BY <1>1, <1>2, <1>3, <1>7, <1>13, <2>2, <2>5, <2>6, <2>7, <2>8, <2>9, ContinueGrowing
  <2> QED BY <1>3, <1>5, <2>10, TaskGrowing
<1>14. CASE ~s.ctx.hydrated /\ ~(req.kind # "save" /\ Resumes(s, req))
  <2>1. req.kind = "save" => ~Own(s, req)
    BY <1>1, <1>2, <1>14 DEF Saved, Lined, req
  <2>2. n = served
    BY <1>14, <2>1 DEF Own
  <2> HIDE DEF n
  <2>3. served.queue # <<>> => served.queue[1].kind = "load"
    <3>1. served = [s EXCEPT !.queue = Tail(s.queue)]
      BY DEF served
    <3> QED BY <1>1, <1>2, <1>4, <1>8, <1>14, <3>1, DroppedSaved
  <2>4. Newer(local, idb', s.user) => s.store.edits \subseteq local[s.user].ws.edits
    BY <1>1, <1>9 DEF Growing
  <2>5. Growing(served, local, idb')
    BY <1>6, <1>14, <2>3, <2>4 DEF Growing, BuiltOn, HeldLocally, Preserves, Sees
  <2> QED BY <1>3, <1>5, <2>2, <2>5, TaskGrowing
<1> QED BY <1>12, <1>13, <1>14

LEMMA InitGrows == Init => GrowingInv
<1> SUFFICES ASSUME Init PROVE GrowingInv
  OBVIOUS
<1>1. \A r \in Rooms : ~Newer(local, idb, r)
  <2> SUFFICES ASSUME NEW r \in Rooms, local[r] # None, idb[r] # None
               PROVE  local[r].at = 0 /\ idb[r].at = 0
    BY DEF Newer
  <2> QED BY DEF Init, LocalSeeds, IdbSeeds
<1>2. \A t \in Tabs : tab[t] = Boot(local)
  BY DEF Init
<1>3. Growing(Boot(local), local, idb)
  BY InitEstablishes, IInvParts, BootGrowing
<1> QED BY <1>1, <1>2, <1>3 DEF GrowingInv, Grown

LEMMA NextGrows ==
    OneTab /\ Reliable /\ IInv /\ FrozenTabs /\ SavingInv /\ GrowingInv /\ [Next]_vars =>
        GrowingInv'
<1> SUFFICES ASSUME OneTab, Reliable, IInv, FrozenTabs, SavingInv, GrowingInv, [Next]_vars
             PROVE  GrowingInv'
  OBVIOUS
<1>1. CASE UNCHANGED vars
  BY <1>1 DEF vars, GrowingInv, Grown, Growing, BuiltOn, HeldLocally, Preserves, Own, Sees, Newer
<1>2. CASE Next
  <2> PICK t \in Tabs :
         \/ Start(t) \/ Stop(t) \/ AuthReady(t) \/ Restart(t)
         \/ \E u \in Rooms : SessionChange(t, u)
         \/ Capture(t) \/ Remote(t) \/ ClaimSave(t)
         \/ \E kept \in BOOLEAN :
               \/ Edit(t, kept) \/ AgentEdit(t, kept)
               \/ \E big \in BOOLEAN : Reduce(t, big, kept)
         \/ \E works, flushed \in BOOLEAN : Serve(t, works, flushed)
    BY <1>2 DEF Next
  <2>1. CASE Start(t) \/ Capture(t)
    BY <2>1, StartGrowing
  <2>2. CASE Stop(t)
    BY <2>2, StopGrowing
  <2>3. CASE AuthReady(t)
    BY <2>3, AuthReadyGrowing
  <2>4. CASE Restart(t)
    BY <2>4, RestartGrowing
  <2>5. CASE \E u \in Rooms : SessionChange(t, u)
    BY <2>5, SessionChangeGrowing
  <2>6. CASE Remote(t) \/ \E big, kept \in BOOLEAN : Reduce(t, big, kept)
    BY <2>6, RemoteSaved
  <2>7. CASE ClaimSave(t)
    BY <2>7, ClaimSaveGrowing
  <2>8. CASE \E kept \in BOOLEAN : Edit(t, kept) \/ AgentEdit(t, kept)
    BY <2>8, MutationGrowing
  <2>9. CASE \E works, flushed \in BOOLEAN : Serve(t, works, flushed)
    BY <2>9, ServeGrowing
  <2> QED BY <2>1, <2>2, <2>3, <2>4, <2>5, <2>6, <2>7, <2>8, <2>9
<1> QED BY <1>1, <1>2

\* Only the answer of a request writes IndexedDB, and what it writes holds what
\* it replaces.
LEMMA NextBuilds ==
    ASSUME OneTab, IInv, FrozenTabs, SavingInv, GrowingInv, [Next]_vars
    PROVE  \A r \in Rooms : idb[r] # None =>
              idb'[r] # None /\ idb[r].ws.edits \subseteq idb'[r].ws.edits
<1>1. CASE idb' = idb
  BY <1>1
<1>2. CASE idb' # idb
  <2>1. PICK t \in Tabs, works \in BOOLEAN, flushed \in BOOLEAN : Serve(t, works, flushed)
    BY <1>2 DEF Next, vars, Start, Stop, AuthReady, Restart, SessionChange, Capture, Remote,
       ClaimSave, Edit, AgentEdit, Reduce, Publish, Become
  <2> QED BY <2>1, ServeBuilds
<1> QED BY <1>1, <1>2

\* With one tab, rooms within the capacity limit, a first read that answers and a
\* localStorage that stores, no save of the page ever drops an edit that IndexedDB
\* holds, whichever saves and migrations fail and whichever sessions come and go.
THEOREM NoneOverwritten ==
    ASSUME OneTab, NoBigRoom, Reliable
    PROVE  Spec => NoBlindOverwrite
<1>1. IInv /\ FrozenTabs /\ SavingInv /\ GrowingInv /\ [Next]_vars =>
         [\A r \in Rooms : idb[r] # None =>
             idb'[r] # None /\ idb[r].ws.edits \subseteq idb'[r].ws.edits]_idb
  BY NextBuilds
<1>2. IInv /\ FrozenTabs /\ SavingInv /\ GrowingInv /\ [Next]_vars => GrowingInv'
  BY NextGrows
<1> QED BY SavingInvariance, InitGrows, <1>1, <1>2, PTL DEF Spec, NoBlindOverwrite
=============================================================================
