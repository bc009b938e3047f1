------------------------- MODULE AuthSessionProofs --------------------------
(***************************************************************************)
(* Proofs about AuthSession for every set of callers, hooks and subjects   *)
(* and every number of requests: IInv is inductive, and each property is a *)
(* consequence of it or of one step taken from it.                         *)
(***************************************************************************)
EXTENDS AuthSession, TLAPS

LEMMA SessionTypes ==
    ASSUME TypeOK
    PROVE  /\ OrNull(cached) \in Session
           /\ cached.who # Undefined => OrNull(cached) = cached
           /\ cached.who = Undefined => OrNull(cached) = Nobody
           /\ Nobody \in Session /\ 0 \in Ids /\ Ids \subseteq Nat
           /\ \A s \in Session : OrNull(s) = s
  BY SessionAssumption DEF TypeOK, OrNull, Session, Nobody, Ids

LEMMA InitEstablishes == Init => IInv
<1> SUFFICES ASSUME Init PROVE IInv
  OBVIOUS
<1>1. TypeOK
  BY SessionAssumption DEF Init, TypeOK, Ids, Session, Nobody
<1>2. HooksAgree /\ NoOrphanWait /\ OpenAccounted
  BY DEF Init, HooksAgree, NoOrphanWait, OpenAccounted
<1>3. NewestAccounted
  BY DEF Init, NewestAccounted
<1> QED BY <1>1, <1>2, <1>3 DEF IInv

\* Asking for a session never disturbs what is cached or shown.
LEMMA AskPreserves ==
    ASSUME IInv, NEW c \in Callers, NEW force \in BOOLEAN, Ask(c, force),
           shown' \in [Hooks -> Session \cup {Unmounted}],
           \A h \in Hooks : shown'[h] # Unmounted => shown'[h] = OrNull(cached),
           UNCHANGED <<cached, fresh, epoch>>
    PROVE  IInv'
<1> USE DEF IInv
<1>1. HooksAgree'
  BY DEF HooksAgree, OrNull, Nobody
<1>2. CASE Hit /\ Deliver(c, cached)
  <2>1. cached \in Session
    BY <1>2, SessionTypes DEF Hit
  <2>2. TypeOK' /\ NoOrphanWait' /\ OpenAccounted' /\ NewestAccounted'
    BY <1>2, <2>1 DEF Deliver, TypeOK, NoOrphanWait, OpenAccounted, NewestAccounted
  <2> QED BY <1>1, <2>2
<1>3. CASE slot # 0 /\ Join(c)
  <2>1. TypeOK'
    BY <1>3 DEF Join, TypeOK
  <2>2. NoOrphanWait'
    BY <1>3 DEF Join, NoOrphanWait, NewestAccounted, TypeOK
  <2>3. OpenAccounted' /\ NewestAccounted'
    BY <1>3 DEF Join, OpenAccounted, NewestAccounted
  <2> QED BY <1>1, <2>1, <2>2, <2>3
<1>4. CASE Request(c)
  <2> DEFINE r == [id |-> seq + 1, epoch |-> epoch]
  <2>1. /\ seq \in Nat /\ latest \in Nat /\ slot \in Nat /\ cached.by \in Nat
        /\ seq < MaxSeq /\ seq + 1 \in Ids /\ seq + 1 # 0
        /\ seq' = seq + 1 /\ latest' = seq + 1 /\ slot' = seq + 1
        /\ open' = open \cup {r}
        /\ waits' = [waits EXCEPT ![c] = seq + 1]
        /\ r.id = seq + 1 /\ r.epoch = epoch
        /\ UNCHANGED got
    BY <1>4, SessionAssumption DEF Request, TypeOK, Ids
  <2>2. TypeOK'
    BY <2>1 DEF TypeOK
  <2>3. NoOrphanWait'
    BY <2>1 DEF NoOrphanWait, TypeOK
  <2>4. OpenAccounted'
    <3> SUFFICES ASSUME NEW q \in open'
                 PROVE  /\ 0 < q.id /\ q.id <= latest'
                        /\ q.id = latest' => cached'.by < latest'
                        /\ q.epoch # epoch' => q.id < cached'.by
      BY DEF OpenAccounted
    <3>1. CASE q \in open
      BY <2>1, <3>1 DEF OpenAccounted, NewestAccounted, TypeOK, Ids
    <3>2. CASE q = r
      BY <2>1, <3>2 DEF NewestAccounted
    <3> QED BY <2>1, <3>1, <3>2
  <2>5. NewestAccounted'
    <3>1. \E q \in open' : q.id = slot'
      BY <2>1
    <3>2. cached.by <= seq + 1
      BY <2>1 DEF NewestAccounted
    <3> QED BY <2>1, <3>1, <3>2 DEF NewestAccounted
  <2> QED BY <1>1, <2>2, <2>3, <2>4, <2>5
<1> QED BY <1>2, <1>3, <1>4 DEF Ask

\* Storing a session no request brought: it gets the newest number.
LEMMA StorePreserves ==
    ASSUME IInv, NEW who \in Subjects \cup {Null}, NEW told,
           Store(who, told),
           told = Announce([who |-> who, by |-> seq + 1]),
           \/ UNCHANGED <<epoch, slot>>
           \/ slot' = 0 /\ epoch < MaxEpoch /\ epoch' = epoch + 1
    PROVE  IInv'
<1> USE DEF IInv
<1> DEFINE s == [who |-> who, by |-> seq + 1]
<1>1. /\ seq \in Nat /\ latest \in Nat /\ slot \in Nat /\ cached.by \in Nat /\ epoch \in Nat
      /\ seq < MaxSeq /\ seq + 1 \in Ids
      /\ seq' = seq + 1 /\ latest' = seq + 1 /\ cached' = s /\ fresh' = TRUE
      /\ shown' = told
      /\ UNCHANGED <<open, waits, got>>
  BY SessionAssumption DEF Store, TypeOK, Ids
<1>2. s \in Session /\ OrNull(s) = s /\ s.by = seq + 1
  BY <1>1, SessionAssumption DEF Session, OrNull
<1>3. epoch' \in 0..MaxEpoch /\ slot' \in Ids /\ (slot' = slot \/ slot' = 0)
  BY <1>1, SessionAssumption DEF TypeOK, Ids
<1>4. told \in [Hooks -> Session \cup {Unmounted}]
  BY <1>2 DEF Announce
<1>5. TypeOK'
  BY <1>1, <1>2, <1>3, <1>4 DEF TypeOK, Session
<1>6. HooksAgree'
  BY <1>1, <1>2 DEF HooksAgree, Announce, OrNull, Nobody
<1>7. NoOrphanWait'
  BY <1>1 DEF NoOrphanWait
<1>8. OpenAccounted'
  BY <1>1, <1>2 DEF OpenAccounted, NewestAccounted, TypeOK, Ids
<1>9. NewestAccounted'
  BY <1>1, <1>2, <1>3, SessionAssumption DEF NewestAccounted, Session
<1> QED BY <1>5, <1>6, <1>7, <1>8, <1>9

\* What a response finds: the newest request is still unanswered, and any
\* other one is older than the cache unless a newer one is in the slot.
LEMMA ResponseOrder ==
    ASSUME IInv, NEW r \in open
    PROVE  /\ r.id \in Ids /\ r.id \in Nat /\ r.id # 0
           /\ Newest(r) => cached.by < r.id
           /\ ~Newest(r) /\ ~Follows(r) => r.id < cached.by /\ cached.who # Undefined
<1> USE DEF IInv
<1>1. /\ r.id \in Ids /\ r.id \in Nat /\ 0 < r.id /\ r.id <= latest
      /\ slot \in Nat /\ latest \in Nat /\ cached.by \in Nat
      /\ r.id = latest => cached.by < latest
      /\ r.epoch # epoch => r.id < cached.by
  BY SessionTypes DEF OpenAccounted, TypeOK, Ids
<1>2. ~Newest(r) /\ ~Follows(r) => r.id < cached.by
  BY <1>1 DEF Newest, Follows, NewestAccounted
<1>3. cached.who = Undefined => cached.by = 0
  BY DEF NewestAccounted
<1> QED BY <1>1, <1>2, <1>3 DEF Newest

LEMMA RespondPreserves ==
    ASSUME IInv, NEW r \in open, NEW who \in Subjects \cup {Null}, Respond(r, who)
    PROVE  IInv'
<1> USE DEF IInv
<1> DEFINE s == [who |-> who, by |-> r.id]
           told == {c \in Callers : waits[c] = r.id}
<1>1. /\ r.id \in Ids /\ r.id \in Nat /\ r.id # 0
      /\ Newest(r) => cached.by < r.id
      /\ s \in Session /\ OrNull(s) = s /\ s.by = r.id
  BY ResponseOrder, SessionAssumption DEF Session, OrNull
<1>2. /\ open' = open \ {r}
      /\ cached' = IF Newest(r) THEN s ELSE cached
      /\ fresh' = (fresh \/ Newest(r))
      /\ UNCHANGED <<seq, latest, epoch>>
  BY DEF Respond
<1>3. /\ seq \in Nat /\ latest \in Nat /\ slot \in Nat /\ cached.by \in Nat
      /\ cached'.by \in Nat
      /\ \A q \in open : q.id \in Nat
  BY <1>1, <1>2, SessionTypes DEF TypeOK
<1>4. OpenAccounted'
  <2>1. ASSUME NEW q \in open, q.id = r.id, Newest(r) PROVE q = r
    BY <2>1, <1>1, <1>3 DEF OpenAccounted, Newest, TypeOK
  <2> QED BY <1>1, <1>2, <1>3, <2>1 DEF OpenAccounted, Newest
<1>5. CASE ~Newest(r) /\ Follows(r)
  <2>1. /\ waits' = [c \in Callers |-> IF c \in told THEN slot ELSE waits[c]]
        /\ cached' = cached
        /\ r.id < slot
        /\ UNCHANGED <<slot, got, shown>>
    BY <1>5, <1>2 DEF Respond, Follows
  <2>2. PICK q \in open' : q.id = slot
    BY <1>2, <2>1, <1>3 DEF NewestAccounted
  <2>3. TypeOK'
    BY <1>2, <2>1 DEF TypeOK
  <2>4. HooksAgree' /\ NoOrphanWait' /\ NewestAccounted'
    BY <1>2, <2>1, <2>2 DEF HooksAgree, NoOrphanWait, NewestAccounted, OrNull, Nobody
  <2> QED BY <1>4, <2>3, <2>4
<1>6. CASE Newest(r) \/ ~Follows(r)
  <2> DEFINE after == Outcome(r, s)
             rendered == IF Newest(r) THEN Announce(s) ELSE shown
  <2>1. /\ waits' = [c \in Callers |-> IF c \in told THEN 0 ELSE waits[c]]
        /\ got' = [c \in Callers |-> IF c \in told THEN after ELSE got[c]]
        /\ slot' = IF slot = r.id THEN 0 ELSE slot
        /\ shown' = [h \in Hooks |->
                       IF h \in told /\ shown[h] # Unmounted THEN after ELSE rendered[h]]
    BY <1>6 DEF Respond
  <2>2. after \in Session /\ after = OrNull(cached')
    BY <1>1, <1>2, SessionTypes DEF Outcome, OrNull, Nobody
  <2>3. rendered \in [Hooks -> Session \cup {Unmounted}]
    BY <1>1 DEF Announce, TypeOK
  <2>4. \A h \in Hooks : /\ shown[h] = Unmounted => rendered[h] = Unmounted
                         /\ rendered[h] # Unmounted => rendered[h] = OrNull(cached')
    BY <1>1, <1>2 DEF Announce, HooksAgree, OrNull, Nobody
  <2>5. cached' \in [who : Subjects \cup {Null, Undefined}, by : Ids]
    BY <1>1, <1>2 DEF TypeOK, Session
  <2>6. TypeOK'
    BY <1>2, <2>1, <2>2, <2>3, <2>5, SessionTypes DEF TypeOK
  <2>7. HooksAgree'
    BY <2>1, <2>2, <2>4 DEF HooksAgree
  <2>8. NoOrphanWait'
    BY <1>2, <2>1 DEF NoOrphanWait, TypeOK
  <2>9. NewestAccounted'
    <3>1. CASE Newest(r)
      BY <1>1, <1>2, <1>3, <2>1, <3>1, SessionAssumption DEF NewestAccounted, Newest, Session
    <3>2. CASE ~Newest(r)
      <4>1. r.id < cached.by /\ cached' = cached
        BY <1>2, <1>6, <3>2, ResponseOrder
      <4> QED BY <1>1, <1>2, <1>3, <2>1, <4>1 DEF NewestAccounted
    <3> QED BY <3>1, <3>2
  <2> QED BY <1>4, <2>6, <2>7, <2>8, <2>9
<1> QED BY <1>5, <1>6

LEMMA NextPreserves == IInv /\ [Next]_vars => IInv'
<1> SUFFICES ASSUME IInv, [Next]_vars PROVE IInv'
  OBVIOUS
<1> USE DEF IInv
<1>1. ASSUME NEW c \in Callers \ Hooks, Abort(c) PROVE IInv'
  <2>1. TypeOK' /\ HooksAgree' /\ NoOrphanWait'
    BY <1>1, SessionTypes DEF Abort, TypeOK, HooksAgree, NoOrphanWait, OrNull, Nobody
  <2>2. OpenAccounted' /\ NewestAccounted'
    BY <1>1 DEF Abort, OpenAccounted, NewestAccounted
  <2> QED BY <2>1, <2>2
<1>2. ASSUME NEW c \in Callers \ Hooks, NEW force \in BOOLEAN, Get(c, force) PROVE IInv'
  <2>1. /\ shown' \in [Hooks -> Session \cup {Unmounted}]
        /\ \A h \in Hooks : shown'[h] # Unmounted => shown'[h] = OrNull(cached)
    BY <1>2 DEF Get, TypeOK, HooksAgree
  <2> QED BY <1>2, <2>1, AskPreserves DEF Get
<1>3. ASSUME NEW h \in Hooks, Mount(h) PROVE IInv'
  <2>1. /\ shown' \in [Hooks -> Session \cup {Unmounted}]
        /\ \A g \in Hooks : shown'[g] # Unmounted => shown'[g] = OrNull(cached)
    BY <1>3, SessionTypes DEF Mount, TypeOK, HooksAgree
  <2>2. h \in Callers
    BY SessionAssumption
  <2> QED BY <1>3, <2>1, <2>2, AskPreserves DEF Mount
<1>4. ASSUME NEW h \in Hooks, Unmount(h) PROVE IInv'
  <2>1. TypeOK' /\ HooksAgree' /\ NoOrphanWait'
    BY <1>4, SessionTypes DEF Unmount, TypeOK, HooksAgree, NoOrphanWait, OrNull, Nobody
  <2>2. OpenAccounted' /\ NewestAccounted'
    BY <1>4 DEF Unmount, OpenAccounted, NewestAccounted
  <2> QED BY <2>1, <2>2
<1>5. ASSUME NEW r \in open, NEW who \in Subjects \cup {Null}, Respond(r, who) PROVE IInv'
  BY <1>5, RespondPreserves
<1>6. ASSUME NEW who \in Subjects, Adopt(who) PROVE IInv'
  BY <1>6, StorePreserves DEF Adopt
<1>7. CASE SignOut
  BY <1>7, StorePreserves DEF SignOut, SignOutTelling
<1>8. CASE Expire
  <2>1. TypeOK' /\ HooksAgree' /\ NoOrphanWait'
    BY <1>8 DEF Expire, TypeOK, HooksAgree, NoOrphanWait, OrNull, Nobody
  <2>2. OpenAccounted' /\ NewestAccounted'
    BY <1>8 DEF Expire, OpenAccounted, NewestAccounted
  <2> QED BY <2>1, <2>2
<1>9. CASE UNCHANGED vars
  <2>1. TypeOK' /\ HooksAgree' /\ NoOrphanWait'
    BY <1>9 DEF vars, TypeOK, HooksAgree, NoOrphanWait, OrNull, Nobody
  <2>2. OpenAccounted' /\ NewestAccounted'
    BY <1>9 DEF vars, OpenAccounted, NewestAccounted
  <2> QED BY <2>1, <2>2
<1> QED BY <1>1, <1>2, <1>3, <1>4, <1>5, <1>6, <1>7, <1>8, <1>9 DEF Next

\* IInv holds in every reachable state.
THEOREM Invariance == Spec => []IInv
  BY InitEstablishes, NextPreserves, PTL DEF Spec

\* Every variable keeps its type.
THEOREM TypeCorrect == Spec => []TypeOK
  BY Invariance, PTL DEF IInv

\* Every mounted useAuth() hook renders the cached session (session.ts:228-250).
THEOREM HooksShowCache == Spec => []HooksAgree
  BY Invariance, PTL DEF IInv

\* Whoever waits, waits for a request that is still open (session.ts:170-198).
THEOREM NobodyStranded == Spec => []NoOrphanWait
  BY Invariance, PTL DEF IInv

\* No response, however late, replaces a newer session (session.ts:160-168).
THEOREM CacheAdvances == Spec => CacheOnlyAdvances
<1>1. IInv /\ [Next]_vars => [cached'.by > cached.by]_cached
  <2> SUFFICES ASSUME IInv, [Next]_vars, cached' # cached PROVE cached'.by > cached.by
    OBVIOUS
  <2>1. seq \in Nat /\ cached.by \in Nat /\ cached.by <= seq
    BY DEF IInv, TypeOK, NewestAccounted, Ids
  <2>2. ASSUME NEW who, NEW told, Store(who, told) PROVE cached'.by > cached.by
    BY <2>1, <2>2 DEF Store
  <2>3. ASSUME NEW r \in open, NEW who \in Subjects \cup {Null}, Respond(r, who)
        PROVE  cached'.by > cached.by
    BY <2>1, <2>3, ResponseOrder DEF Respond
  <2>4. /\ \A c \in Callers, force \in BOOLEAN : ~Get(c, force) /\ ~Abort(c)
        /\ \A h \in Hooks : ~Mount(h) /\ ~Unmount(h)
        /\ ~Expire
    BY DEF Get, Abort, Mount, Unmount, Expire
  <2> QED BY <2>2, <2>3, <2>4 DEF Next, Adopt, SignOut, SignOutTelling, vars
<1> QED BY <1>1, Invariance, PTL DEF Spec, CacheOnlyAdvances

\* Nobody receives an identity that was refused the cache or is older than the
\* request it waited for (session.ts:170-175).
THEOREM AnswersCurrent == Spec => AnswersAreCurrent
<1> DEFINE Current ==
      \A c \in Callers : open' # open /\ waits[c] # 0 /\ waits'[c] = 0 =>
          got'[c] = OrNull(cached') /\ got'[c].by >= waits[c]
<1>1. IInv /\ [Next]_vars => [Current]_vars
  <2> SUFFICES ASSUME IInv, Next,
                      NEW c \in Callers, open' # open, waits[c] # 0, waits'[c] = 0
               PROVE  got'[c] = OrNull(cached') /\ got'[c].by >= waits[c]
    OBVIOUS
  <2>1. ASSUME NEW r \in open, NEW who \in Subjects \cup {Null}, Respond(r, who)
        PROVE  got'[c] = OrNull(cached') /\ got'[c].by >= waits[c]
    <3> DEFINE s == [who |-> who, by |-> r.id]
    <3>1. /\ r.id \in Nat /\ slot \in Nat /\ cached.by \in Nat
          /\ s \in Session /\ s.by = r.id /\ OrNull(s) = s
      BY ResponseOrder, SessionTypes DEF IInv, TypeOK, Session
    <3>2. ~(~Newest(r) /\ Follows(r))
      BY <2>1, <3>1 DEF Respond, Follows
    <3>3. waits[c] = r.id /\ got'[c] = Outcome(r, s) /\ cached' = IF Newest(r) THEN s ELSE cached
      BY <2>1, <3>2 DEF Respond
    <3>4. CASE Newest(r)
      BY <3>1, <3>3, <3>4 DEF Outcome
    <3>5. CASE ~Newest(r)
      BY <3>1, <3>2, <3>3, <3>5, ResponseOrder, SessionTypes DEF Outcome, IInv
    <3> QED BY <3>4, <3>5
  <2>2. ASSUME NEW d \in Callers, NEW force, Ask(d, force) PROVE FALSE
    BY <2>2, SessionTypes DEF Ask, Deliver, Join, Request, IInv, TypeOK
  <2>3. ASSUME NEW who, NEW told, Store(who, told) PROVE FALSE
    BY <2>3 DEF Store
  <2>4. ~Expire /\ (\A d \in Callers : ~Abort(d)) /\ \A h \in Hooks : ~Unmount(h)
    BY DEF Expire, Abort, Unmount
  <2> QED BY <2>1, <2>2, <2>3, <2>4, SessionAssumption
      DEF Next, Get, Mount, Adopt, SignOut, SignOutTelling
<1> QED BY <1>1, Invariance, PTL DEF Spec, AnswersAreCurrent
=============================================================================
