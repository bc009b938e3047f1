---------------------------- MODULE AuthSession -----------------------------
(***************************************************************************)
(* The browser's cached sign-in (frontend/src/auth/session.ts): a cache,   *)
(* one shared refresh that forced refreshes overtake, adoption of a        *)
(* session issued by an OAuth exchange, sign-out, and the useAuth hook.    *)
(*                                                                         *)
(* A session is who is signed in and "by", the ghost number of the request,*)
(* adoption or sign-out it came from; numbers grow in the order those      *)
(* began, so "newer" is a comparison.                                      *)
(***************************************************************************)
EXTENDS Naturals

CONSTANTS
    Callers,    \* getAuthSession() calls, each waiting for at most one request
    Hooks,      \* the callers that are useAuth() hooks
    Subjects,
    Null,       \* signed out
    Undefined,  \* not known yet
    Unmounted,  \* what a hook that is not mounted shows
    MaxSeq,     \* bound: requests, adoptions and sign-outs
    MaxEpoch    \* bound: sign-outs

ASSUME SessionAssumption ==
    /\ MaxSeq \in Nat /\ MaxEpoch \in Nat
    /\ Hooks \subseteq Callers
    /\ Null \notin Subjects /\ Undefined \notin Subjects /\ Null # Undefined

VARIABLES
    cached,     \* cachedSession
    fresh,      \* it is not within SESSION_REFRESH_SKEW_MS of its expiry
    seq,        \* requestSequence
    latest,     \* latestRequestId
    epoch,      \* sessionEpoch
    slot,       \* the id of sessionRequest, 0 for none
    open,       \* requests whose response has not arrived, with their epoch
    waits,      \* the request each caller awaits, 0 for none
    got,        \* the session each caller's promise last resolved to
    shown       \* what each hook renders

vars == <<cached, fresh, seq, latest, epoch, slot, open, waits, got, shown>>

Ids == 0..MaxSeq
Session == [who : Subjects \cup {Null}, by : Ids]
Nobody == [who |-> Null, by |-> 0]

TypeOK ==
    /\ cached \in [who : Subjects \cup {Null, Undefined}, by : Ids]
    /\ fresh \in BOOLEAN
    /\ seq \in Ids /\ latest \in Ids /\ slot \in Ids
    /\ epoch \in 0..MaxEpoch
    /\ open \in SUBSET [id : Ids, epoch : 0..MaxEpoch]
    /\ waits \in [Callers -> Ids]
    /\ got \in [Callers -> Session]
    /\ shown \in [Hooks -> Session \cup {Unmounted}]

Init ==
    /\ cached = [who |-> Undefined, by |-> 0]
    /\ fresh = TRUE
    /\ seq = 0 /\ latest = 0 /\ slot = 0 /\ epoch = 0
    /\ open = {}
    /\ waits = [c \in Callers |-> 0]
    /\ got = [c \in Callers |-> Nobody]
    /\ shown = [h \in Hooks |-> Unmounted]

OrNull_Raw(s) == s

\* cachedSession ?? null
OrNull(s) == IF s.who = Undefined THEN Nobody ELSE s

-----------------------------------------------------------------------------
(* getAuthSession().                                                       *)

\* announceSession(): every mounted hook renders the cache.
Announce(s) == [h \in Hooks |-> IF shown[h] = Unmounted THEN Unmounted ELSE s]

Hit == cached.who # Undefined /\ fresh

\* Caller c's promise has resolved to s.
Deliver(c, s) ==
    /\ got' = [got EXCEPT ![c] = s]
    /\ UNCHANGED <<seq, latest, slot, open, waits>>

Join(c) ==
    /\ waits' = [waits EXCEPT ![c] = slot]
    /\ UNCHANGED <<seq, latest, slot, open, got>>

Request(c) ==
    /\ seq < MaxSeq
    /\ seq' = seq + 1
    /\ latest' = seq + 1
    /\ slot' = seq + 1
    /\ open' = open \cup {[id |-> seq + 1, epoch |-> epoch]}
    /\ waits' = [waits EXCEPT ![c] = seq + 1]
    /\ UNCHANGED got

Ask(c, force) ==
    /\ waits[c] = 0
    /\ \/ ~force /\ Hit /\ Deliver(c, cached)
       \/ ~force /\ ~Hit /\ slot # 0 /\ Join(c)
       \/ ~force /\ ~Hit /\ slot = 0 /\ Request(c)
       \/ force /\ Request(c)

Get(c, force) ==
    /\ Ask(c, force)
    /\ UNCHANGED <<cached, fresh, epoch, shown>>

\* A caller's AbortSignal ends its wait and nothing else.
Abort(c) ==
    /\ waits[c] # 0
    /\ waits' = [waits EXCEPT ![c] = 0]
    /\ UNCHANGED <<cached, fresh, seq, latest, epoch, slot, open, got, shown>>

-----------------------------------------------------------------------------
(* The response to a request, or its failure, which counts as signed out.  *)

Newest_IgnoresOrder(r) == r.epoch = epoch

Newest(r) == r.id = latest /\ r.epoch = epoch

\* A caller of an overtaken request waits for the newer one in the slot.
Follows_Itself(r) == r.epoch = epoch /\ slot >= r.id

Follows_Never(r) == FALSE

Follows(r) == r.epoch = epoch /\ slot > r.id

Outcome_OwnIdentity(r, s) == s

\* What request r's promise resolves to when its response says s.
Outcome(r, s) == IF Newest(r) THEN s ELSE OrNull(cached)

Respond(r, who) ==
    LET s == [who |-> who, by |-> r.id]
        told == {c \in Callers : waits[c] = r.id}
        after == Outcome(r, s)
        rendered == IF Newest(r) THEN Announce(s) ELSE shown
    IN
    /\ open' = open \ {r}
    /\ cached' = IF Newest(r) THEN s ELSE cached
    /\ fresh' = (fresh \/ Newest(r))
    /\ IF ~Newest(r) /\ Follows(r)
       THEN /\ waits' = [c \in Callers |-> IF c \in told THEN slot ELSE waits[c]]
            /\ UNCHANGED <<slot, got, shown>>
       ELSE /\ waits' = [c \in Callers |-> IF c \in told THEN 0 ELSE waits[c]]
            /\ got' = [c \in Callers |-> IF c \in told THEN after ELSE got[c]]
            /\ slot' = IF slot = r.id THEN 0 ELSE slot
            /\ shown' = [h \in Hooks |->
                           IF h \in told /\ shown[h] # Unmounted THEN after ELSE rendered[h]]
    /\ UNCHANGED <<seq, latest, epoch>>

-----------------------------------------------------------------------------
(* Other writers of the cache.                                             *)

\* The cache is set to a session that no request brought.
Store(who, told) ==
    /\ seq < MaxSeq
    /\ seq' = seq + 1
    /\ latest' = seq + 1
    /\ cached' = [who |-> who, by |-> seq + 1]
    /\ fresh' = TRUE
    /\ shown' = told
    /\ UNCHANGED <<open, waits, got>>

\* adoptSession(): a session issued to this page by the same-origin API.
Adopt(who) ==
    /\ Store(who, Announce([who |-> who, by |-> seq + 1]))
    /\ UNCHANGED <<epoch, slot>>

SignOutTelling(told) ==
    /\ epoch < MaxEpoch
    /\ epoch' = epoch + 1
    /\ slot' = 0
    /\ Store(Null, told)

SignOut_Silent == SignOutTelling(shown)

SignOut == SignOutTelling(Announce([who |-> Null, by |-> seq + 1]))

\* The cached token comes close to its expiry.
Expire ==
    /\ fresh /\ cached.who \in Subjects
    /\ seq < MaxSeq             \* bound: leave a number for the refresh
    /\ fresh' = FALSE
    /\ UNCHANGED <<cached, seq, latest, epoch, slot, open, waits, got, shown>>

\* useAuth() renders the cache, and its effect asks for the session; after an
\* unmount the answer is ignored.
Mount(h) ==
    /\ shown[h] = Unmounted
    /\ shown' = [shown EXCEPT ![h] = OrNull(cached)]
    /\ Ask(h, FALSE)
    /\ UNCHANGED <<cached, fresh, epoch>>

Unmount(h) ==
    /\ shown[h] # Unmounted
    /\ shown' = [shown EXCEPT ![h] = Unmounted]
    /\ waits' = [waits EXCEPT ![h] = 0]
    /\ UNCHANGED <<cached, fresh, seq, latest, epoch, slot, open, got>>

Next ==
    \/ \E c \in Callers \ Hooks : Abort(c) \/ \E force \in BOOLEAN : Get(c, force)
    \/ \E h \in Hooks : Mount(h) \/ Unmount(h)
    \/ \E r \in open, who \in Subjects \cup {Null} : Respond(r, who)
    \/ \E who \in Subjects : Adopt(who)
    \/ SignOut
    \/ Expire

\* fetch() settles; nothing else is obliged to happen.
Fairness ==
    \A i \in 1..MaxSeq, e \in 0..MaxEpoch :
        WF_vars(\E who \in Subjects \cup {Null} :
                    [id |-> i, epoch |-> e] \in open /\ Respond([id |-> i, epoch |-> e], who))

Spec == Init /\ [][Next]_vars
FairSpec == Spec /\ Fairness

-----------------------------------------------------------------------------
(* Properties.                                                             *)

\* The cache never goes back to an answer older than the one it holds: not
\* after an overtaken refresh, an adoption, or a sign-out (session.ts:160-168).
CacheOnlyAdvances == [][cached'.by > cached.by]_cached

\* A promise never resolves to an identity that was refused the cache, nor to
\* one older than the request awaited: callers of an overtaken request get the
\* winning one's answer (session.ts:171-175).
AnswersAreCurrent ==
    [][\A c \in Callers : open' # open /\ waits[c] # 0 /\ waits'[c] = 0 =>
          got'[c] = OrNull(cached') /\ got'[c].by >= waits[c]]_vars

\* Every mounted hook renders the cached session, so the page never shows a
\* user the store and the persistence room have already left.
HooksAgree ==
    \A h \in Hooks : shown[h] # Unmounted => shown[h] = OrNull(cached)

\* Every caller that does not give up is answered: overtaken requests never
\* form a chain that leads nowhere.
EveryCallerAnswered == \A c \in Callers : waits[c] # 0 ~> waits[c] = 0

\* Whoever waits, waits for a request whose response is still to come.
NoOrphanWait ==
    \A c \in Callers : waits[c] # 0 => \E r \in open : r.id = waits[c]

-----------------------------------------------------------------------------
(* The inductive invariant the proofs use.                                 *)

\* Requests in flight are numbered by the sequence and by their epoch; a
\* request of an earlier epoch is older than the sign-out that ended it.
OpenAccounted ==
    \A r \in open :
        /\ 0 < r.id /\ r.id <= latest
        /\ r.id = latest => cached.by < latest
        /\ r.epoch # epoch => r.id < cached.by

\* The cache holds the newest number, or the newest request is in the slot
\* and will bring it.
NewestAccounted ==
    /\ latest <= seq
    /\ cached.by <= latest
    /\ slot <= latest
    /\ slot # 0 => \E r \in open : r.id = slot
    /\ cached.by < latest => slot = latest
    /\ cached.who = Undefined => cached.by = 0

IInv == TypeOK /\ HooksAgree /\ NoOrphanWait /\ OpenAccounted /\ NewestAccounted
=============================================================================
