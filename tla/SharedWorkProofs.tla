---------------------------- MODULE SharedWorkProofs ----------------------------
(***************************************************************************)
(* Proofs about the parts of MCShared, whose calls share work: whatever    *)
(* callers, keys, quantities, providers and compilations there are, one    *)
(* search or task does the work of many calls, and each has its own        *)
(* answer.                                                                 *)
(***************************************************************************)
EXTENDS MCShared, SequenceTheorems, TLAPS

\* a sequence with one element changed
LEMMA Patched ==
    ASSUME NEW S, NEW s \in Seq(S), NEW i, NEW x, i \in DOMAIN s => x \in S, NEW t, t = [s EXCEPT ![i] = x]
    PROVE  /\ t \in Seq(S) /\ Len(t) = Len(s) /\ DOMAIN t = DOMAIN s /\ DOMAIN s = 1..Len(s) /\ Len(s) \in Nat
           /\ \A j \in DOMAIN s : t[j] = IF j = i THEN x ELSE s[j]
<1>1. DOMAIN s = 1..Len(s) /\ Len(s) \in Nat
  OBVIOUS
<1>2. CASE i \in DOMAIN s
  BY <1>1, <1>2, ExceptSeq
<1>3. CASE i \notin DOMAIN s
  <2>1. t = s
    BY <1>1, <1>3
  <2> QED
    BY <1>1, <1>3, <2>1
<1> QED
  BY <1>2, <1>3

(***************************************************************************)
(* The searches of a page: the request that nobody aborted is the active   *)
(* one.                                                                    *)
(***************************************************************************)
SearchRuns == [query : SearchQueries, aborted : BOOLEAN, stage : {"first", "second", "kept", "over"}]
SearchInv == runs \in Seq(SearchRuns) /\ active \in DOMAIN runs \cup {None} /\ Search!OneSearchRuns

\* a request that is aborted, or advances, while the active one stays or ends
LEMMA RunChanges ==
    ASSUME SearchInv, NEW r, NEW x, runs' = [runs EXCEPT ![r] = x], r \in DOMAIN runs => x \in SearchRuns,
           active' \in {active, None}, r \in DOMAIN runs /\ x.stage # "over" /\ ~x.aborted => Search!Running(r) /\ ~runs[r].aborted,
           active' # active => r \in DOMAIN runs /\ active = r /\ (x.aborted \/ x.stage = "over")
    PROVE  SearchInv'
<1>1. /\ runs' \in Seq(SearchRuns) /\ DOMAIN runs' = DOMAIN runs
      /\ \A j \in DOMAIN runs : runs'[j] = IF j = r THEN x ELSE runs[j]
  BY Patched DEF SearchInv
<1> QED
  BY <1>1 DEF SearchInv, Search!OneSearchRuns, Search!Running

LEMMA SearchStep == ASSUME SearchInv, Search!SearchNext PROVE SearchInv'
<1> USE DeskAssumption DEF SearchInv
<1>0. runs \in Seq(SearchRuns) /\ DOMAIN runs = 1..Len(runs) /\ Len(runs) \in Nat /\ \A r \in DOMAIN runs : runs[r] \in SearchRuns
  BY ElementOfSeq DEF SearchInv
<1>1. ASSUME NEW c, NEW q \in SearchQueries, NEW force \in BOOLEAN, Search!Submit(c, q, force) PROVE SearchInv'
  <2>1. CASE UNCHANGED <<runs, active>>
    BY <2>1 DEF Search!OneSearchRuns, Search!Running
  <2>2. CASE Search!Start(c, q, force)
    <3>1. ~force => ~Search!Shares(q)
      <4>1. CASE UNCHANGED <<runs, active>>
        BY <1>0, <2>2, <4>1 DEF Search!Start
      <4> QED
        BY <1>1, <4>1 DEF Search!Submit, Search!Share, Search!CacheHit
    <3>2. PICK left : left = IF Search!Overtakes(q, force) THEN Search!Aborted(active) ELSE runs
      OBVIOUS
    <3>3. PICK new : new = [query |-> q, aborted |-> FALSE, stage |-> IF ~force /\ q \in kept[user] THEN "kept" ELSE "first"]
      OBVIOUS
    <3>4. runs' = Append(left, new) /\ active' = Len(runs) + 1
      BY <2>2, <3>2, <3>3 DEF Search!Start
    <3>5. /\ left \in Seq(SearchRuns) /\ Len(left) = Len(runs) /\ new \in SearchRuns
          /\ \A r \in 1..Len(left) : left[r].stage # "over" => left[r].aborted
      <4>1. new \in SearchRuns
        BY <3>3 DEF SearchRuns
      <4>2. CASE Search!Overtakes(q, force)
        <5>1. active \in 1..Len(runs) /\ left = [runs EXCEPT ![active].aborted = TRUE]
          BY <1>0, <3>2, <4>2 DEF Search!Overtakes, Search!Aborted
        <5>2. runs[active] \in SearchRuns
          BY <1>0, <5>1
        <5>3. /\ left \in Seq(SearchRuns) /\ Len(left) = Len(runs)
              /\ \A r \in DOMAIN runs : left[r] = IF r = active THEN [runs[active] EXCEPT !.aborted = TRUE] ELSE runs[r]
          <6>1. [runs[active] EXCEPT !.aborted = TRUE] \in SearchRuns
            BY <5>2 DEF SearchRuns
          <6> QED
            BY <1>0, <5>1, <6>1, Patched
        <5> QED
          BY <1>0, <4>1, <5>1, <5>2, <5>3 DEF Search!OneSearchRuns, Search!Running, SearchRuns
      <4>3. CASE ~Search!Overtakes(q, force)
        <5>1. active # None => runs[active].query = q /\ ~force /\ runs[active].aborted
          BY <3>1, <4>3 DEF Search!Overtakes, Search!Shares
        <5> QED
          BY <1>0, <3>2, <4>1, <4>3, <5>1 DEF Search!OneSearchRuns, Search!Running
      <4> QED
        BY <4>2, <4>3
    <3>6. /\ runs' \in Seq(SearchRuns) /\ Len(runs') = Len(runs) + 1
          /\ \A r \in 1..Len(runs) : runs'[r] = left[r]
      BY <3>4, <3>5, AppendProperties
    <3> QED
      BY <1>0, <3>4, <3>5, <3>6 DEF Search!OneSearchRuns, Search!Running
  <2> QED
    BY <1>1, <2>1, <2>2 DEF Search!Submit, Search!Share, Search!CacheHit
<1>2. ASSUME NEW r, runs' = Search!Aborted(r), active' \in {active, None}, active' # active => active = r PROVE SearchInv'
  <2>1. r \in DOMAIN runs => runs[r] \in SearchRuns
    BY <1>0
  <2>2. PICK x : x = [runs[r] EXCEPT !.aborted = TRUE]
    OBVIOUS
  <2>3. r \in DOMAIN runs => x \in SearchRuns /\ x.aborted
    BY <2>1, <2>2 DEF SearchRuns
  <2>4. runs' = [runs EXCEPT ![r] = x]
    BY <1>2, <2>2 DEF Search!Aborted
  <2>5. active' # active => r \in DOMAIN runs
    BY <1>2
  <2> HIDE DEF SearchInv
  <2> QED
    BY <1>2, <2>3, <2>4, <2>5, RunChanges
<1>3. ASSUME NEW c, Search!AbortCall(c) PROVE SearchInv'
  <2>1. CASE calls[c].own
    BY <1>2, <1>3, <2>1 DEF Search!AbortCall
  <2>2. CASE ~calls[c].own
    BY <1>3, <2>2 DEF Search!AbortCall, Search!OneSearchRuns, Search!Running
  <2> QED
    BY <2>1, <2>2
<1>4. CASE Search!Cancel
  BY <1>2, <1>4 DEF Search!Cancel
<1>5. ASSUME NEW r \in DOMAIN runs, NEW x, x \in {"second", "over"}, runs' = [runs EXCEPT ![r].stage = x], ~runs[r].aborted \/ x = "over",
             active' = active \/ (active = r /\ active' = None /\ x = "over"), Search!Running(r)
      PROVE  SearchInv'
  <2>1. runs[r] \in SearchRuns
    BY <1>0
  <2>2. PICK y : y = [runs[r] EXCEPT !.stage = x]
    OBVIOUS
  <2>3. y \in SearchRuns /\ y.aborted = runs[r].aborted /\ y.stage = x
    BY <1>5, <2>1, <2>2 DEF SearchRuns
  <2>4. runs' = [runs EXCEPT ![r] = y]
    BY <1>5, <2>2
  <2> HIDE DEF SearchInv
  <2> QED
    BY <1>5, <2>3, <2>4, RunChanges
<1>7. ASSUME NEW r \in DOMAIN runs, Search!Retry(r) PROVE SearchInv'
  BY <1>5, <1>7 DEF Search!Retry, Search!Running
<1>8. ASSUME NEW r \in DOMAIN runs, NEW response, Search!Respond(r, response) PROVE SearchInv'
  BY <1>5, <1>8 DEF Search!Respond
<1>6. CASE UNCHANGED <<runs, active>>
  BY <1>6 DEF Search!OneSearchRuns, Search!Running
<1> QED
  BY <1>1, <1>3, <1>4, <1>6, <1>7, <1>8 DEF Search!SearchNext, Search!ForgetCached, Search!ForgetKept, Search!SwitchUser

(***************************************************************************)
(* The registry: at most one registration is under way, and it decides     *)
(* about the tools that are live; after it, tools that work are those of   *)
(* the registered context.                                                 *)
(***************************************************************************)
UnderWay(c, o) ==
    /\ runs = {[generation |-> generation, context |-> c, outcome |-> o]}
    /\ live = {[context |-> c, generation |-> generation, complete |-> o # "failed"]}
    /\ c # None /\ state = "checking"
RegistryInv ==
    /\ Registry!RegistrationIsTrue
    /\ inFlight = (runs # {}) /\ host \in Contexts \cup {None}
    /\ \/ runs = {} /\ \A x \in live : x.context # None /\ (x.complete => state = "native" /\ registered = x.context)
       \/ \E c \in Contexts \cup {None}, o \in {"pending", "all", "failed"} : UnderWay(c, o)

\* a registration begins only when none is under way and none is in force
LEMMA RegisterStep == ASSUME RegistryInv, NEW pending, ~Registry!Ensured, Registry!Register(pending) PROVE RegistryInv'
<1>1. runs = {} /\ ~inFlight /\ ~gap
  BY DEF RegistryInv, Registry!RegistrationIsTrue, Registry!Ensured
<1>2. \A x \in live : x.context # None /\ (x.complete => state = "native" /\ registered = x.context)
  BY <1>1 DEF RegistryInv, UnderWay
<1>3. ~\E x \in live : x.context = host /\ x.complete
  BY <1>2 DEF Registry!Ensured, Registry!Done
<1>4. ~gap'
  BY <1>1, <1>3 DEF Registry!Register
<1>5. CASE host = None
  BY <1>1, <1>4, <1>5 DEF Registry!Register, RegistryInv, Registry!RegistrationIsTrue
<1>6. CASE host # None
  <2>1. /\ live' = {[context |-> host, generation |-> generation', complete |-> TRUE]}
        /\ runs' = {[generation |-> generation', context |-> host, outcome |-> "pending"]}
        /\ state' = "checking" /\ inFlight' = TRUE
    BY <1>1, <1>6 DEF Registry!Register
  <2>2. host \in Contexts \cup {None}
    BY DEF RegistryInv
  <2>3. UnderWay(host, "pending")'
    BY <1>6, <2>1 DEF UnderWay, Registry!Register
  <2>4. PICK o \in {"pending", "all", "failed"} : o = "pending"
    OBVIOUS
  <2>5. UnderWay(host, o)' /\ host' = host /\ runs' # {}
    BY <1>6, <2>1, <2>3, <2>4 DEF Registry!Register
  <2> QED
    BY <1>4, <2>1, <2>2, <2>4, <2>5 DEF RegistryInv, Registry!RegistrationIsTrue
<1> QED
  BY <1>5, <1>6

LEMMA RegistryStep == ASSUME RegistryInv, Registry!RegistryNext PROVE RegistryInv'
<1>1. ASSUME host' \in Contexts \cup {None}, UNCHANGED <<live, generation, runs, inFlight, registered, state, gap>> PROVE RegistryInv'
  BY <1>1 DEF RegistryInv, UnderWay, Registry!RegistrationIsTrue
<1>0. host \in Contexts \cup {None}
  BY DEF RegistryInv
<1>2. ASSUME Registry!EnsureWebMCPRegistration PROVE RegistryInv'
  BY <1>0, <1>1, <1>2, RegisterStep DEF Registry!EnsureWebMCPRegistration, Registry!Idle
<1>3. CASE Registry!TimerFires
  BY <1>0, <1>1, <1>3, RegisterStep DEF Registry!TimerFires, Registry!Idle
<1>4. ASSUME NEW r \in runs, NEW ok \in BOOLEAN, Registry!Answered(r, ok) PROVE RegistryInv'
  <2>1. PICK c \in Contexts \cup {None}, o \in {"pending", "all", "failed"} : UnderWay(c, o)
    BY <1>4 DEF RegistryInv
  <2>2. r = [generation |-> generation, context |-> c, outcome |-> "pending"] /\ runs = {r}
    BY <1>4, <2>1 DEF UnderWay, Registry!Answered
  <2>3. PICK p : p = IF ok THEN "all" ELSE "failed"
    OBVIOUS
  <2>4. runs' = {[generation |-> generation, context |-> c, outcome |-> p]}
    BY <1>4, <2>2, <2>3 DEF Registry!Answered
  <2>5. live' = {[context |-> c, generation |-> generation, complete |-> p # "failed"]}
    BY <1>4, <2>1, <2>2, <2>3 DEF UnderWay, Registry!Answered
  <2>6. UnderWay(c, p)'
    BY <1>4, <2>1, <2>4, <2>5 DEF UnderWay, Registry!Answered
  <2>7. p \in {"pending", "all", "failed"} /\ runs' # {}
    BY <2>3, <2>4
  <2>8. c \in Contexts \cup {None} /\ state' = "checking" /\ ~gap' /\ inFlight'
    BY <1>4, <2>1, <2>2 DEF UnderWay, Registry!Answered, RegistryInv, Registry!RegistrationIsTrue
  <2> QED
    BY <1>0, <1>4, <2>6, <2>7, <2>8 DEF RegistryInv, Registry!RegistrationIsTrue, Registry!Answered
<1>5. ASSUME NEW r \in runs, NEW same \in BOOLEAN, Registry!Discovered(r, same) PROVE RegistryInv'
  <2>1. PICK c \in Contexts \cup {None}, o \in {"pending", "all", "failed"} : UnderWay(c, o)
    BY <1>5 DEF RegistryInv
  <2>2. r = [generation |-> generation, context |-> c, outcome |-> o] /\ runs' = {} /\ inFlight' = FALSE /\ ~gap'
    BY <1>5, <2>1 DEF UnderWay, Registry!Discovered, RegistryInv, Registry!RegistrationIsTrue
  <2>3. live' = {[context |-> c, generation |-> generation, complete |-> o # "failed"]}
    BY <1>5, <2>1 DEF UnderWay, Registry!Discovered
  <2>4. o = "all" => registered' = c /\ state' = "native"
    BY <1>5, <2>2 DEF Registry!Discovered, Registry!StateAfter
  <2>5. o # "all" => o = "failed" /\ state' = "error"
    BY <1>5, <2>1, <2>2 DEF Registry!Discovered, Registry!StateAfter
  <2>6. c # None
    BY <2>1 DEF UnderWay
  <2>7. PICK x : x = [context |-> c, generation |-> generation, complete |-> o # "failed"]
    OBVIOUS
  <2>8. live' = {x} /\ x.context = c /\ x.complete = (o # "failed") /\ host' = host
    BY <1>5, <2>3, <2>7 DEF Registry!Discovered
  <2>9. CASE o = "all"
    BY <1>0, <2>2, <2>4, <2>6, <2>8, <2>9 DEF RegistryInv, Registry!RegistrationIsTrue
  <2>10. CASE o # "all"
    BY <1>0, <2>2, <2>5, <2>6, <2>8, <2>10 DEF RegistryInv, Registry!RegistrationIsTrue
  <2> QED
    BY <2>9, <2>10
<1>6. CASE Registry!Wakes
  BY <1>2, <1>6 DEF Registry!Wakes
<1>7. ASSUME NEW same \in BOOLEAN, Registry!Inspects(same) PROVE RegistryInv'
  BY <1>0, <1>1, <1>7 DEF Registry!Inspects
<1>8. ASSUME NEW c \in Contexts \cup {None}, Registry!HostChanges(c) PROVE RegistryInv'
  BY <1>1, <1>8 DEF Registry!HostChanges
<1> QED
  BY <1>2, <1>3, <1>4, <1>5, <1>6, <1>7, <1>8 DEF Registry!RegistryNext

(***************************************************************************)
(* The listings of the server: a key's task that is not done is the one in *)
(* flight, and an entry of the cache is of a task that succeeded.          *)
(***************************************************************************)
ListingRuns == [key : ListingKeys, payload : {"json", "raw"}, outcome : Route!Outcomes \cup {None}]
Entry == [key : ListingKeys, run : Nat]
Requested == [key : ListingKeys \cup {None}, run : Nat \cup {None}, cached : BOOLEAN, answer : {None, "refused", "listed", "error"}, since : SUBSET Nat]
OfSuccess(k, r) == r \in DOMAIN runs /\ runs[r].key = k /\ runs[r].outcome \in Route!Successes
EntriesInv(entries) ==
    /\ entries \in Seq(Entry)
    /\ \A i, j \in DOMAIN entries : entries[i].key = entries[j].key => i = j
    /\ \A i \in DOMAIN entries : OfSuccess(entries[i].key, entries[i].run)
RequestInv(c) ==
    /\ c.run = None => c.answer = "refused"
    /\ c.run # None =>
          /\ c.run \in DOMAIN runs /\ runs[c.run].key = c.key /\ c.run \notin c.since
          /\ c.cached => OfSuccess(c.key, c.run)
FlightsInv ==
    /\ runs \in Seq(ListingRuns) /\ active \in [ListingKeys -> Nat \cup {None}]
    /\ \A r \in DOMAIN runs : ~Route!Done(r) => active[runs[r].key] = r
    /\ \A k \in ListingKeys : active[k] # None => active[k] \in DOMAIN runs /\ runs[active[k]].key = k
RequestsInv == calls \in Seq(Requested) /\ \A c \in DOMAIN calls : RequestInv(calls[c])
RouteInv == FlightsInv /\ RequestsInv /\ EntriesInv(cache) /\ Len(cache) <= MaxCached

\* the tasks that there are stay, and what is done stays as it is
RunsStay ==
    \A r \in DOMAIN runs :
        r \in DOMAIN runs' /\ runs'[r].key = runs[r].key /\ (Route!Done(r) => runs'[r].outcome = runs[r].outcome)

LEMMA SuccessesStay == ASSUME RunsStay, NEW k, NEW r, OfSuccess(k, r) PROVE OfSuccess(k, r)'
BY ListingsAssumption DEF RunsStay, OfSuccess, Route!Done, Route!Successes, Route!Outcomes

LEMMA EntriesStay == ASSUME NEW es, EntriesInv(es), RunsStay, cache' = es PROVE EntriesInv(cache)'
<1>1. \A i \in DOMAIN es : OfSuccess(es[i].key, es[i].run)'
  BY SuccessesStay DEF EntriesInv
<1> QED
  BY <1>1 DEF EntriesInv

LEMMA RequestStays == ASSUME NEW c, RequestInv(c), RunsStay PROVE RequestInv(c)'
<1>1. CASE c.run = None
  BY <1>1 DEF RequestInv
<1>2. CASE c.run # None
  <2>1. c.run \in DOMAIN runs' /\ runs'[c.run].key = c.key
    BY <1>2 DEF RequestInv, RunsStay
  <2> QED
    BY <1>2, <2>1, SuccessesStay DEF RequestInv
<1> QED
  BY <1>1, <1>2

LEMMA WithoutEntry ==
    ASSUME NEW k, EntriesInv(cache)
    PROVE  /\ EntriesInv(Route!Without(k)) /\ \A i \in DOMAIN Route!Without(k) : Route!Without(k)[i].key # k
           /\ Len(Route!Without(k)) = IF Route!Entries(k) = {} THEN Len(cache) ELSE Len(cache) - 1
<1>1. cache \in Seq(Entry) /\ Len(cache) \in Nat /\ DOMAIN cache = 1..Len(cache)
  BY DEF EntriesInv
<1>2. PICK w : w = Route!Without(k)
  OBVIOUS
<1>3. CASE Route!Entries(k) = {}
  BY <1>3 DEF Route!Without, Route!Entries
<1>4. CASE Route!Entries(k) # {}
  <2>1. PICK n : n = CHOOSE i \in Route!Entries(k) : TRUE
    OBVIOUS
  <2>2. n \in 1..Len(cache) /\ cache[n].key = k
    BY <1>1, <1>4, <2>1 DEF Route!Entries
  <2>3. PICK l, r : l = SubSeq(cache, 1, n - 1) /\ r = SubSeq(cache, n + 1, Len(cache))
    OBVIOUS
  <2>4. w = l \o r
    BY <1>2, <1>4, <2>1, <2>3 DEF Route!Without, Route!RemoveAt
  <2>5. l \in Seq(Entry) /\ Len(l) = n - 1 /\ \A i \in 1..(n - 1) : l[i] = cache[i]
    <3>1. \A i \in 1..(n - 1) : cache[i] \in Entry
      BY <1>1, <2>2
    <3> QED
      BY <1>1, <2>2, <2>3, <3>1, SubSeqProperties
  <2>6. r \in Seq(Entry) /\ Len(r) = Len(cache) - n /\ \A i \in 1..(Len(cache) - n) : r[i] = cache[n + i]
    <3>1. \A i \in (n + 1)..Len(cache) : cache[i] \in Entry
      BY <1>1, <2>2
    <3>2. PICK z : z = Len(cache)
      OBVIOUS
    <3>3. n \in 1..z /\ z \in Nat
      BY <1>1, <2>2, <3>2, Zenon
    <3>4. /\ r \in Seq(Entry) /\ Len(r) = IF n + 1 <= z THEN z - (n + 1) + 1 ELSE 0
          /\ \A i \in 1..(z - (n + 1) + 1) : r[i] = cache[(n + 1) + i - 1]
      BY <1>1, <2>2, <2>3, <3>1, <3>2, <3>3, SubSeqProperties
    <3>5. ASSUME NEW i \in 1..(z - n) PROVE r[i] = cache[n + i]
      <4>1. i \in 1..(z - (n + 1) + 1) /\ (n + 1) + i - 1 = n + i
        BY <3>3
      <4> QED
        BY <3>4, <4>1
    <3>6. Len(r) = z - n
      <4>1. CASE n + 1 <= z
        BY <3>3, <3>4, <4>1
      <4>2. CASE ~(n + 1 <= z)
        BY <3>3, <3>4, <4>2
      <4> QED
        BY <4>1, <4>2
    <3> QED
      BY <3>2, <3>4, <3>5, <3>6, Zenon
  <2>7. w \in Seq(Entry) /\ Len(w) = Len(cache) - 1 /\ DOMAIN w = 1..(Len(cache) - 1)
    <3>1. w \in Seq(Entry) /\ Len(w) = Len(l) + Len(r)
      BY <2>4, <2>5, <2>6, ConcatProperties
    <3>2. Len(w) = Len(cache) - 1
      BY <1>1, <2>2, <2>5, <2>6, <3>1
    <3>3. DOMAIN w = 1..Len(w)
      BY <3>1
    <3> QED
      BY <3>1, <3>2, <3>3
  <2>8. \A i \in 1..(Len(cache) - 1) : w[i] = cache[IF i < n THEN i ELSE i + 1]
    <3> SUFFICES ASSUME NEW i \in 1..(Len(cache) - 1) PROVE w[i] = cache[IF i < n THEN i ELSE i + 1]
      OBVIOUS
    <3>1. CASE i < n
      <4>1. i \in 1..Len(l) /\ i \in 1..(n - 1)
        BY <2>2, <2>5, <3>1
      <4>2. w[i] = l[i]
        BY <2>4, <2>5, <2>6, <4>1, ConcatProperties
      <4> QED
        BY <2>5, <3>1, <4>1, <4>2
    <3>2. CASE ~(i < n)
      <4>1. i > Len(l) /\ i - Len(l) \in 1..(Len(cache) - n) /\ n + (i - Len(l)) = i + 1 /\ i \in 1..(Len(l) + Len(r))
        BY <1>1, <2>2, <2>5, <2>6, <3>2
      <4>2. w[i] = r[i - Len(l)]
        BY <2>4, <2>5, <2>6, <4>1, ConcatProperties
      <4> QED
        BY <2>6, <3>2, <4>1, <4>2
    <3> QED
      BY <3>1, <3>2
  <2> DEFINE d(i) == IF i < n THEN i ELSE i + 1
  <2>9. \A i \in 1..(Len(cache) - 1) : d(i) \in 1..Len(cache) /\ d(i) # n
    BY <1>1, <2>2
  <2>10. \A i, j \in 1..(Len(cache) - 1) : d(i) = d(j) => i = j
    BY <1>1, <2>2
  <2>11. \A i \in 1..(Len(cache) - 1) : w[i] = cache[d(i)]
    BY <2>8
  <2> HIDE DEF d
  <2>12. EntriesInv(w)
    BY <1>1, <2>7, <2>9, <2>10, <2>11 DEF EntriesInv
  <2>13. \A i \in DOMAIN w : w[i].key # k
    BY <1>1, <2>2, <2>7, <2>9, <2>11 DEF EntriesInv
  <2> QED
    BY <1>2, <1>4, <2>7, <2>12, <2>13
<1> QED
  BY <1>3, <1>4

LEMMA EntryAdded ==
    ASSUME NEW es, EntriesInv(es), NEW e \in Entry, OfSuccess(e.key, e.run), \A i \in DOMAIN es : es[i].key # e.key
    PROVE  EntriesInv(Append(es, e)) /\ Len(Append(es, e)) = Len(es) + 1
<1>1. es \in Seq(Entry) /\ Len(es) \in Nat /\ DOMAIN es = 1..Len(es)
  BY DEF EntriesInv
<1>2. PICK a : a = Append(es, e)
  OBVIOUS
<1>3. a \in Seq(Entry) /\ Len(a) = Len(es) + 1 /\ DOMAIN a = 1..(Len(es) + 1) /\ a[Len(es) + 1] = e /\ \A i \in 1..Len(es) : a[i] = es[i]
  BY <1>1, <1>2, AppendProperties
<1>4. \A i \in 1..(Len(es) + 1) : i \in 1..Len(es) \/ i = Len(es) + 1
  BY <1>1
<1>5. \A i \in DOMAIN a : OfSuccess(a[i].key, a[i].run)
  BY <1>1, <1>3, <1>4 DEF EntriesInv
<1>6. \A i, j \in DOMAIN a : a[i].key = a[j].key => i = j
  BY <1>1, <1>3, <1>4 DEF EntriesInv
<1> QED
  BY <1>2, <1>3, <1>5, <1>6 DEF EntriesInv

LEMMA EntryLeaves ==
    ASSUME NEW es, EntriesInv(es), es # <<>> PROVE EntriesInv(Tail(es)) /\ Len(Tail(es)) = Len(es) - 1
<1>1. es \in Seq(Entry) /\ Len(es) \in Nat /\ DOMAIN es = 1..Len(es)
  BY DEF EntriesInv
<1>2. PICK t : t = Tail(es)
  OBVIOUS
<1>3. t \in Seq(Entry) /\ Len(t) = Len(es) - 1 /\ DOMAIN t = 1..(Len(es) - 1) /\ \A i \in 1..(Len(es) - 1) : t[i] = es[i + 1]
  BY <1>1, <1>2, HeadTailProperties
<1>4. \A i \in 1..(Len(es) - 1) : i + 1 \in 1..Len(es)
  BY <1>1
<1> QED
  BY <1>1, <1>2, <1>3, <1>4 DEF EntriesInv

LEMMA RequestsStay == ASSUME RequestsInv, RunsStay, NEW cs, cs = calls PROVE \A i \in DOMAIN cs : RequestInv(cs[i])'
<1> SUFFICES ASSUME NEW i \in DOMAIN cs PROVE RequestInv(cs[i])'
  OBVIOUS
<1>1. PICK c : c = cs[i]
  OBVIOUS
<1>2. RequestInv(c)
  BY <1>1 DEF RequestsInv
<1> QED
  BY <1>1, <1>2, RequestStays

LEMMA RequestAdded ==
    ASSUME RequestsInv, RunsStay, NEW c \in Requested, RequestInv(c)', calls' = Append(calls, c) PROVE RequestsInv'
<1>1. PICK cs : cs = calls
  OBVIOUS
<1>2. \A i \in DOMAIN cs : RequestInv(cs[i])'
  BY <1>1, RequestsStay
<1>3. cs \in Seq(Requested) /\ DOMAIN cs = 1..Len(cs) /\ Len(cs) \in Nat
  BY <1>1 DEF RequestsInv
<1>4. PICK a : a = Append(cs, c)
  OBVIOUS
<1>5. a \in Seq(Requested) /\ Len(a) = Len(cs) + 1 /\ DOMAIN a = 1..(Len(cs) + 1) /\ a[Len(cs) + 1] = c /\ \A i \in 1..Len(cs) : a[i] = cs[i]
  BY <1>3, <1>4, AppendProperties
<1>6. \A i \in DOMAIN a : i = Len(cs) + 1 \/ i \in DOMAIN cs
  BY <1>3, <1>5
<1>7. \A i \in DOMAIN a : RequestInv(a[i])'
  BY <1>2, <1>3, <1>5, <1>6
<1> QED
  BY <1>1, <1>4, <1>5, <1>7 DEF RequestsInv

LEMMA RunsUnchanged == ASSUME UNCHANGED runs PROVE RunsStay
BY DEF RunsStay

LEMMA RefuseStep == ASSUME RouteInv, Route!Refuse PROVE RouteInv'
<1>1. PICK c : c = [key |-> None, run |-> None, cached |-> TRUE, answer |-> "refused", since |-> {}]
  OBVIOUS
<1>2. calls' = Append(calls, c) /\ UNCHANGED <<runs, active, cache>>
  BY <1>1 DEF Route!Refuse, Route!Answered
<1>3. c \in Requested /\ RequestInv(c)'
  BY <1>1 DEF Requested, RequestInv
<1>4. RunsStay
  BY <1>2, RunsUnchanged
<1>5. RequestsInv'
  BY <1>2, <1>3, <1>4, RequestAdded DEF RouteInv
<1> QED
  BY <1>2, <1>4, <1>5, EntriesStay DEF RouteInv, FlightsInv, Route!Done

LEMMA HitStep == ASSUME RouteInv, NEW k \in ListingKeys, Route!Hit(k) PROVE RouteInv'
<1>1. PICK i \in Route!Entries(k) :
         /\ cache' = Append(Route!Without(k), cache[i])
         /\ calls' = Route!Answered(k, cache[i].run, Route!Rendered(cache[i].run))
         /\ UNCHANGED <<runs, active>>
  BY DEF Route!Hit
<1>2. RunsStay
  BY <1>1, RunsUnchanged
<1>3. i \in DOMAIN cache /\ cache[i].key = k /\ cache \in Seq(Entry) /\ Len(cache) \in Nat /\ DOMAIN cache = 1..Len(cache)
  BY DEF Route!Entries, RouteInv, EntriesInv
<1>4. PICK e : e = cache[i]
  OBVIOUS
<1>5. e \in Entry /\ e.key = k /\ OfSuccess(e.key, e.run)
  BY <1>3, <1>4, ElementOfSeq DEF RouteInv, EntriesInv
<1>6. PICK w : w = Route!Without(k)
  OBVIOUS
<1>7. EntriesInv(w) /\ (\A j \in DOMAIN w : w[j].key # k) /\ Len(w) = Len(cache) - 1
  BY <1>6, WithoutEntry DEF RouteInv
<1>8. EntriesInv(Append(w, e)) /\ Len(Append(w, e)) = Len(w) + 1
  BY <1>5, <1>7, EntryAdded
<1>9. EntriesInv(cache)' /\ Len(cache') = Len(cache)
  <2>1. cache' = Append(w, e)
    BY <1>1, <1>4, <1>6
  <2>2. EntriesInv(cache)'
    BY <1>2, <1>8, <2>1, EntriesStay
  <2>3. Len(cache') = Len(w) + 1
    BY <1>8, <2>1
  <2>4. Len(cache) \in Nat => (Len(cache) - 1) + 1 = Len(cache)
    OBVIOUS
  <2>5. Len(w) + 1 = Len(cache)
    BY <1>3, <1>7, <2>4, Zenon
  <2> QED
    BY <2>2, <2>3, <2>5, Zenon
<1>10. PICK c : c = [key |-> k, run |-> e.run, cached |-> TRUE, answer |-> Route!Rendered(e.run), since |-> {}]
  OBVIOUS
<1>11. c \in Requested /\ RequestInv(c)
  BY <1>5, <1>10, DeskAssumption DEF Requested, RequestInv, Route!Rendered, Entry, OfSuccess
<1>12. calls' = Append(calls, c)
  BY <1>1, <1>4, <1>10 DEF Route!Answered
<1>13. RequestsInv'
  BY <1>2, <1>11, <1>12, RequestAdded, RequestStays DEF RouteInv
<1> QED
  BY <1>1, <1>9, <1>13 DEF RouteInv, FlightsInv, Route!Done

LEMMA MissStep == ASSUME RouteInv, NEW k \in ListingKeys, Route!Miss(k) PROVE RouteInv'
<1>1. /\ runs \in Seq(ListingRuns) /\ DOMAIN runs = 1..Len(runs) /\ Len(runs) \in Nat /\ \A r \in DOMAIN runs : runs[r] \in ListingRuns
      /\ Len(cache) \in Nat
  BY ElementOfSeq DEF RouteInv, FlightsInv, EntriesInv
<1>2. PICK w : w = Route!Without(k)
  OBVIOUS
<1>3. cache' = w /\ EntriesInv(w) /\ Len(w) <= MaxCached
  BY <1>1, <1>2, WithoutEntry, ListingsAssumption DEF RouteInv, Route!Miss
<1>4. PICK d : d = {s \in DOMAIN runs : Route!Done(s)}
  OBVIOUS
<1>5. ASSUME NEW r, calls' = Route!Awaits(k, r), r \in DOMAIN runs', r \notin d, runs'[r].key = k, r \in Nat, RunsStay PROVE RequestsInv'
  <2>1. PICK c : c = [key |-> k, run |-> r, cached |-> FALSE, answer |-> None, since |-> d]
    OBVIOUS
  <2>2. c \in Requested
    BY <1>1, <1>4, <1>5, <2>1 DEF Requested
  <2>3. RequestInv(c)'
    BY <1>5, <2>1, DeskAssumption DEF RequestInv
  <2> QED
    BY <1>4, <1>5, <2>1, <2>2, <2>3, RequestAdded DEF RouteInv, Route!Awaits
<1>6. CASE Route!Joinable(k)
  <2>1. calls' = Route!Awaits(k, active[k]) /\ UNCHANGED <<runs, active>>
    BY <1>6 DEF Route!Miss
  <2>2. active[k] \in DOMAIN runs /\ runs[active[k]].key = k /\ active[k] \notin d
    BY <1>4, <1>6 DEF Route!Joinable, RouteInv, FlightsInv
  <2>3. RunsStay
    BY <2>1, RunsUnchanged
  <2>4. RequestsInv'
    BY <1>1, <1>5, <2>1, <2>2, <2>3
  <2>5. EntriesInv(cache)'
    BY <1>3, <2>3, EntriesStay
  <2> QED
    BY <1>3, <2>1, <2>4, <2>5 DEF RouteInv, FlightsInv, Route!Done
<1>7. CASE ~Route!Joinable(k)
  <2>1. PICK x : x = [key |-> k, payload |-> "json", outcome |-> None]
    OBVIOUS
  <2>2. PICK n : n = Len(runs) + 1
    OBVIOUS
  <2>3. runs' = Append(runs, x) /\ active' = [active EXCEPT ![k] = n] /\ calls' = Route!Awaits(k, n)
    BY <1>7, <2>1, <2>2 DEF Route!Miss
  <2>4. x \in ListingRuns /\ x.key = k /\ x.outcome = None
    BY <2>1 DEF ListingRuns
  <2>5. runs' \in Seq(ListingRuns) /\ DOMAIN runs' = 1..n /\ runs'[n] = x /\ \A i \in DOMAIN runs : runs'[i] = runs[i]
    BY <1>1, <2>2, <2>3, <2>4, AppendProperties
  <2>6. n \in Nat /\ n \notin DOMAIN runs /\ \A i \in 1..n : i = n \/ i \in DOMAIN runs
    BY <1>1, <2>2
  <2>7. DOMAIN runs \subseteq 1..n /\ n \in 1..n
    BY <1>1, <2>2
  <2>8. RunsStay
    BY <2>5, <2>7 DEF RunsStay
  <2>9. RequestsInv'
    BY <1>4, <1>5, <2>3, <2>4, <2>5, <2>6, <2>7, <2>8
  <2>10. EntriesInv(cache)'
    BY <1>3, <2>8, EntriesStay
  <2>11. \A r \in DOMAIN runs : runs[r].key \in ListingKeys /\ (runs[r].key = k => Route!Done(r))
    <3>1. \A r \in DOMAIN runs : runs[r].key \in ListingKeys
      BY <1>1 DEF ListingRuns
    <3> QED
      BY <1>1, <1>7, <3>1, DeskAssumption DEF Route!Joinable, RouteInv, FlightsInv
  <2>12. active' \in [ListingKeys -> Nat \cup {None}]
    BY <2>3, <2>6 DEF RouteInv, FlightsInv
  <2>13. \A j \in ListingKeys : active'[j] = IF j = k THEN n ELSE active[j]
    BY <2>3 DEF RouteInv, FlightsInv
  <2>14. \A r \in DOMAIN runs' : ~Route!Done(r)' => active'[runs'[r].key] = r
    BY <2>4, <2>5, <2>6, <2>11, <2>13 DEF RouteInv, FlightsInv, Route!Done
  <2>15. \A j \in ListingKeys : active'[j] # None => active'[j] \in DOMAIN runs' /\ runs'[active'[j]].key = j
    BY <2>4, <2>5, <2>7, <2>13 DEF RouteInv, FlightsInv
  <2> QED
    BY <1>3, <2>5, <2>9, <2>10, <2>12, <2>14, <2>15 DEF RouteInv, FlightsInv
<1> QED
  BY <1>6, <1>7

\* a task goes on, or is done
LEMMA TaskStep ==
    ASSUME RouteInv, NEW r \in DOMAIN runs, ~Route!Done(r), NEW x \in ListingRuns, x.key = runs[r].key,
           runs' = [runs EXCEPT ![r] = x], UNCHANGED <<calls, active, cache>>
    PROVE  RouteInv'
<1>1. runs \in Seq(ListingRuns) /\ \A i \in DOMAIN runs : runs[i] \in ListingRuns
  BY ElementOfSeq DEF RouteInv, FlightsInv
<1>2. runs' \in Seq(ListingRuns) /\ DOMAIN runs' = DOMAIN runs /\ \A i \in DOMAIN runs : runs'[i] = IF i = r THEN x ELSE runs[i]
  BY <1>1, Patched
<1>3. RunsStay
  BY <1>2 DEF RunsStay
<1>4. FlightsInv'
  BY <1>2 DEF RouteInv, FlightsInv, Route!Done
<1>5. RequestsInv'
  <2>1. PICK cs : cs = calls
    OBVIOUS
  <2>2. \A i \in DOMAIN cs : RequestInv(cs[i])'
    BY <1>3, <2>1, RequestsStay DEF RouteInv
  <2> QED
    BY <2>1, <2>2 DEF RouteInv, RequestsInv
<1> QED
  BY <1>3, <1>4, <1>5, EntriesStay DEF RouteInv

LEMMA ResumeStep == ASSUME RouteInv, NEW c \in DOMAIN calls, Route!Resume(c) PROVE RouteInv'
<1>1. PICK k, r : k = calls[c].key /\ r = calls[c].run
  OBVIOUS
<1>2. /\ calls[c].answer = None /\ Route!Done(r) /\ UNCHANGED runs
      /\ active' = IF active[k] = r THEN [active EXCEPT ![k] = None] ELSE active
      /\ cache' = Route!Remember(k, r)
      /\ calls' = [calls EXCEPT ![c].answer = Route!Rendered(r)]
  BY <1>1 DEF Route!Resume
<1>3. calls \in Seq(Requested) /\ calls[c] \in Requested /\ RequestInv(calls[c])
  BY ElementOfSeq DEF RouteInv, RequestsInv
<1>4. r # None /\ r \in DOMAIN runs /\ runs[r].key = k
  BY <1>1, <1>2, <1>3, ListingsAssumption DEF RequestInv
<1>5. runs[r] \in ListingRuns /\ DOMAIN runs = 1..Len(runs) /\ Len(runs) \in Nat
  BY <1>4, ElementOfSeq DEF RouteInv, FlightsInv
<1>6. k \in ListingKeys /\ r \in Nat
  BY <1>4, <1>5 DEF ListingRuns
<1>7. RunsStay
  BY <1>2, RunsUnchanged
<1>8. FlightsInv'
  <2>1. active' \in [ListingKeys -> Nat \cup {None}] /\ \A j \in ListingKeys : active'[j] = IF j = k /\ active[k] = r THEN None ELSE active[j]
    BY <1>2, <1>6 DEF RouteInv, FlightsInv
  <2>2. \A s \in DOMAIN runs : runs[s].key \in ListingKeys
    <3>1. \A s \in DOMAIN runs : runs[s] \in ListingRuns
      BY ElementOfSeq DEF RouteInv, FlightsInv
    <3> QED
      BY <3>1 DEF ListingRuns
  <2> QED
    BY <1>2, <2>1, <2>2 DEF RouteInv, FlightsInv, Route!Done
<1>9. RequestsInv'
  <2>1. PICK x : x = [calls[c] EXCEPT !.answer = Route!Rendered(r)]
    OBVIOUS
  <2>2. x \in Requested /\ x.key = k /\ x.run = r /\ x.cached = calls[c].cached /\ x.since = calls[c].since
    BY <1>1, <1>3, <2>1 DEF Requested, Route!Rendered
  <2>3. RequestInv(x)
    BY <1>1, <1>3, <1>4, <2>2 DEF RequestInv
  <2>4. PICK cs : cs = calls
    OBVIOUS
  <2>5. PICK ds : ds = [cs EXCEPT ![c] = x]
    OBVIOUS
  <2>6. ds \in Seq(Requested) /\ DOMAIN ds = DOMAIN cs /\ \A j \in DOMAIN cs : ds[j] = IF j = c THEN x ELSE cs[j]
    BY <1>3, <2>2, <2>4, <2>5, Patched
  <2>7. \A j \in DOMAIN cs : RequestInv(cs[j])'
    BY <1>7, <2>4, RequestsStay DEF RouteInv
  <2>8. RequestInv(x)'
    BY <1>7, <2>3, RequestStays
  <2>9. calls' = ds
    BY <1>2, <2>1, <2>4, <2>5
  <2> QED
    BY <2>6, <2>7, <2>8, <2>9 DEF RequestsInv
<1>10. EntriesInv(cache)' /\ Len(cache') <= MaxCached
  <2>1. CASE runs[r].outcome \notin Route!Successes
    BY <1>2, <1>7, <2>1, EntriesStay DEF Route!Remember, RouteInv
  <2>2. CASE runs[r].outcome \in Route!Successes
    <3>1. PICK w, e : w = Route!Without(k) /\ e = [key |-> k, run |-> r]
      OBVIOUS
    <3>2. PICK longer : longer = Append(w, e)
      OBVIOUS
    <3>3. cache' = IF Len(longer) > MaxCached THEN Tail(longer) ELSE longer
      BY <1>2, <2>2, <3>1, <3>2 DEF Route!Remember
    <3>4. e \in Entry /\ e.key = k /\ OfSuccess(e.key, e.run)
      BY <1>4, <1>6, <2>2, <3>1 DEF Entry, OfSuccess
    <3>5. EntriesInv(w) /\ (\A i \in DOMAIN w : w[i].key # k) /\ Len(w) <= Len(cache) /\ Len(w) \in Nat /\ Len(cache) \in Nat
      <4>1. EntriesInv(w) /\ (\A i \in DOMAIN w : w[i].key # k) /\ (Len(w) = Len(cache) \/ Len(w) = Len(cache) - 1)
        BY <3>1, WithoutEntry DEF RouteInv
      <4>2. Len(w) \in Nat /\ Len(cache) \in Nat
        BY <4>1 DEF EntriesInv, RouteInv
      <4> QED
        BY <4>1, <4>2
    <3>6. EntriesInv(longer) /\ Len(longer) = Len(w) + 1
      BY <3>2, <3>4, <3>5, EntryAdded
    <3>7. longer # <<>>
      BY <3>5, <3>6
    <3>8. EntriesInv(Tail(longer)) /\ Len(Tail(longer)) = Len(longer) - 1
      BY <3>6, <3>7, EntryLeaves
    <3>9. Len(cache) <= MaxCached
      BY DEF RouteInv
    <3>10. CASE Len(longer) > MaxCached
      <4>1. cache' = Tail(longer)
        BY <3>3, <3>10
      <4>2. EntriesInv(cache)'
        BY <1>7, <3>8, <4>1, EntriesStay
      <4>3. Len(cache') = Len(w)
        BY <3>5, <3>6, <3>8, <4>1
      <4> QED
        BY <3>5, <3>9, <4>2, <4>3, ListingsAssumption
    <3>11. CASE ~(Len(longer) > MaxCached)
      <4>1. cache' = longer
        BY <3>3, <3>11
      <4>2. EntriesInv(cache)'
        BY <1>7, <3>6, <4>1, EntriesStay
      <4> QED
        BY <3>5, <3>6, <3>11, <4>1, <4>2, ListingsAssumption
    <3> QED
      BY <3>10, <3>11
  <2> QED
    BY <2>1, <2>2
<1> QED
  BY <1>8, <1>9, <1>10 DEF RouteInv

LEMMA RouteStep == ASSUME RouteInv, Route!RouteNext PROVE RouteInv'
<1>1. ASSUME NEW r \in DOMAIN runs, Route!TryNextPayload(r) PROVE RouteInv'
  <2>1. PICK x : x = [runs[r] EXCEPT !.payload = "raw"]
    OBVIOUS
  <2>2. runs[r] \in ListingRuns
    BY ElementOfSeq DEF RouteInv, FlightsInv
  <2>3. x \in ListingRuns /\ x.key = runs[r].key
    BY <2>1, <2>2 DEF ListingRuns
  <2>4. ~Route!Done(r) /\ runs' = [runs EXCEPT ![r] = x] /\ UNCHANGED <<calls, active, cache>>
    BY <1>1, <2>1 DEF Route!TryNextPayload
  <2> QED
    BY <2>3, <2>4, TaskStep
<1>2. ASSUME NEW r \in DOMAIN runs, NEW outcome \in Route!Outcomes, Route!Settle(r, outcome) PROVE RouteInv'
  <2>1. PICK x : x = [runs[r] EXCEPT !.outcome = outcome]
    OBVIOUS
  <2>2. runs[r] \in ListingRuns
    BY ElementOfSeq DEF RouteInv, FlightsInv
  <2>3. x \in ListingRuns /\ x.key = runs[r].key
    BY <2>1, <2>2 DEF ListingRuns
  <2>4. ~Route!Done(r) /\ runs' = [runs EXCEPT ![r] = x] /\ UNCHANGED <<calls, active, cache>>
    BY <1>2, <2>1 DEF Route!Settle
  <2> QED
    BY <2>3, <2>4, TaskStep
<1> QED
  BY <1>1, <1>2, RefuseStep, HitStep, MissStep, ResumeStep DEF Route!RouteNext, Route!Search

LEMMA ListingsAreShared == ASSUME RouteInv PROVE Route!LookupsAreShared /\ Route!AnswersAreFresh
<1>1. \A r, s \in DOMAIN runs : runs[r].key = runs[s].key /\ ~Route!Done(r) /\ ~Route!Done(s) => r = s
  BY DEF RouteInv, FlightsInv
<1> QED
  BY <1>1 DEF RouteInv, EntriesInv, RequestsInv, RequestInv, OfSuccess, Route!LookupsAreShared, Route!AnswersAreFresh

(***************************************************************************)
(* The gateway: a search in flight is one upstream call, and an entry of   *)
(* the chain's cache is of the quantity in its key.                        *)
(***************************************************************************)
Reasons == {"ok", "handoff", "paused", "limited", "refused", "failed"}
GatewayResults == [found : BOOLEAN, quantity : Quantities, why : Reasons]
Memos == [result : GatewayResults, age : {"fresh", "stale"}]
GatewayRequests ==
    [query : InWords!Queries, quantity : Quantities, subject : Subjects, stage : {"source", "awaiting", "spacing", "chain", "answered"},
     at : Nat \ {0}, key : InWords!SharedKeys \cup {None}, answer : GatewayResults \cup {None}]
AnswersFit(q) ==
    /\ q.answer # None => q.answer.quantity = q.quantity
    /\ q.stage \in {"awaiting", "spacing"} => q.key \in InWords!SharedKeys
LookupsFit(rs) == rs \in [PartsRequests -> GatewayRequests \cup {None}] /\ \A r \in PartsRequests : rs[r] # None => AnswersFit(rs[r])
MemosInv ==
    /\ memo \in [InWords!Keys -> Memos \cup {None}]
    /\ \A q \in InWords!Queries, n \in Quantities :
          memo[<<"chain", q, n>>] # None => memo[<<"chain", q, n>>].result.quantity = n
FetchesInv ==
    /\ flight \in [InWords!SharedKeys -> GatewayFlights \cup {None}]
    /\ fetches = [k \in InWords!SharedKeys |-> IF flight[k] = None THEN 0 ELSE 1]
GatewayInv == LookupsFit(req) /\ MemosInv /\ FetchesInv

\* a request goes on, or is answered
LEMMA LookupChanges ==
    ASSUME LookupsFit(req), NEW r, NEW x \in GatewayRequests, AnswersFit(x), req' = [req EXCEPT ![r] = x] PROVE LookupsFit(req')
BY DEF LookupsFit

LEMMA FetchStarts ==
    ASSUME FetchesInv, NEW k \in InWords!SharedKeys, flight[k] = None, NEW x \in GatewayFlights,
           flight' = [flight EXCEPT ![k] = x], fetches' = [fetches EXCEPT ![k] = @ + 1]
    PROVE  FetchesInv'
<1>1. flight' \in [InWords!SharedKeys -> GatewayFlights \cup {None}]
  BY DEF FetchesInv
<1>2. \A j \in InWords!SharedKeys : flight'[j] = IF j = k THEN x ELSE flight[j]
  BY DEF FetchesInv
<1>3. fetches[k] = 0 /\ fetches = [j \in InWords!SharedKeys |-> IF flight[j] = None THEN 0 ELSE 1]
  BY DEF FetchesInv
<1>4. fetches' = [j \in InWords!SharedKeys |-> IF j = k THEN 1 ELSE fetches[j]]
  BY <1>3
<1>5. x # None
  BY GatewayAssumption
<1> QED
  BY <1>1, <1>2, <1>3, <1>4, <1>5 DEF FetchesInv

LEMMA FetchEnds ==
    ASSUME FetchesInv, NEW k \in InWords!SharedKeys, flight[k] # None,
           flight' = [flight EXCEPT ![k] = None], fetches' = [fetches EXCEPT ![k] = @ - 1]
    PROVE  FetchesInv'
<1>1. flight' \in [InWords!SharedKeys -> GatewayFlights \cup {None}]
  BY DEF FetchesInv
<1>2. \A j \in InWords!SharedKeys : flight'[j] = IF j = k THEN None ELSE flight[j]
  BY DEF FetchesInv
<1>3. fetches[k] = 1 /\ fetches = [j \in InWords!SharedKeys |-> IF flight[j] = None THEN 0 ELSE 1]
  BY DEF FetchesInv
<1>4. fetches' = [j \in InWords!SharedKeys |-> IF j = k THEN 0 ELSE fetches[j]]
  BY <1>3
<1> QED
  BY <1>1, <1>2, <1>3, <1>4 DEF FetchesInv

LEMMA ForQuantityFits ==
    ASSUME NEW result \in GatewayResults, NEW n \in Quantities
    PROVE  InWords!ForQuantity(result, n) \in GatewayResults /\ InWords!ForQuantity(result, n).quantity = n
BY DEF InWords!ForQuantity, GatewayResults

\* what becomes of a request that is answered, moves to the next source, waits
\* for a source or asks the chain
Told(y, a) == [y EXCEPT !.stage = "answered", !.answer = a]
ToldAfterWait(y, a) == [y EXCEPT !.stage = "answered", !.key = None, !.answer = a]
Onward(y) == [y EXCEPT !.at = @ + 1]
OnwardAfterWait(y) == [y EXCEPT !.stage = "source", !.key = None, !.at = @ + 1]
Spaced(y, k) == [y EXCEPT !.stage = "spacing", !.key = k]
Chained(y) == [y EXCEPT !.stage = "chain"]
Fits(y) == y \in GatewayRequests /\ AnswersFit(y)

LEMMA AnswerFits ==
    ASSUME NEW y, Fits(y), NEW a \in GatewayResults, a.quantity = y.quantity
    PROVE  Fits(Told(y, a)) /\ Fits(ToldAfterWait(y, a))
BY DEF Fits, Told, ToldAfterWait, GatewayRequests, AnswersFit

LEMMA MovingOnFits == ASSUME NEW y, Fits(y) PROVE Fits(Onward(y)) /\ Fits(OnwardAfterWait(y))
<1>1. y \in GatewayRequests /\ AnswersFit(y)
  BY DEF Fits
<1>2. y.at \in Nat \ {0}
  BY <1>1 DEF GatewayRequests
<1>3. PICK a : a = y.at + 1
  OBVIOUS
<1>4. a \in Nat \ {0}
  BY <1>2, <1>3
<1>5. PICK z : z = [y EXCEPT !.at = a]
  OBVIOUS
<1>6. z \in GatewayRequests /\ AnswersFit(z)
  BY <1>1, <1>4, <1>5 DEF GatewayRequests, AnswersFit
<1>7. PICK w : w = [y EXCEPT !.stage = "source", !.key = None, !.at = a]
  OBVIOUS
<1>8. w \in GatewayRequests /\ AnswersFit(w)
  BY <1>1, <1>4, <1>7 DEF GatewayRequests, AnswersFit
<1> QED
  BY <1>3, <1>5, <1>6, <1>7, <1>8 DEF Fits, Onward, OnwardAfterWait

LEMMA WaitingFits ==
    ASSUME NEW y, Fits(y), NEW k \in InWords!SharedKeys PROVE Fits(InWords!AwaitKey(y, k)) /\ Fits(Spaced(y, k))
BY DEF Fits, Spaced, GatewayRequests, AnswersFit, InWords!AwaitKey

LEMMA ArrivalFits ==
    ASSUME NEW q \in InWords!Queries, NEW n \in Quantities, NEW u \in Subjects, NEW x, x = InWords!NewRequest(q, n, u)
    PROVE  Fits(x) /\ x.quantity = n /\ Fits(Chained(x))
<1>1. x = [query |-> q, quantity |-> n, subject |-> u, stage |-> "source", at |-> 1, key |-> None, answer |-> None]
  BY DEF InWords!NewRequest
<1>2. x \in GatewayRequests /\ AnswersFit(x) /\ x.quantity = n
  BY <1>1 DEF GatewayRequests, AnswersFit
<1>3. [x EXCEPT !.stage = "chain"] \in GatewayRequests /\ AnswersFit([x EXCEPT !.stage = "chain"])
  BY <1>2 DEF GatewayRequests, AnswersFit
<1> QED
  BY <1>2, <1>3 DEF Fits, Chained

LEMMA ResumedFits ==
    ASSUME LookupsFit(req), NEW k, NEW result \in GatewayResults, req' = InWords!Resumed(k, result) PROVE LookupsFit(req')
<1> SUFFICES ASSUME NEW r \in PartsRequests PROVE req'[r] \in GatewayRequests \cup {None} /\ (req'[r] # None => AnswersFit(req'[r]))
  BY DEF LookupsFit, InWords!Resumed
<1>1. req[r] \in GatewayRequests \cup {None} /\ (req[r] # None => AnswersFit(req[r]))
  BY DEF LookupsFit
<1>2. PICK y : y = req[r]
  OBVIOUS
<1>3. PICK a : a = InWords!ForQuantity(result, y.quantity)
  OBVIOUS
<1>31. req'[r] = IF y # None /\ y.stage = "awaiting" /\ y.key = k
                 THEN IF result.found \/ k[1] = "brightdata" THEN ToldAfterWait(y, a) ELSE OnwardAfterWait(y) ELSE y
  BY <1>2, <1>3, Zenon DEF InWords!Resumed, ToldAfterWait, OnwardAfterWait
<1>4. CASE y = None
  BY <1>1, <1>31, <1>2, <1>4, Zenon
<1>5. CASE y # None
  <2>1. Fits(y)
    BY <1>1, <1>2, <1>5 DEF Fits
  <2>2. y.quantity \in Quantities
    BY <2>1 DEF GatewayRequests, Fits
  <2>3. a \in GatewayResults /\ a.quantity = y.quantity
    BY <1>3, <2>2, ForQuantityFits
  <2>4. Fits(ToldAfterWait(y, a)) /\ Fits(OnwardAfterWait(y))
    BY <2>1, <2>3, AnswerFits, MovingOnFits
  <2>5. Fits(req'[r])
    BY <1>31, <2>1, <2>4, Zenon
  <2> QED
    BY <2>5 DEF Fits
<1> QED
  BY <1>4, <1>5

LEMMA MemoFits == ASSUME MemosInv, NEW k \in InWords!Keys, memo[k] # None PROVE memo[k].result \in GatewayResults
<1>1. memo[k] \in Memos
  BY DEF MemosInv
<1> QED
  BY <1>1 DEF Memos

LEMMA GatewayResultFits ==
    ASSUME NEW found \in BOOLEAN, NEW n \in Quantities, NEW why \in Reasons
    PROVE  InWords!Result(found, n, why) \in GatewayResults /\ InWords!Result(found, n, why).quantity = n
BY DEF InWords!Result, GatewayResults

\* what a step does to the requests, the caches and the calls under way
Lookup(r, x) == Fits(x) /\ req' = [req EXCEPT ![r] = x]
LEMMA LookupStep ==
    ASSUME GatewayInv, NEW r, NEW x, Lookup(r, x), UNCHANGED <<memo, flight, fetches>> PROVE GatewayInv'
<1>1. LookupsFit(req')
  BY LookupChanges DEF GatewayInv, Lookup, Fits
<1> QED
  BY <1>1 DEF GatewayInv, MemosInv, FetchesInv, LookupsFit

LEMMA StartStep ==
    ASSUME GatewayInv, NEW r, NEW x, Lookup(r, x), UNCHANGED memo, NEW k \in InWords!SharedKeys, flight[k] = None,
           NEW n \in Quantities, flight' = [flight EXCEPT ![k] = [quantity |-> n, format |-> "json"]], fetches' = [fetches EXCEPT ![k] = @ + 1]
    PROVE  GatewayInv'
<1>1. LookupsFit(req')
  BY LookupChanges DEF GatewayInv, Lookup, Fits
<1>2. [quantity |-> n, format |-> "json"] \in GatewayFlights
  BY DEF GatewayFlights
<1>3. FetchesInv'
  BY <1>2, FetchStarts DEF GatewayInv
<1> QED
  BY <1>1, <1>3 DEF GatewayInv, MemosInv, LookupsFit

LEMMA BrightDataStep ==
    ASSUME GatewayInv, NEW r \in PartsRequests, NEW q \in InWords!Queries, NEW n \in Quantities, NEW u \in Subjects,
           InWords!SearchBrightData(r, q, n, u), UNCHANGED memo
    PROVE  GatewayInv'
<1>1. PICK k : k = <<"brightdata", q>>
  OBVIOUS
<1>2. k \in InWords!SharedKeys /\ k \in InWords!Keys
  BY <1>1 DEF InWords!SharedKeys, InWords!Keys
<1>3. PICK x : x = InWords!NewRequest(q, n, u)
  OBVIOUS
<1>4. Fits(x) /\ x.quantity = n
  BY <1>3, ArrivalFits
<1>5. ASSUME NEW a \in GatewayResults, a.quantity = n, req' = [req EXCEPT ![r] = Told(x, a)], UNCHANGED <<flight, fetches>>
      PROVE  GatewayInv'
  <2>1. PICK y : y = Told(x, a)
    OBVIOUS
  <2>2. Fits(y)
    BY <1>4, <1>5, <2>1, AnswerFits
  <2>3. Lookup(r, y)
    BY <1>5, <2>1, <2>2 DEF Lookup
  <2> QED
    BY <1>5, <2>3, LookupStep
<1>6. Fits(InWords!AwaitKey(x, k))
  BY <1>2, <1>4, WaitingFits
<1>7. CASE InWords!IsFresh(k)
  <2>1. PICK a : a = InWords!ForQuantity(memo[k].result, n)
    OBVIOUS
  <2>2. a \in GatewayResults /\ a.quantity = n
    BY <1>2, <1>7, <2>1, MemoFits, ForQuantityFits DEF InWords!IsFresh, GatewayInv
  <2>3. req' = [req EXCEPT ![r] = Told(x, a)] /\ UNCHANGED <<flight, fetches>>
    BY <1>1, <1>3, <1>7, <2>1 DEF InWords!SearchBrightData, Told
  <2> QED
    BY <1>5, <2>2, <2>3
<1>8. CASE ~InWords!IsFresh(k) /\ flight[k] # None
  <2>1. req' = [req EXCEPT ![r] = InWords!AwaitKey(x, k)] /\ UNCHANGED <<flight, fetches>>
    BY <1>1, <1>3, <1>8 DEF InWords!SearchBrightData, Told
  <2>2. Lookup(r, InWords!AwaitKey(x, k))
    BY <1>6, <2>1 DEF Lookup
  <2> QED
    BY <2>1, <2>2, LookupStep
<1>9. ASSUME NEW why \in Reasons, req' = [req EXCEPT ![r] = Told(x, InWords!Result(FALSE, n, why))], UNCHANGED <<flight, fetches>>
      PROVE  GatewayInv'
  BY <1>5, <1>9, GatewayResultFits
<1>10. CASE ~InWords!IsFresh(k) /\ flight[k] = None
  <2>1. PICK buckets : buckets = {<<"user", u>>, <<"source", "brightdata">>}
    OBVIOUS
  <2>2. CASE "brightdata" \in paused
    <3>1. req' = [req EXCEPT ![r] = Told(x, InWords!Result(FALSE, n, "paused"))] /\ UNCHANGED <<flight, fetches>>
      BY <1>1, <1>3, <1>10, <2>2 DEF InWords!SearchBrightData, Told
    <3>2. "paused" \in Reasons
      BY DEF Reasons
    <3> QED
      BY <1>9, <3>1, <3>2, Zenon
  <2>3. CASE "brightdata" \notin paused /\ ~InWords!MaySpend(buckets)
    <3>1. req' = [req EXCEPT ![r] = Told(x, InWords!Result(FALSE, n, "limited"))] /\ UNCHANGED <<flight, fetches>>
      BY <1>1, <1>3, <1>10, <2>1, <2>3 DEF InWords!SearchBrightData, Told
    <3>2. "limited" \in Reasons
      BY DEF Reasons
    <3> QED
      BY <1>9, <3>1, <3>2, Zenon
  <2>4. CASE "brightdata" \notin paused /\ InWords!MaySpend(buckets)
    <3>1. /\ req' = [req EXCEPT ![r] = InWords!AwaitKey(x, k)]
          /\ flight' = [flight EXCEPT ![k] = [quantity |-> n, format |-> "json"]]
          /\ fetches' = [fetches EXCEPT ![k] = @ + 1]
      BY <1>1, <1>3, <1>10, <2>1, <2>4 DEF InWords!SearchBrightData, Told
    <3>2. Lookup(r, InWords!AwaitKey(x, k))
      BY <1>6, <3>1 DEF Lookup
    <3> QED
      BY <1>2, <1>10, <3>1, <3>2, StartStep
  <2> QED
    BY <2>2, <2>3, <2>4
<1> QED
  BY <1>7, <1>8, <1>10

LEMMA GatewaySearchStep ==
    ASSUME GatewayInv, NEW r \in PartsRequests, NEW q \in InWords!Queries, NEW n \in Quantities, NEW u \in Subjects,
           InWords!Search(r, q, n, u)
    PROVE  GatewayInv'
<1>1. PICK x : x = InWords!NewRequest(q, n, u)
  OBVIOUS
<1>2. Fits(x) /\ x.quantity = n /\ Fits(Chained(x))
  BY <1>1, ArrivalFits
<1>3. UNCHANGED memo
  BY DEF InWords!Search
<1>4. ASSUME NEW a \in GatewayResults, a.quantity = n, req' = [req EXCEPT ![r] = Told(x, a)], UNCHANGED <<flight, fetches>>
      PROVE  GatewayInv'
  <2>1. PICK y : y = Told(x, a)
    OBVIOUS
  <2>2. Fits(y)
    BY <1>2, <1>4, <2>1, AnswerFits
  <2>3. Lookup(r, y)
    BY <1>4, <2>1, <2>2 DEF Lookup
  <2> QED
    BY <1>3, <1>4, <2>3, LookupStep
<1>5. ASSUME NEW why \in Reasons, req' = [req EXCEPT ![r] = Told(x, InWords!Result(FALSE, n, why))], UNCHANGED <<flight, fetches>>
      PROVE  GatewayInv'
  BY <1>4, <1>5, GatewayResultFits
<1>6. CASE InWords!SearchBrightData(r, q, n, u)
  BY <1>3, <1>6, BrightDataStep
<1>7. CASE InWords!SearchPublicParts(r, q, n, u)
  <2>1. UNCHANGED <<flight, fetches>>
    BY <1>7 DEF InWords!SearchPublicParts
  <2>2. CASE req' = [req EXCEPT ![r] = x]
    <3>1. Lookup(r, x)
      BY <1>2, <2>2 DEF Lookup
    <3> QED
      BY <1>3, <2>1, <3>1, LookupStep
  <2>3. CASE req' = [req EXCEPT ![r] = Told(x, InWords!Result(FALSE, n, "limited"))]
    <3>1. "limited" \in Reasons
      BY DEF Reasons
    <3> QED
      BY <1>5, <2>1, <2>3, <3>1, Zenon
  <2> QED
    BY <1>1, <1>7, <2>2, <2>3 DEF InWords!SearchPublicParts, Told
<1>8. CASE InWords!SearchChain(r, q, n, u)
  <2>1. PICK k : k = <<"chain", q, n>>
    OBVIOUS
  <2>2. k \in InWords!Keys
    BY <2>1 DEF InWords!Keys
  <2>3. UNCHANGED <<flight, fetches>>
    BY <1>8 DEF InWords!SearchChain
  <2>4. CASE InWords!IsFresh(k)
    <3>1. PICK a : a = memo[k].result
      OBVIOUS
    <3>2. a \in GatewayResults /\ a.quantity = n
      BY <2>1, <2>2, <2>4, <3>1, MemoFits DEF InWords!IsFresh, GatewayInv, MemosInv
    <3>3. req' = [req EXCEPT ![r] = Told(x, a)]
      BY <1>1, <1>8, <2>1, <2>4, <3>1 DEF InWords!SearchChain, Told
    <3> QED
      BY <1>4, <2>3, <3>2, <3>3
  <2>5. CASE ~InWords!IsFresh(k)
    <3>1. req' = [req EXCEPT ![r] = Chained(x)]
      BY <1>1, <1>8, <2>1, <2>5 DEF InWords!SearchChain, Chained
    <3>2. Lookup(r, Chained(x))
      BY <1>2, <3>1 DEF Lookup
    <3> QED
      BY <1>3, <2>3, <3>2, LookupStep
  <2> QED
    BY <2>4, <2>5
<1>9. CASE InWords!NotConfigured(r, q, n, u)
  <2>1. req' = [req EXCEPT ![r] = Told(x, InWords!Result(FALSE, n, "handoff"))] /\ UNCHANGED <<flight, fetches>>
    BY <1>1, <1>9, Zenon DEF InWords!NotConfigured, Told
  <2>2. "handoff" \in Reasons
    BY DEF Reasons
  <2> QED
    BY <1>5, <2>1, <2>2, Zenon
<1> QED
  BY <1>6, <1>7, <1>8, <1>9 DEF InWords!Search

\* what the actions write into a request that exists
LEMMA RequestFits ==
    ASSUME GatewayInv, NEW r \in PartsRequests, req[r] # None
    PROVE  /\ Fits(req[r]) /\ req[r].quantity \in Quantities /\ req[r].query \in InWords!Queries
           /\ req[r].stage \in {"awaiting", "spacing"} => req[r].key \in InWords!SharedKeys
<1>1. req[r] \in GatewayRequests /\ AnswersFit(req[r])
  BY DEF GatewayInv, LookupsFit
<1> QED
  BY <1>1 DEF Fits, GatewayRequests, AnswersFit

LEMMA WrittenAnswers ==
    ASSUME GatewayInv, NEW r \in PartsRequests, req[r] # None, NEW a
    PROVE  InWords!Answer(r, a) = [req EXCEPT ![r] = ToldAfterWait(req[r], a)]
<1>1. req[r] \in GatewayRequests /\ req \in [PartsRequests -> GatewayRequests \cup {None}]
  BY DEF GatewayInv, LookupsFit
<1> QED
  BY <1>1 DEF InWords!Answer, ToldAfterWait, GatewayRequests

LEMMA WrittenRequests ==
    ASSUME GatewayInv, NEW r \in PartsRequests, req[r] # None
    PROVE  /\ [req EXCEPT ![r].at = @ + 1] = [req EXCEPT ![r] = Onward(req[r])]
           /\ [req EXCEPT ![r].stage = "source", ![r].key = None, ![r].at = @ + 1] = [req EXCEPT ![r] = OnwardAfterWait(req[r])]
           /\ \A k : [req EXCEPT ![r].stage = "spacing", ![r].key = k] = [req EXCEPT ![r] = Spaced(req[r], k)]
<1>1. req[r] \in GatewayRequests /\ req \in [PartsRequests -> GatewayRequests \cup {None}]
  BY DEF GatewayInv, LookupsFit
<1>3. [req EXCEPT ![r].at = @ + 1] = [req EXCEPT ![r] = Onward(req[r])]
  BY <1>1 DEF Onward, GatewayRequests
<1>4. [req EXCEPT ![r].stage = "source", ![r].key = None, ![r].at = @ + 1] = [req EXCEPT ![r] = OnwardAfterWait(req[r])]
  BY <1>1 DEF OnwardAfterWait, GatewayRequests
<1>5. \A k : [req EXCEPT ![r].stage = "spacing", ![r].key = k] = [req EXCEPT ![r] = Spaced(req[r], k)]
  BY <1>1 DEF Spaced, GatewayRequests
<1> QED
  BY <1>3, <1>4, <1>5

\* a request is answered from a cache
LEMMA MemoStep ==
    ASSUME GatewayInv, NEW r \in PartsRequests, req[r] # None, NEW k \in InWords!SharedKeys, memo[k] # None, UNCHANGED <<memo, flight, fetches>>,
           req' = InWords!Answer(r, InWords!ForQuantity(memo[k].result, req[r].quantity))
    PROVE  GatewayInv'
<1>1. PICK y : y = req[r]
  OBVIOUS
<1>2. Fits(y) /\ y.quantity \in Quantities
  BY <1>1, RequestFits
<1>3. PICK a : a = InWords!ForQuantity(memo[k].result, y.quantity)
  OBVIOUS
<1>4. k \in InWords!Keys /\ MemosInv
  BY DEF InWords!Keys, GatewayInv
<1>5. a \in GatewayResults /\ a.quantity = y.quantity
  BY <1>2, <1>3, <1>4, MemoFits, ForQuantityFits
<1>6. PICK x : x = ToldAfterWait(y, a)
  OBVIOUS
<1>7. Fits(x)
  BY <1>2, <1>5, <1>6, AnswerFits
<1>8. req' = [req EXCEPT ![r] = x]
  BY <1>1, <1>3, <1>6, WrittenAnswers, Zenon
<1> QED
  BY <1>7, <1>8, LookupStep DEF Lookup

LEMMA VisitSourceStep == ASSUME GatewayInv, NEW r \in PartsRequests, InWords!VisitSource(r) PROVE GatewayInv'
<1>1. PICK y : y = req[r]
  OBVIOUS
<1>2. PICK s : s = InWords!Order(y.query)[y.at]
  OBVIOUS
<1>3. PICK k : k = <<s, y.query>>
  OBVIOUS
<1>4. req[r] # None /\ y.at <= 2 /\ UNCHANGED <<memo, flight, fetches>>
  BY <1>1 DEF InWords!VisitSource
<1>5. Fits(y) /\ y.quantity \in Quantities /\ y.query \in InWords!Queries
  BY <1>1, <1>4, RequestFits
<1>6. k \in InWords!SharedKeys
  <2>1. y.at \in {1, 2}
    BY <1>4, <1>5 DEF Fits, GatewayRequests
  <2>2. s \in InWords!Public
    BY <1>2, <2>1 DEF InWords!Order, InWords!Public
  <2> QED
    BY <1>3, <1>5, <2>2 DEF InWords!SharedKeys
<1>7. \/ req' = [req EXCEPT ![r].at = @ + 1]
      \/ req' = [req EXCEPT ![r].stage = "spacing", ![r].key = k]
      \/ memo[k] # None /\ req' = InWords!Answer(r, InWords!ForQuantity(memo[k].result, y.quantity))
  BY <1>1, <1>2, <1>3, Zenon DEF InWords!VisitSource, InWords!IsFresh, InWords!IsStale
<1>8. CASE req' = [req EXCEPT ![r].at = @ + 1]
  <2>1. req' = [req EXCEPT ![r] = Onward(y)]
    BY <1>1, <1>4, <1>8, WrittenRequests, Zenon
  <2> QED
    BY <1>4, <1>5, <2>1, MovingOnFits, LookupStep DEF Lookup
<1>9. CASE req' = [req EXCEPT ![r].stage = "spacing", ![r].key = k]
  <2>1. req' = [req EXCEPT ![r] = Spaced(y, k)]
    BY <1>1, <1>4, <1>9, WrittenRequests, Zenon
  <2> QED
    BY <1>4, <1>5, <1>6, <2>1, WaitingFits, LookupStep DEF Lookup
<1>10. CASE memo[k] # None /\ req' = InWords!Answer(r, InWords!ForQuantity(memo[k].result, y.quantity))
  BY <1>1, <1>4, <1>6, <1>10, MemoStep
<1> QED
  BY <1>7, <1>8, <1>9, <1>10

LEMMA CallStep == ASSUME GatewayInv, NEW r \in PartsRequests, InWords!Call(r) PROVE GatewayInv'
<1>1. PICK y : y = req[r]
  OBVIOUS
<1>2. PICK k : k = y.key
  OBVIOUS
<1>4. req[r] # None /\ y.stage = "spacing" /\ UNCHANGED memo
  BY <1>1 DEF InWords!Call
<1>5. Fits(y) /\ y.quantity \in Quantities /\ k \in InWords!SharedKeys
  BY <1>1, <1>2, <1>4, RequestFits
<1>6. Fits(InWords!AwaitKey(y, k))
  BY <1>5, WaitingFits
<1>7. CASE ~InWords!SourceLookup(k) /\ InWords!IsFresh(k)
  <2>1. memo[k] # None /\ UNCHANGED <<flight, fetches>>
    BY <1>1, <1>2, <1>7, Zenon DEF InWords!Call, InWords!IsFresh
  <2>2. \/ req' = InWords!Answer(r, InWords!ForQuantity(memo[k].result, y.quantity))
        \/ req' = [req EXCEPT ![r].stage = "source", ![r].key = None, ![r].at = @ + 1]
    BY <1>1, <1>2, <1>7, Zenon DEF InWords!Call
  <2>3. CASE req' = InWords!Answer(r, InWords!ForQuantity(memo[k].result, y.quantity))
    BY <1>1, <1>4, <1>5, <2>1, <2>3, MemoStep
  <2>4. CASE req' = [req EXCEPT ![r].stage = "source", ![r].key = None, ![r].at = @ + 1]
    <3>1. req' = [req EXCEPT ![r] = OnwardAfterWait(y)]
      BY <1>1, <1>4, <2>4, WrittenRequests, Zenon
    <3> QED
      BY <1>4, <1>5, <2>1, <3>1, MovingOnFits, LookupStep DEF Lookup
  <2> QED
    BY <2>2, <2>3, <2>4
<1>8. CASE ~(~InWords!SourceLookup(k) /\ InWords!IsFresh(k))
  <2>1. req' = [req EXCEPT ![r] = InWords!AwaitKey(@, k)]
    BY <1>1, <1>2, <1>8, Zenon DEF InWords!Call
  <2>2. req' = [req EXCEPT ![r] = InWords!AwaitKey(y, k)]
    BY <1>1, <2>1
  <2>3. Lookup(r, InWords!AwaitKey(y, k))
    BY <1>6, <2>2 DEF Lookup
  <2>4. CASE flight[k] # None
    <3>1. UNCHANGED <<flight, fetches>>
      BY <1>1, <1>2, <1>8, <2>4, Zenon DEF InWords!Call, InWords!SourceLookup
    <3> QED
      BY <1>4, <2>3, <3>1, LookupStep
  <2>5. CASE flight[k] = None
    <3>1. flight' = [flight EXCEPT ![k] = [quantity |-> y.quantity, format |-> "json"]] /\ fetches' = [fetches EXCEPT ![k] = @ + 1]
      BY <1>1, <1>2, <1>8, <2>5, Zenon DEF InWords!Call, InWords!SourceLookup
    <3> QED
      BY <1>4, <1>5, <2>3, <2>5, <3>1, StartStep
  <2> QED
    BY <2>4, <2>5
<1> QED
  BY <1>7, <1>8

LEMMA NothingFoundStep == ASSUME GatewayInv, NEW r \in PartsRequests, InWords!NothingFound(r) PROVE GatewayInv'
<1>1. PICK y : y = req[r]
  OBVIOUS
<1>2. req[r] # None /\ UNCHANGED <<memo, flight, fetches>> /\ req' = InWords!Answer(r, InWords!Result(FALSE, y.quantity, "handoff"))
  BY <1>1 DEF InWords!NothingFound
<1>3. Fits(y) /\ y.quantity \in Quantities
  BY <1>1, <1>2, RequestFits
<1>4. PICK a : a = InWords!Result(FALSE, y.quantity, "handoff")
  OBVIOUS
<1>5. a \in GatewayResults /\ a.quantity = y.quantity
  BY <1>3, <1>4, GatewayResultFits DEF Reasons
<1>6. Fits(ToldAfterWait(y, a))
  BY <1>3, <1>5, AnswerFits
<1>7. req' = [req EXCEPT ![r] = ToldAfterWait(y, a)]
  BY <1>1, <1>2, <1>4, WrittenAnswers, Zenon
<1> QED
  BY <1>2, <1>6, <1>7, LookupStep DEF Lookup

LEMMA KnownFits ==
    ASSUME NEW found \in BOOLEAN, NEW n \in Quantities
    PROVE  InWords!Known(found, n) \in Memos /\ InWords!Known(found, n).result.quantity = n
<1>1. PICK a : a = InWords!Result(found, n, "ok")
  OBVIOUS
<1>2. a \in GatewayResults /\ a.quantity = n
  BY <1>1, GatewayResultFits DEF Reasons
<1> QED
  BY <1>1, <1>2 DEF InWords!Known, Memos

\* an entry is written, dropped or aged
LEMMA MemoChanges ==
    ASSUME MemosInv, NEW k \in InWords!Keys, NEW x \in Memos \cup {None}, memo' = [memo EXCEPT ![k] = x],
           \A q \in InWords!Queries, n \in Quantities : k = <<"chain", q, n>> /\ x # None => x.result.quantity = n
    PROVE  MemosInv'
<1>1. memo' \in [InWords!Keys -> Memos \cup {None}]
  BY DEF MemosInv
<1>2. ASSUME NEW q \in InWords!Queries, NEW n \in Quantities, memo'[<<"chain", q, n>>] # None
      PROVE  memo'[<<"chain", q, n>>].result.quantity = n
  <2>1. PICK c : c = <<"chain", q, n>>
    OBVIOUS
  <2>2. c \in InWords!Keys
    BY <2>1 DEF InWords!Keys
  <2>3. memo'[c] = IF c = k THEN x ELSE memo[c]
    BY <2>2 DEF MemosInv
  <2>4. CASE c = k
    BY <1>2, <2>1, <2>3, <2>4
  <2>5. CASE c # k
    BY <1>2, <2>1, <2>3, <2>5 DEF MemosInv
  <2> QED
    BY <2>4, <2>5
<1> QED
  BY <1>1, <1>2 DEF MemosInv

LEMMA SharedEntry ==
    ASSUME MemosInv, NEW k \in InWords!SharedKeys, NEW x \in Memos \cup {None}, memo' = [memo EXCEPT ![k] = x] PROVE MemosInv'
<1>1. k \in InWords!Keys
  BY DEF InWords!Keys
<1>2. \A q, n : k # <<"chain", q, n>>
  BY DEF InWords!SharedKeys, InWords!Public
<1> QED
  BY <1>1, <1>2, MemoChanges

LEMMA FlightFits == ASSUME FetchesInv, NEW k \in InWords!SharedKeys, flight[k] # None PROVE flight[k].quantity \in Quantities
<1>1. flight[k] \in GatewayFlights
  BY DEF FetchesInv
<1> QED
  BY <1>1 DEF GatewayFlights

LEMMA BrightDataRefusesStep == ASSUME GatewayInv, NEW k \in InWords!SharedKeys, InWords!BrightDataRefuses(k) PROVE GatewayInv'
<1>1. flight[k] # None /\ flight' = [flight EXCEPT ![k].format = "raw"] /\ UNCHANGED <<req, memo, fetches>>
  BY DEF InWords!BrightDataRefuses
<1>2. flight[k] \in GatewayFlights
  BY <1>1 DEF GatewayInv, FetchesInv
<1>3. PICK x : x = [flight[k] EXCEPT !.format = "raw"]
  OBVIOUS
<1>4. x \in GatewayFlights
  BY <1>2, <1>3 DEF GatewayFlights
<1>5. x # None
  BY <1>4, GatewayAssumption
<1>6. flight' = [flight EXCEPT ![k] = x]
  BY <1>1, <1>3, Zenon
<1>7. flight' \in [InWords!SharedKeys -> GatewayFlights \cup {None}]
  BY <1>4, <1>6 DEF GatewayInv, FetchesInv
<1>8. \A j \in InWords!SharedKeys : flight'[j] = IF j = k THEN x ELSE flight[j]
  BY <1>6 DEF GatewayInv, FetchesInv
<1>9. \A j \in InWords!SharedKeys : (flight'[j] = None) = (flight[j] = None)
  BY <1>1, <1>5, <1>8
<1>10. FetchesInv'
  BY <1>1, <1>7, <1>9 DEF GatewayInv, FetchesInv
<1> QED
  BY <1>1, <1>10 DEF GatewayInv, LookupsFit, MemosInv

\* a call that others share ends, and everybody who waits for it resumes
LEMMA SettledStep ==
    ASSUME GatewayInv, NEW k \in InWords!SharedKeys, flight[k] # None,
           flight' = [flight EXCEPT ![k] = None], fetches' = [fetches EXCEPT ![k] = @ - 1],
           NEW result \in GatewayResults, req' = InWords!Resumed(k, result),
           NEW x \in Memos \cup {None}, UNCHANGED memo \/ memo' = [memo EXCEPT ![k] = x]
    PROVE  GatewayInv'
<1>1. LookupsFit(req')
  BY ResumedFits DEF GatewayInv
<1>2. FetchesInv'
  BY FetchEnds DEF GatewayInv
<1>3. MemosInv'
  <2>1. CASE UNCHANGED memo
    BY <2>1 DEF GatewayInv, MemosInv
  <2>2. CASE memo' = [memo EXCEPT ![k] = x]
    BY <2>2, SharedEntry DEF GatewayInv
  <2> QED
    BY <2>1, <2>2
<1> QED
  BY <1>1, <1>2, <1>3 DEF GatewayInv, LookupsFit

LEMMA BrightDataAnswersStep ==
    ASSUME GatewayInv, NEW k \in InWords!SharedKeys, NEW outcome \in InWords!BrightDataOutcomes, InWords!BrightDataAnswers(k, outcome)
    PROVE  GatewayInv'
<1>1. PICK n : n = flight[k].quantity
  OBVIOUS
<1>2. PICK found : found = (outcome = "found")
  OBVIOUS
<1>3. PICK why : why = IF outcome \in {"found", "empty"} THEN "ok" ELSE outcome
  OBVIOUS
<1>4. PICK result : result = InWords!Result(found, n, why)
  OBVIOUS
<1>5. PICK x : x = InWords!Known(found, n)
  OBVIOUS
<1>6. /\ flight[k] # None /\ flight' = [flight EXCEPT ![k] = None] /\ fetches' = [fetches EXCEPT ![k] = @ - 1]
      /\ req' = InWords!Resumed(k, result) /\ (UNCHANGED memo \/ memo' = [memo EXCEPT ![k] = x])
  BY <1>1, <1>2, <1>3, <1>4, <1>5, Zenon DEF InWords!BrightDataAnswers
<1>7. n \in Quantities /\ found \in BOOLEAN /\ why \in Reasons
  BY <1>1, <1>2, <1>3, <1>6, FlightFits DEF GatewayInv, InWords!BrightDataOutcomes, Reasons
<1>8. result \in GatewayResults /\ x \in Memos
  BY <1>4, <1>5, <1>7, GatewayResultFits, KnownFits
<1> QED
  BY <1>6, <1>8, SettledStep

LEMMA SourceAnswersStep ==
    ASSUME GatewayInv, NEW k \in InWords!SharedKeys, NEW outcome \in InWords!PublicOutcomes, InWords!SourceAnswers(k, outcome)
    PROVE  GatewayInv'
<1>1. PICK n : n = flight[k].quantity
  OBVIOUS
<1>2. PICK found : found = (outcome = "found")
  OBVIOUS
<1>3. PICK ok, failed : ok = InWords!Result(found, n, "ok") /\ failed = InWords!Result(FALSE, n, "failed")
  OBVIOUS
<1>4. PICK x : x = InWords!Known(found, n)
  OBVIOUS
<1>5. flight[k] # None /\ flight' = [flight EXCEPT ![k] = None] /\ fetches' = [fetches EXCEPT ![k] = @ - 1]
  BY DEF InWords!SourceAnswers
<1>6. n \in Quantities /\ found \in BOOLEAN
  BY <1>1, <1>2, <1>5, FlightFits DEF GatewayInv
<1>7. ok \in GatewayResults /\ failed \in GatewayResults /\ x \in Memos
  BY <1>3, <1>4, <1>6, GatewayResultFits, KnownFits DEF Reasons
<1>8. CASE outcome \in {"found", "empty"}
  <2>1. req' = InWords!Resumed(k, ok) /\ memo' = [memo EXCEPT ![k] = x]
    BY <1>1, <1>2, <1>3, <1>4, <1>8, Zenon DEF InWords!SourceAnswers
  <2> QED
    BY <1>5, <1>7, <2>1, SettledStep
<1>9. CASE outcome \notin {"found", "empty"} /\ memo[k] # None
  <2>1. PICK known : known = memo[k].result
    OBVIOUS
  <2>2. k \in InWords!Keys
    BY DEF InWords!Keys
  <2>3. known \in GatewayResults
    BY <1>9, <2>1, <2>2, MemoFits DEF GatewayInv
  <2>4. req' = InWords!Resumed(k, known) /\ UNCHANGED memo
    BY <1>9, <2>1, Zenon DEF InWords!SourceAnswers
  <2> QED
    BY <1>5, <1>7, <2>3, <2>4, SettledStep
<1>10. CASE outcome \notin {"found", "empty"} /\ memo[k] = None
  <2>1. req' = InWords!Resumed(k, failed) /\ UNCHANGED memo
    BY <1>1, <1>3, <1>10, Zenon DEF InWords!SourceAnswers
  <2> QED
    BY <1>5, <1>7, <2>1, SettledStep
<1> QED
  BY <1>8, <1>9, <1>10

LEMMA ProviderAnswersStep ==
    ASSUME GatewayInv, NEW r \in PartsRequests, NEW found \in BOOLEAN, InWords!ProviderAnswers(r, found) PROVE GatewayInv'
<1>1. PICK y : y = req[r]
  OBVIOUS
<1>2. PICK q, n : q = y.query /\ n = y.quantity
  OBVIOUS
<1>3. PICK k : k = <<"chain", q, n>>
  OBVIOUS
<1>4. PICK known : known = InWords!Known(found, n)
  OBVIOUS
<1>5. PICK a : a = known.result
  OBVIOUS
<1>6. req[r] # None /\ UNCHANGED <<flight, fetches>>
  BY DEF InWords!ProviderAnswers
<1>7. Fits(y) /\ n \in Quantities /\ q \in InWords!Queries
  BY <1>1, <1>2, <1>6, RequestFits
<1>8. k \in InWords!Keys
  BY <1>3, <1>7 DEF InWords!Keys
<1>9. known \in Memos /\ a.quantity = n
  BY <1>4, <1>5, <1>7, KnownFits
<1>10. a \in GatewayResults
  BY <1>5, <1>9 DEF Memos
<1>11. \/ req' = InWords!Answer(r, a) /\ memo' = [memo EXCEPT ![k] = known]
       \/ req' = [req EXCEPT ![r].at = @ + 1] /\ UNCHANGED memo
  BY <1>1, <1>2, <1>3, <1>4, <1>5, Zenon DEF InWords!ProviderAnswers
<1>12. CASE req' = InWords!Answer(r, a) /\ memo' = [memo EXCEPT ![k] = known]
  <2>1. PICK x : x = ToldAfterWait(y, a)
    OBVIOUS
  <2>2. req' = [req EXCEPT ![r] = x]
    BY <1>1, <1>6, <1>12, <2>1, WrittenAnswers, Zenon
  <2>3. Fits(x)
    BY <1>2, <1>7, <1>9, <1>10, <2>1, AnswerFits
  <2>4. LookupsFit(req')
    BY <2>2, <2>3, LookupChanges DEF GatewayInv, Fits
  <2>5. \A p \in InWords!Queries, m \in Quantities : k = <<"chain", p, m>> => known.result.quantity = m
    BY <1>3, <1>5, <1>9
  <2>6. MemosInv'
    BY <1>8, <1>9, <1>12, <2>5, MemoChanges DEF GatewayInv
  <2> QED
    BY <1>6, <2>4, <2>6 DEF GatewayInv, LookupsFit, FetchesInv
<1>13. CASE req' = [req EXCEPT ![r].at = @ + 1] /\ UNCHANGED memo
  <2>1. req' = [req EXCEPT ![r] = Onward(y)]
    BY <1>1, <1>6, <1>13, WrittenRequests, Zenon
  <2> QED
    BY <1>6, <1>7, <1>13, <2>1, MovingOnFits, LookupStep DEF Lookup
<1> QED
  BY <1>11, <1>12, <1>13

LEMMA EntryAgesStep == ASSUME GatewayInv, NEW k \in InWords!Keys, InWords!EntryAges(k) PROVE GatewayInv'
<1>1. memo[k] # None /\ UNCHANGED <<req, flight, fetches>>
  BY DEF InWords!EntryAges
<1>2. PICK x : x = [memo[k] EXCEPT !.age = "stale"]
  OBVIOUS
<1>3. memo' = [memo EXCEPT ![k] = None] \/ memo' = [memo EXCEPT ![k] = x]
  BY <1>2, Zenon DEF InWords!EntryAges
<1>4. memo[k] \in Memos /\ MemosInv
  BY <1>1 DEF GatewayInv, MemosInv
<1>5. x \in Memos /\ x.result = memo[k].result
  BY <1>2, <1>4 DEF Memos
<1>6. MemosInv'
  <2>1. CASE memo' = [memo EXCEPT ![k] = None]
    BY <1>4, <2>1, MemoChanges
  <2>2. CASE memo' = [memo EXCEPT ![k] = x]
    <3>1. \A q \in InWords!Queries, n \in Quantities : k = <<"chain", q, n>> => x.result.quantity = n
      BY <1>1, <1>4, <1>5 DEF MemosInv
    <3> QED
      BY <1>4, <1>5, <2>2, <3>1, MemoChanges
  <2> QED
    BY <1>3, <2>1, <2>2
<1> QED
  BY <1>1, <1>6 DEF GatewayInv, LookupsFit, FetchesInv

LEMMA GatewayRests == ASSUME GatewayInv, UNCHANGED <<req, memo, flight, fetches>> PROVE GatewayInv'
BY DEF GatewayInv, LookupsFit, MemosInv, FetchesInv

LEMMA GatewayStep == ASSUME GatewayInv, InWords!GatewayNext PROVE GatewayInv'
<1>1. CASE \E r \in PartsRequests, q \in InWords!Queries, n \in Quantities, u \in Subjects : InWords!Search(r, q, n, u)
  BY <1>1, GatewaySearchStep
<1>2. CASE \E k \in InWords!SharedKeys : InWords!BrightDataRefuses(k)
  BY <1>2, BrightDataRefusesStep
<1>3. CASE \E k \in InWords!SharedKeys, outcome \in InWords!BrightDataOutcomes : InWords!BrightDataAnswers(k, outcome)
  BY <1>3, BrightDataAnswersStep
<1>4. CASE \E r \in PartsRequests : InWords!VisitSource(r) \/ InWords!Call(r) \/ InWords!NothingFound(r)
  BY <1>4, VisitSourceStep, CallStep, NothingFoundStep
<1>5. CASE \E k \in InWords!SharedKeys, outcome \in InWords!PublicOutcomes : InWords!SourceAnswers(k, outcome)
  BY <1>5, SourceAnswersStep
<1>6. CASE \E r \in PartsRequests, found \in InWords!ProviderFinds : InWords!ProviderAnswers(r, found)
  BY <1>6, ProviderAnswersStep DEF InWords!ProviderFinds
<1>7. CASE \E k \in InWords!Keys : InWords!EntryAges(k)
  BY <1>7, EntryAgesStep
<1>8. CASE \E b \in InWords!Counters : InWords!WindowPasses(b)
  BY <1>8, GatewayRests DEF InWords!WindowPasses
<1>9. CASE \E s \in paused : InWords!PauseEnds(s)
  BY <1>9, GatewayRests DEF InWords!PauseEnds
<1> QED
  BY <1>1, <1>2, <1>3, <1>4, <1>5, <1>6, <1>7, <1>8, <1>9 DEF InWords!GatewayNext

LEMMA GatewayStarts == ASSUME InWords!GatewayInit PROVE GatewayInv
BY DEF GatewayInv, LookupsFit, MemosInv, FetchesInv, InWords!GatewayInit, InWords!Keys

LEMMA LookupsShared == ASSUME GatewayInv PROVE InWords!SharedLookupsAreSound
BY DEF GatewayInv, LookupsFit, FetchesInv, AnswersFit, InWords!SharedLookupsAreSound

(***************************************************************************)
(* The compile jobs: what is on its way between page and worker belongs to *)
(* calls of that worker; a request is received once; and only calls that   *)
(* are answered are cancelled.                                             *)
(***************************************************************************)
Answers == {"none", "waits", "cancelled", "unsupported", "blocked", "failed", "timed-out", "compiled"}
JobStates ==
    [answer : Answers, mode : OneWorker!Modes, aborted : BOOLEAN, timer : BOOLEAN, expired : BOOLEAN, listens : BOOLEAN, from : Compilations]
Requests == [type : {"compile", "cancel"}, id : Compilations]
Responses == [type : {"progress", "invalid", "compiled", "failed", "cancelled"}, id : Compilations]
WorkerStates == [runs : BOOLEAN, inbox : Seq(Requests), outbox : Seq(Responses)]
HandlerStates == [stage : {"none", "preparing", "bridge", "hashing", "done"}, cancelled : BOOLEAN, product : {"none", "hex", "malformed"}]
IsAnswered(b) == b.answer \notin {"none", "waits"}
\* a call's state b, with the state h of its handler and whether its worker runs
JobSound(j, b, h, running) ==
    /\ b.from = j
    /\ b.listens = (b.answer = "waits")
    /\ b.timer \/ b.listens => b.answer = "waits" /\ ~b.aborted
    /\ b.answer = "compiled" => h.product = "hex" /\ h.stage = "done" /\ ~b.aborted
    /\ b.answer = "cancelled" => b.aborted
    /\ b.answer = "timed-out" => b.expired
    /\ b.answer = "none" => h.stage = "none"
    /\ h.cancelled => IsAnswered(b)
    /\ ~OneWorkerForAll /\ running => b.answer = "waits"
\* what is on its way to the worker w, and from a worker
RequestSound(w, m, b, h) ==
    /\ OneWorker!WorkerOf(m.id) = w
    /\ m.type = "compile" => h.stage = "none" /\ b.answer # "none"
    /\ m.type = "cancel" => IsAnswered(b)
ResponseSound(m, b, h) ==
    /\ m.type = "compiled" => h.product = "hex" /\ h.stage = "done"
    /\ m.type = "cancelled" => IsAnswered(b)
Sent(box) == {box[n] : n \in DOMAIN box}
Once(box) == \A m, n \in DOMAIN box : box[m].type = "compile" /\ box[m] = box[n] => m = n
MessagesSound(w, x, jobs, handlers) ==
    /\ Once(x.inbox)
    /\ \A m \in Sent(x.inbox) : RequestSound(w, m, jobs[m.id], handlers[m.id])
    /\ \A m \in Sent(x.outbox) : ResponseSound(m, jobs[m.id], handlers[m.id])
JobsInv ==
    /\ job \in [Compilations -> JobStates] /\ worker \in [Compilations -> WorkerStates] /\ handler \in [Compilations -> HandlerStates]
    /\ \A j \in Compilations : JobSound(j, job[j], handler[j], worker[j].runs)
    /\ \A w \in Compilations : MessagesSound(w, worker[w], job, handler)

(***************************************************************************)
(* The compile jobs: what a message adds to a channel or takes from it.    *)
(***************************************************************************)
LEMMA SentNothing == Sent(<<>>) = {} /\ Once(<<>>)
BY DEF Sent, Once

LEMMA SentMore ==
    ASSUME NEW S, NEW s \in Seq(S), NEW m \in S
    PROVE  Append(s, m) \in Seq(S) /\ Sent(Append(s, m)) = Sent(s) \cup {m}
<1>1. PICK t : t = Append(s, m)
  OBVIOUS
<1>2. t \in Seq(S) /\ Len(t) = Len(s) + 1 /\ t[Len(s) + 1] = m /\ \A i \in 1 .. Len(s) : t[i] = s[i]
  BY <1>1
<1>3. PICK n : n = Len(s)
  OBVIOUS
<1>4. n \in Nat /\ DOMAIN t = 1 .. n + 1 /\ DOMAIN s = 1 .. n /\ t[n + 1] = m
  BY <1>2, <1>3
<1>5. \A i \in 1 .. n : i \in 1 .. n + 1 /\ t[i] = s[i]
  BY <1>2, <1>3, <1>4
<1>6. \A i \in 1 .. n + 1 : i \in 1 .. n \/ i = n + 1
  BY <1>4
<1>7. n + 1 \in 1 .. n + 1
  BY <1>4
<1>8. Sent(t) = Sent(s) \cup {m}
  BY <1>4, <1>5, <1>6, <1>7 DEF Sent
<1> QED
  BY <1>1, <1>2, <1>8

LEMMA OnceMore ==
    ASSUME NEW s \in Seq(Requests), Once(s), NEW m \in Requests, m.type = "compile" => m \notin Sent(s)
    PROVE  Once(Append(s, m))
<1>1. PICK t : t = Append(s, m)
  OBVIOUS
<1>2. Len(t) = Len(s) + 1 /\ t[Len(s) + 1] = m /\ (\A i \in 1 .. Len(s) : t[i] = s[i]) /\ DOMAIN t = 1 .. Len(t)
  BY <1>1
<1>3. PICK n : n = Len(s)
  OBVIOUS
<1>4. n \in Nat /\ DOMAIN t = 1 .. n + 1 /\ DOMAIN s = 1 .. n /\ t[n + 1] = m /\ \A i \in 1 .. n : t[i] = s[i]
  BY <1>2, <1>3
<1>5. ASSUME NEW i \in DOMAIN t, NEW j \in DOMAIN t, t[i].type = "compile", t[i] = t[j] PROVE i = j
  <2>1. CASE i \in 1 .. n /\ j \in 1 .. n
    BY <1>4, <1>5, <2>1 DEF Once
  <2>2. CASE i = n + 1 /\ j = n + 1
    BY <2>2
  <2>3. CASE i \in 1 .. n /\ j = n + 1
    BY <1>4, <1>5, <2>3 DEF Sent
  <2>4. CASE i = n + 1 /\ j \in 1 .. n
    BY <1>4, <1>5, <2>4 DEF Sent
  <2>5. \A k \in 1 .. n + 1 : k \in 1 .. n \/ k = n + 1
    BY <1>4
  <2> QED
    BY <1>4, <2>1, <2>2, <2>3, <2>4, <2>5
<1> QED
  BY <1>1, <1>5 DEF Once

LEMMA SentLess ==
    ASSUME NEW S, NEW s \in Seq(S), s # <<>>
    PROVE  /\ Head(s) \in S /\ Head(s) \in Sent(s) /\ Tail(s) \in Seq(S) /\ Sent(Tail(s)) \subseteq Sent(s)
           /\ Once(s) => Once(Tail(s)) /\ (Head(s).type = "compile" => Head(s) \notin Sent(Tail(s)))
<1>1. PICK t, h : t = Tail(s) /\ h = Head(s)
  OBVIOUS
<1>2. t \in Seq(S) /\ Len(t) = Len(s) - 1 /\ h = s[1] /\ h \in S /\ Len(s) >= 1 /\ \A i \in 1 .. Len(t) : t[i] = s[i + 1]
  BY <1>1
<1>3. PICK n : n = Len(t)
  OBVIOUS
<1>4. n \in Nat /\ DOMAIN t = 1 .. n /\ DOMAIN s = 1 .. n + 1 /\ \A i \in 1 .. n : t[i] = s[i + 1]
  BY <1>2, <1>3
<1>5. \A i \in 1 .. n : i + 1 \in 1 .. n + 1 /\ i + 1 # 1
  BY <1>4
<1>6. 1 \in 1 .. n + 1 /\ \A i, j \in 1 .. n : i + 1 = j + 1 => i = j
  BY <1>4
<1>7. h \in Sent(s) /\ Sent(t) \subseteq Sent(s)
  BY <1>2, <1>4, <1>5, <1>6 DEF Sent
<1>8. ASSUME Once(s) PROVE Once(t) /\ (h.type = "compile" => h \notin Sent(t))
  <2>1. Once(t)
    <3>1. ASSUME NEW i \in 1 .. n, NEW j \in 1 .. n, t[i].type = "compile", t[i] = t[j] PROVE i = j
      <4>1. s[i + 1].type = "compile" /\ s[i + 1] = s[j + 1] /\ i + 1 \in DOMAIN s /\ j + 1 \in DOMAIN s
        BY <1>4, <1>5, <3>1
      <4>2. i + 1 = j + 1
        BY <1>8, <4>1, Zenon DEF Once
      <4> QED
        BY <1>6, <4>2
    <3> QED
      BY <1>4, <3>1 DEF Once
  <2>2. ASSUME h.type = "compile", NEW i \in 1 .. n, t[i] = h PROVE FALSE
    BY <1>2, <1>4, <1>5, <1>6, <1>8, <2>2 DEF Once
  <2> QED
    BY <1>4, <2>1, <2>2 DEF Sent
<1> QED
  BY <1>1, <1>2, <1>7, <1>8

LEMMA MessagesTyped ==
    ASSUME NEW x \in WorkerStates
    PROVE  x.inbox \in Seq(Requests) /\ x.outbox \in Seq(Responses) /\ Sent(x.inbox) \subseteq Requests /\ Sent(x.outbox) \subseteq Responses
<1>1. x.inbox \in Seq(Requests) /\ x.outbox \in Seq(Responses)
  BY DEF WorkerStates
<1>2. Sent(x.inbox) \subseteq Requests
  BY <1>1, ElementOfSeq DEF Sent
<1>3. Sent(x.outbox) \subseteq Responses
  BY <1>1, ElementOfSeq DEF Sent
<1> QED
  BY <1>1, <1>2, <1>3

\* what calls and handlers do leaves the messages of a worker sound
Advance(jobs, then, handlers, next) ==
    \A i \in Compilations :
        /\ jobs[i].answer # "none" => then[i].answer # "none"
        /\ IsAnswered(jobs[i]) => IsAnswered(then[i])
        /\ handlers[i].stage = "done" => next[i] = handlers[i]
LEMMA MessagesKept ==
    ASSUME NEW jobs, NEW then, NEW handlers, NEW next, NEW w, NEW x \in WorkerStates, MessagesSound(w, x, jobs, handlers),
           Advance(jobs, then, handlers, next), \A m \in Sent(x.inbox) : m.type = "compile" => next[m.id].stage = "none"
    PROVE  MessagesSound(w, x, then, next)
<1>1. Sent(x.inbox) \subseteq Requests /\ Sent(x.outbox) \subseteq Responses
  BY MessagesTyped
<1>2. ASSUME NEW m \in Sent(x.inbox) PROVE RequestSound(w, m, then[m.id], next[m.id])
  <2>1. m.id \in Compilations
    BY <1>1 DEF Requests
  <2>2. RequestSound(w, m, jobs[m.id], handlers[m.id])
    BY DEF MessagesSound
  <2> QED
    BY <2>1, <2>2 DEF RequestSound, Advance
<1>3. ASSUME NEW m \in Sent(x.outbox) PROVE ResponseSound(m, then[m.id], next[m.id])
  <2>1. m.id \in Compilations
    BY <1>1 DEF Responses
  <2>2. ResponseSound(m, jobs[m.id], handlers[m.id])
    BY DEF MessagesSound
  <2> QED
    BY <2>1, <2>2 DEF ResponseSound, Advance
<1> QED
  BY <1>2, <1>3 DEF MessagesSound

LEMMA Posting ==
    ASSUME NEW jobs, NEW handlers, NEW w, NEW x \in WorkerStates, MessagesSound(w, x, jobs, handlers),
           NEW m \in Requests, RequestSound(w, m, jobs[m.id], handlers[m.id]), m.type = "compile" => m \notin Sent(x.inbox)
    PROVE  LET y == OneWorker!Post(x, m) IN y \in WorkerStates /\ MessagesSound(w, y, jobs, handlers) /\ y.runs = x.runs
<1>1. PICK box : box = Append(x.inbox, m)
  OBVIOUS
<1>2. PICK y : y = OneWorker!Post(x, m)
  OBVIOUS
<1>3. x.inbox \in Seq(Requests)
  BY MessagesTyped
<1>4. box \in Seq(Requests) /\ Sent(box) = Sent(x.inbox) \cup {m}
  BY <1>1, <1>3, SentMore
<1>5. Once(box)
  BY <1>1, <1>3, OnceMore DEF MessagesSound
<1>6. CASE x.runs
  <2>1. y = [x EXCEPT !.inbox = box]
    BY <1>1, <1>2, <1>6, Zenon DEF OneWorker!Post
  <2>2. y \in WorkerStates /\ y.inbox = box /\ y.outbox = x.outbox /\ y.runs = x.runs
    BY <1>4, <2>1 DEF WorkerStates
  <2> QED
    BY <1>2, <1>4, <1>5, <2>2 DEF MessagesSound
<1>7. CASE ~x.runs
  <2>1. y = x
    BY <1>2, <1>7 DEF OneWorker!Post, WorkerStates
  <2> QED
    BY <1>2, <2>1
<1> QED
  BY <1>6, <1>7

LEMMA Answering ==
    ASSUME NEW jobs, NEW handlers, NEW w, NEW x \in WorkerStates, MessagesSound(w, x, jobs, handlers),
           NEW m \in Responses, ResponseSound(m, jobs[m.id], handlers[m.id]), NEW y, y = [x EXCEPT !.outbox = Append(@, m)]
    PROVE  y \in WorkerStates /\ MessagesSound(w, y, jobs, handlers) /\ y.runs = x.runs
<1>1. PICK box : box = Append(x.outbox, m)
  OBVIOUS
<1>2. x.outbox \in Seq(Responses)
  BY MessagesTyped
<1>3. box \in Seq(Responses) /\ Sent(box) = Sent(x.outbox) \cup {m}
  BY <1>1, <1>2, SentMore
<1>4. y = [x EXCEPT !.outbox = box]
  BY <1>1
<1>5. y \in WorkerStates /\ y.inbox = x.inbox /\ y.outbox = box /\ y.runs = x.runs
  BY <1>3, <1>4 DEF WorkerStates
<1> QED
  BY <1>3, <1>5 DEF MessagesSound

\* the worker's next request, and the page's next response
Taken(w, x, y, m, jobs, handlers) ==
    /\ y \in WorkerStates /\ MessagesSound(w, y, jobs, handlers) /\ y.runs = x.runs
    /\ m \in Requests /\ RequestSound(w, m, jobs[m.id], handlers[m.id]) /\ (m.type = "compile" => m \notin Sent(y.inbox))
LEMMA RequestTaken ==
    ASSUME NEW jobs, NEW handlers, NEW w, NEW x \in WorkerStates, MessagesSound(w, x, jobs, handlers), x.inbox # <<>>,
           NEW m, m = Head(x.inbox), NEW y, y = [x EXCEPT !.inbox = Tail(@)]
    PROVE  Taken(w, x, y, m, jobs, handlers)
<1>1. PICK box : box = Tail(x.inbox)
  OBVIOUS
<1>2. x.inbox \in Seq(Requests) /\ Once(x.inbox)
  BY MessagesTyped DEF MessagesSound
<1>3. m \in Requests /\ m \in Sent(x.inbox) /\ box \in Seq(Requests) /\ Sent(box) \subseteq Sent(x.inbox)
      /\ Once(box) /\ (m.type = "compile" => m \notin Sent(box))
  BY <1>1, <1>2, SentLess
<1>4. y = [x EXCEPT !.inbox = box]
  BY <1>1
<1>5. y \in WorkerStates /\ y.inbox = box /\ y.outbox = x.outbox /\ y.runs = x.runs
  BY <1>3, <1>4 DEF WorkerStates
<1> QED
  BY <1>3, <1>5 DEF MessagesSound, Taken

LEMMA ResponseTaken ==
    ASSUME NEW jobs, NEW handlers, NEW w, NEW x \in WorkerStates, MessagesSound(w, x, jobs, handlers), x.outbox # <<>>,
           NEW m, m = Head(x.outbox), NEW y, y = [x EXCEPT !.outbox = Tail(@)]
    PROVE  /\ y \in WorkerStates /\ MessagesSound(w, y, jobs, handlers) /\ y.runs = x.runs
           /\ m \in Responses /\ ResponseSound(m, jobs[m.id], handlers[m.id])
<1>1. PICK box : box = Tail(x.outbox)
  OBVIOUS
<1>2. x.outbox \in Seq(Responses)
  BY MessagesTyped
<1>3. m \in Responses /\ m \in Sent(x.outbox) /\ box \in Seq(Responses) /\ Sent(box) \subseteq Sent(x.outbox)
  BY <1>1, <1>2, SentLess
<1>4. y = [x EXCEPT !.outbox = box]
  BY <1>1
<1>5. y \in WorkerStates /\ y.inbox = x.inbox /\ y.outbox = box /\ y.runs = x.runs
  BY <1>3, <1>4 DEF WorkerStates
<1> QED
  BY <1>3, <1>5 DEF MessagesSound

LEMMA Terminating ==
    ASSUME NEW jobs, NEW handlers, NEW w, NEW x \in WorkerStates, MessagesSound(w, x, jobs, handlers), NEW y, y = OneWorker!Terminated(x)
    PROVE  y \in WorkerStates /\ MessagesSound(w, y, jobs, handlers) /\ (OneWorkerForAll \/ ~y.runs) /\ (OneWorkerForAll => y = x)
<1>1. CASE OneWorkerForAll
  BY <1>1 DEF OneWorker!Terminated
<1>2. CASE ~OneWorkerForAll
  <2>1. y = [runs |-> FALSE, inbox |-> <<>>, outbox |-> <<>>]
    BY <1>2 DEF OneWorker!Terminated
  <2>2. y \in WorkerStates /\ y.inbox = <<>> /\ y.outbox = <<>> /\ ~y.runs
    BY <2>1 DEF WorkerStates
  <2> QED
    BY <1>2, <2>2, SentNothing DEF MessagesSound
<1> QED
  BY <1>1, <1>2

(***************************************************************************)
(* What the actions do to a call, its worker and its handler.              *)
(***************************************************************************)
LEMMA WorkerOfCall ==
    ASSUME NEW j \in Compilations
    PROVE  OneWorker!WorkerOf(j) \in Compilations /\ (~OneWorkerForAll => OneWorker!WorkerOf(j) = j)
BY DEF OneWorker!WorkerOf

LEMMA JobsFit ==
    ASSUME JobsInv, NEW j \in Compilations
    PROVE  /\ job[j] \in JobStates /\ handler[j] \in HandlerStates /\ worker[j] \in WorkerStates
           /\ JobSound(j, job[j], handler[j], worker[j].runs) /\ MessagesSound(j, worker[j], job, handler)
BY DEF JobsInv

\* a call and its worker change
LEMMA CallAndWorkerStep ==
    ASSUME JobsInv, NEW j \in Compilations, NEW v, v = OneWorker!WorkerOf(j), NEW b \in JobStates, NEW x \in WorkerStates,
           job' = [job EXCEPT ![j] = b], worker' = [worker EXCEPT ![v] = x], UNCHANGED handler,
           JobSound(j, b, handler[j], x.runs), job[j].answer # "none" => b.answer # "none", IsAnswered(job[j]) => IsAnswered(b),
           MessagesSound(v, x, job', handler)
    PROVE  JobsInv'
<1>1. v \in Compilations /\ (~OneWorkerForAll => v = j)
  BY WorkerOfCall
<1>2. job' \in [Compilations -> JobStates] /\ worker' \in [Compilations -> WorkerStates] /\ handler' \in [Compilations -> HandlerStates]
  BY DEF JobsInv
<1>3. \A i \in Compilations : job'[i] = (IF i = j THEN b ELSE job[i]) /\ worker'[i] = (IF i = v THEN x ELSE worker[i]) /\ handler'[i] = handler[i]
  BY DEF JobsInv
<1>4. Advance(job, job', handler, handler')
  BY <1>3 DEF Advance
<1>5. ASSUME NEW i \in Compilations PROVE JobSound(i, job'[i], handler'[i], worker'[i].runs)
  <2>1. JobSound(i, job[i], handler[i], worker[i].runs)
    BY JobsFit
  <2>2. CASE i = j
    <3>1. CASE OneWorkerForAll
      BY <1>3, <2>2, <3>1 DEF JobSound
    <3>2. CASE ~OneWorkerForAll
      BY <1>1, <1>3, <2>2, <3>2
    <3> QED
      BY <3>1, <3>2
  <2>3. CASE i # j
    <3>1. CASE OneWorkerForAll
      BY <1>3, <2>1, <2>3, <3>1 DEF JobSound
    <3>2. CASE ~OneWorkerForAll
      BY <1>1, <1>3, <2>1, <2>3, <3>2
    <3> QED
      BY <3>1, <3>2
  <2> QED
    BY <2>2, <2>3
<1>6. ASSUME NEW w \in Compilations PROVE MessagesSound(w, worker'[w], job', handler')
  <2>1. CASE w = v
    BY <1>3, <2>1
  <2>2. CASE w # v
    <3>1. PICK y : y = worker[w]
      OBVIOUS
    <3>2. y \in WorkerStates /\ MessagesSound(w, y, job, handler)
      BY <3>1, JobsFit
    <3>3. \A m \in Sent(y.inbox) : m.type = "compile" => handler'[m.id].stage = "none"
      BY <3>2 DEF MessagesSound, RequestSound
    <3>4. MessagesSound(w, y, job', handler')
      BY <1>4, <3>2, <3>3, MessagesKept
    <3> QED
      BY <1>3, <2>2, <3>1, <3>4
  <2> QED
    BY <2>1, <2>2
<1> QED
  BY <1>2, <1>5, <1>6 DEF JobsInv

\* a handler and a worker change
HandlerChange(j, v, h, x) ==
    /\ UNCHANGED job /\ handler' = [handler EXCEPT ![j] = h] /\ worker' = [worker EXCEPT ![v] = x]
    /\ JobSound(j, job[j], h, worker[j].runs) /\ x.runs = worker[v].runs /\ (handler[j].stage = "done" => h = handler[j])
    /\ \A w \in Compilations : w # v => \A m \in Sent(worker[w].inbox) : m.type = "compile" /\ m.id = j => h.stage = "none"
    /\ MessagesSound(v, x, job, handler')
LEMMA HandlerStep ==
    ASSUME JobsInv, NEW j \in Compilations, NEW v \in Compilations, NEW h \in HandlerStates, NEW x \in WorkerStates, HandlerChange(j, v, h, x)
    PROVE  JobsInv'
<1>1. job' \in [Compilations -> JobStates] /\ worker' \in [Compilations -> WorkerStates] /\ handler' \in [Compilations -> HandlerStates]
  BY DEF JobsInv, HandlerChange
<1>2. \A i \in Compilations :
         job'[i] = job[i] /\ worker'[i] = (IF i = v THEN x ELSE worker[i]) /\ handler'[i] = (IF i = j THEN h ELSE handler[i])
  BY DEF JobsInv, HandlerChange
<1>3. Advance(job, job', handler, handler')
  BY <1>2 DEF Advance, HandlerChange
<1>4. ASSUME NEW i \in Compilations PROVE JobSound(i, job'[i], handler'[i], worker'[i].runs)
  <2>1. JobSound(i, job[i], handler[i], worker[i].runs) /\ worker'[i].runs = worker[i].runs
    BY <1>2, JobsFit DEF HandlerChange
  <2> QED
    BY <1>2, <2>1 DEF HandlerChange
<1>5. ASSUME NEW w \in Compilations PROVE MessagesSound(w, worker'[w], job', handler')
  <2>1. CASE w = v
    BY <1>2, <2>1 DEF HandlerChange
  <2>2. CASE w # v
    <3>1. PICK y : y = worker[w]
      OBVIOUS
    <3>2. y \in WorkerStates /\ MessagesSound(w, y, job, handler)
      BY <3>1, JobsFit
    <3>3. ASSUME NEW m \in Sent(y.inbox), m.type = "compile" PROVE handler'[m.id].stage = "none"
      <4>1. m.id \in Compilations
        BY <3>2, MessagesTyped DEF Requests
      <4>2. handler[m.id].stage = "none"
        BY <3>2, <3>3 DEF MessagesSound, RequestSound
      <4> QED
        BY <1>2, <2>2, <3>1, <3>3, <4>1, <4>2 DEF HandlerChange
    <3>4. MessagesSound(w, y, job', handler')
      BY <1>3, <3>2, <3>3, MessagesKept
    <3> QED
      BY <1>2, <2>2, <3>1, <3>4
  <2> QED
    BY <2>1, <2>2
<1> QED
  BY <1>1, <1>4, <1>5 DEF JobsInv

\* the call's own actions, that leave workers alone
LEMMA AnswerOnlyStep ==
    ASSUME JobsInv, NEW j \in Compilations, NEW b \in JobStates, job' = [job EXCEPT ![j] = b], UNCHANGED <<worker, handler>>,
           JobSound(j, b, handler[j], worker[j].runs), job[j].answer # "none" => b.answer # "none", IsAnswered(job[j]) => IsAnswered(b)
    PROVE  JobsInv'
<1>1. PICK v : v = OneWorker!WorkerOf(j)
  OBVIOUS
<1>2. v \in Compilations /\ (~OneWorkerForAll => v = j)
  BY <1>1, WorkerOfCall
<1>3. PICK x : x = worker[v]
  OBVIOUS
<1>4. x \in WorkerStates /\ MessagesSound(v, x, job, handler)
  BY <1>2, <1>3, JobsFit
<1>5. worker' = [worker EXCEPT ![v] = x]
  BY <1>2, <1>3 DEF JobsInv
<1>6. Advance(job, job', handler, handler)
  <2>1. \A i \in Compilations : job'[i] = IF i = j THEN b ELSE job[i]
    BY DEF JobsInv
  <2> QED
    BY <2>1 DEF Advance
<1>7. \A m \in Sent(x.inbox) : m.type = "compile" => handler[m.id].stage = "none"
  BY <1>4 DEF MessagesSound, RequestSound
<1>8. MessagesSound(v, x, job', handler)
  BY <1>4, <1>6, <1>7, MessagesKept
<1>9. JobSound(j, b, handler[j], x.runs)
  <2>1. CASE OneWorkerForAll
    BY <2>1 DEF JobSound
  <2>2. CASE ~OneWorkerForAll
    BY <1>2, <1>3, <2>2
  <2> QED
    BY <2>1, <2>2
<1> QED
  BY <1>1, <1>4, <1>5, <1>8, <1>9, CallAndWorkerStep

LEMMA RefusalStep ==
    ASSUME JobsInv, NEW j \in Compilations, NEW status \in {"cancelled", "unsupported", "blocked", "failed"}, job[j].answer = "none",
           status = "cancelled" => job[j].aborted, job' = [job EXCEPT ![j].answer = status], UNCHANGED <<worker, handler>>
    PROVE  JobsInv'
<1>1. PICK b : b = [job[j] EXCEPT !.answer = status]
  OBVIOUS
<1>2. job[j] \in JobStates /\ JobSound(j, job[j], handler[j], worker[j].runs)
  BY JobsFit
<1>3. /\ b \in JobStates /\ b.answer = status /\ b.from = job[j].from /\ b.listens = job[j].listens /\ b.timer = job[j].timer
      /\ b.aborted = job[j].aborted
  BY <1>1, <1>2 DEF JobStates, Answers
<1>4. JobSound(j, b, handler[j], worker[j].runs) /\ IsAnswered(b) /\ b.answer # "none"
  BY <1>2, <1>3 DEF JobSound, IsAnswered
<1>5. job' = [job EXCEPT ![j] = b]
  BY <1>1, Zenon
<1> QED
  BY <1>3, <1>4, <1>5, AnswerOnlyStep

LEMMA CompileStep == ASSUME JobsInv, NEW j \in Compilations, NEW how \in OneWorker!Modes, OneWorker!Compile(j, how) PROVE JobsInv'
<1>1. PICK v : v = OneWorker!WorkerOf(j)
  OBVIOUS
<1>2. v \in Compilations /\ (~OneWorkerForAll => v = j)
  BY <1>1, WorkerOfCall
<1>3. PICK m : m = [type |-> "compile", id |-> j]
  OBVIOUS
<1>4. PICK x : x = [worker[v] EXCEPT !.runs = TRUE]
  OBVIOUS
<1>5. PICK y : y = OneWorker!Post(x, m)
  OBVIOUS
<1>6. PICK b : b = [job[j] EXCEPT !.answer = "waits", !.mode = how, !.timer = (how # "untimed"), !.listens = TRUE]
  OBVIOUS
<1>7. /\ job[j].answer = "none" /\ ~job[j].aborted /\ worker' = [worker EXCEPT ![v] = y] /\ UNCHANGED handler
  BY <1>1, <1>3, <1>4, <1>5 DEF OneWorker!Compile
<1>8. job[j] \in JobStates /\ JobSound(j, job[j], handler[j], worker[j].runs)
  BY JobsFit
<1>9. job' = [job EXCEPT ![j] = b]
  <2>1. job' = [job EXCEPT ![j].answer = "waits", ![j].mode = how, ![j].timer = (how # "untimed"), ![j].listens = TRUE]
    BY DEF OneWorker!Compile
  <2> QED
    BY <1>6, <1>8, <2>1 DEF JobsInv, JobStates
<1>10. b \in JobStates /\ b.answer = "waits" /\ b.from = job[j].from /\ b.listens /\ ~b.aborted
  BY <1>6, <1>7, <1>8 DEF JobStates, Answers
<1>11. JobSound(j, b, handler[j], TRUE) /\ ~IsAnswered(job[j])
  BY <1>7, <1>8, <1>10 DEF JobSound, IsAnswered
<1>12. worker[v] \in WorkerStates /\ MessagesSound(v, worker[v], job, handler)
  BY <1>2, JobsFit
<1>13. x \in WorkerStates /\ x.inbox = worker[v].inbox /\ x.outbox = worker[v].outbox /\ x.runs
  BY <1>4, <1>12 DEF WorkerStates
<1>14. MessagesSound(v, x, job, handler)
  BY <1>12, <1>13 DEF MessagesSound
<1>15. Advance(job, job', handler, handler) /\ job'[j] = b
  <2>1. \A i \in Compilations : job'[i] = IF i = j THEN b ELSE job[i]
    BY <1>9 DEF JobsInv
  <2> QED
    BY <1>10, <1>11, <2>1 DEF Advance
<1>16. \A n \in Sent(x.inbox) : n.type = "compile" => handler[n.id].stage = "none"
  BY <1>14 DEF MessagesSound, RequestSound
<1>17. MessagesSound(v, x, job', handler)
  BY <1>13, <1>14, <1>15, <1>16, MessagesKept
<1>18. m \in Requests /\ m.id = j /\ m.type = "compile"
  BY <1>3 DEF Requests
<1>19. RequestSound(v, m, job'[m.id], handler[m.id])
  BY <1>1, <1>7, <1>8, <1>10, <1>15, <1>18 DEF RequestSound, JobSound
<1>20. m \notin Sent(x.inbox)
  BY <1>7, <1>14, <1>18 DEF MessagesSound, RequestSound
<1>21. y \in WorkerStates /\ MessagesSound(v, y, job', handler) /\ y.runs = x.runs
  BY <1>5, <1>13, <1>17, <1>18, <1>19, <1>20, Posting
<1>22. JobSound(j, b, handler[j], y.runs)
  BY <1>11, <1>13, <1>21 DEF JobSound
<1> QED
  BY <1>1, <1>7, <1>9, <1>10, <1>11, <1>21, <1>22, CallAndWorkerStep

\* finish: the answer, and neither listeners nor a timer
EndsAs(c, b, status) ==
    /\ c \in JobStates /\ c.answer = status /\ c.listens = FALSE /\ c.timer = FALSE
    /\ c.from = b.from /\ c.aborted = b.aborted /\ c.expired = b.expired
LEMMA FinishedFits ==
    ASSUME NEW b \in JobStates, b.answer = "waits", NEW status \in Answers
    PROVE  EndsAs(OneWorker!Finished(b, status), b, status)
<1>1. PICK c : c = OneWorker!Finished(b, status)
  OBVIOUS
<1>2. c = [b EXCEPT !.answer = status, !.listens = FALSE, !.timer = FALSE]
  BY <1>1 DEF OneWorker!Finished
<1>3. EndsAs(c, b, status)
  BY <1>2 DEF JobStates, EndsAs
<1> QED
  BY <1>1, <1>3

LEMMA CancelStep ==
    ASSUME JobsInv, NEW j \in Compilations, NEW v, v = OneWorker!WorkerOf(j), NEW b \in JobStates, IsAnswered(b),
           job' = [job EXCEPT ![j] = b], worker' = [worker EXCEPT ![v] = OneWorker!Cancelled(@, j)], UNCHANGED handler,
           JobSound(j, b, handler[j], FALSE)
    PROVE  JobsInv'
<1>1. v \in Compilations /\ (~OneWorkerForAll => v = j)
  BY WorkerOfCall
<1>2. PICK x : x = worker[v]
  OBVIOUS
<1>3. PICK m : m = [type |-> "cancel", id |-> j]
  OBVIOUS
<1>4. PICK y : y = OneWorker!Post(x, m)
  OBVIOUS
<1>5. PICK z : z = OneWorker!Terminated(y)
  OBVIOUS
<1>6. worker' = [worker EXCEPT ![v] = z]
  BY <1>2, <1>3, <1>4, <1>5, Zenon DEF OneWorker!Cancelled
<1>7. x \in WorkerStates /\ MessagesSound(v, x, job, handler)
  BY <1>1, <1>2, JobsFit
<1>8. Advance(job, job', handler, handler) /\ job'[j] = b
  <2>1. \A i \in Compilations : job'[i] = IF i = j THEN b ELSE job[i]
    BY DEF JobsInv
  <2> QED
    BY <2>1 DEF Advance, IsAnswered
<1>9. \A n \in Sent(x.inbox) : n.type = "compile" => handler[n.id].stage = "none"
  BY <1>7 DEF MessagesSound, RequestSound
<1>10. MessagesSound(v, x, job', handler)
  BY <1>7, <1>8, <1>9, MessagesKept
<1>11. m \in Requests /\ m.id = j /\ m.type = "cancel"
  BY <1>3 DEF Requests
<1>12. RequestSound(v, m, job'[m.id], handler[m.id])
  BY <1>8, <1>11 DEF RequestSound
<1>13. y \in WorkerStates /\ MessagesSound(v, y, job', handler)
  BY <1>4, <1>7, <1>10, <1>11, <1>12, Posting
<1>14. z \in WorkerStates /\ MessagesSound(v, z, job', handler) /\ (OneWorkerForAll \/ ~z.runs)
  BY <1>5, <1>13, Terminating
<1>15. JobSound(j, b, handler[j], z.runs)
  BY <1>14 DEF JobSound
<1>16. b.answer # "none"
  BY DEF IsAnswered
<1> QED
  BY <1>6, <1>14, <1>15, <1>16, CallAndWorkerStep

LEMMA AbortStep == ASSUME JobsInv, NEW j \in Compilations, OneWorker!Abort(j) PROVE JobsInv'
<1>1. job[j] \in JobStates /\ JobSound(j, job[j], handler[j], worker[j].runs)
  BY JobsFit
<1>2. PICK a : a = [job[j] EXCEPT !.aborted = TRUE]
  OBVIOUS
<1>3. /\ a \in JobStates /\ a.aborted /\ a.answer = job[j].answer /\ a.from = job[j].from /\ a.listens = job[j].listens
      /\ a.timer = job[j].timer /\ a.expired = job[j].expired
  BY <1>1, <1>2 DEF JobStates
<1>4. PICK b : b = OneWorker!Finished(a, "cancelled")
  OBVIOUS
<1>5. ~IsAnswered(job[j]) /\ UNCHANGED handler
  BY DEF OneWorker!Abort, OneWorker!Answered, IsAnswered
<1>6. job' = [job EXCEPT ![j] = b]
  BY <1>2, <1>4, Zenon DEF OneWorker!Abort
<1>7. CASE job[j].answer = "waits"
  <2>0. "cancelled" \in Answers
    BY DEF Answers
  <2>1. b \in JobStates /\ IsAnswered(b) /\ b.answer = "cancelled" /\ b.listens = FALSE /\ b.timer = FALSE /\ b.from = a.from /\ b.aborted = a.aborted
    <3>1. a \in JobStates /\ a.answer = "waits"
      BY <1>3, <1>7
    <3>2. EndsAs(b, a, "cancelled")
      BY <1>4, <2>0, <3>1, FinishedFits
    <3> QED
      BY <3>2 DEF EndsAs, IsAnswered
  <2>2. JobSound(j, b, handler[j], FALSE)
    BY <1>1, <1>3, <2>1 DEF JobSound
  <2>3. job[j].listens
    BY <1>1, <1>7 DEF JobSound
  <2>4. worker' = [worker EXCEPT ![OneWorker!WorkerOf(j)] = OneWorker!Cancelled(@, j)]
    BY <2>3, Zenon DEF OneWorker!Abort
  <2> QED
    BY <1>5, <1>6, <2>1, <2>2, <2>4, CancelStep
<1>8. CASE job[j].answer = "none"
  <2>1. b = a
    BY <1>3, <1>4, <1>8 DEF OneWorker!Finished
  <2>2. JobSound(j, b, handler[j], worker[j].runs)
    BY <1>1, <1>3, <1>8, <2>1 DEF JobSound, IsAnswered
  <2>3. ~job[j].listens
    BY <1>1, <1>8 DEF JobSound
  <2>4. worker' = [worker EXCEPT ![OneWorker!WorkerOf(j)] = @]
    BY <2>3, Zenon DEF OneWorker!Abort
  <2>5. UNCHANGED worker
    BY <2>4, WorkerOfCall DEF JobsInv
  <2> QED
    BY <1>3, <1>5, <1>6, <1>8, <2>1, <2>2, <2>5, AnswerOnlyStep
<1> QED
  BY <1>5, <1>7, <1>8 DEF IsAnswered

LEMMA TimerStep == ASSUME JobsInv, NEW j \in Compilations, OneWorker!TimerFires(j) PROVE JobsInv'
<1>1. job[j] \in JobStates /\ JobSound(j, job[j], handler[j], worker[j].runs)
  BY JobsFit
<1>2. PICK a : a = [job[j] EXCEPT !.expired = TRUE]
  OBVIOUS
<1>3. /\ a \in JobStates /\ a.aborted = job[j].aborted /\ a.answer = job[j].answer /\ a.from = job[j].from /\ a.expired
  BY <1>1, <1>2 DEF JobStates
<1>4. PICK b : b = OneWorker!Finished(a, "timed-out")
  OBVIOUS
<1>5. job[j].timer /\ UNCHANGED handler /\ worker' = [worker EXCEPT ![OneWorker!WorkerOf(j)] = OneWorker!Cancelled(@, j)]
  BY DEF OneWorker!TimerFires
<1>6. job' = [job EXCEPT ![j] = b]
  BY <1>2, <1>4, Zenon DEF OneWorker!TimerFires
<1>7. job[j].answer = "waits"
  BY <1>1, <1>5 DEF JobSound
<1>8. b \in JobStates /\ IsAnswered(b) /\ b.answer = "timed-out" /\ b.listens = FALSE /\ b.timer = FALSE /\ b.from = a.from /\ b.expired = a.expired
  <2>1. a \in JobStates /\ a.answer = "waits"
    BY <1>3, <1>7
  <2>2. "timed-out" \in Answers
    BY DEF Answers
  <2>3. EndsAs(b, a, "timed-out")
    BY <1>4, <2>1, <2>2, FinishedFits
  <2> QED
    BY <2>3 DEF EndsAs, IsAnswered
<1>9. JobSound(j, b, handler[j], FALSE)
  BY <1>1, <1>3, <1>8 DEF JobSound
<1> QED
  BY <1>5, <1>6, <1>8, <1>9, CancelStep

\* listeners of a worker hear an event, and some may end with it
LEMMA HeardStep ==
    ASSUME JobsInv, NEW w \in Compilations, NEW x \in WorkerStates, MessagesSound(w, x, job, handler), UNCHANGED handler,
           NEW heard, job' = [j \in Compilations |-> IF OneWorker!WorkerOf(j) = w THEN heard[j] ELSE job[j]],
           worker' = [worker EXCEPT ![w] = x],
           \A j \in Compilations : OneWorker!WorkerOf(j) = w =>
               /\ heard[j] \in JobStates /\ JobSound(j, heard[j], handler[j], x.runs)
               /\ (job[j].answer # "none" => heard[j].answer # "none") /\ (IsAnswered(job[j]) => IsAnswered(heard[j]))
    PROVE  JobsInv'
<1>1. job' \in [Compilations -> JobStates] /\ worker' \in [Compilations -> WorkerStates] /\ handler' \in [Compilations -> HandlerStates]
  BY DEF JobsInv
<1>2. \A i \in Compilations :
         /\ job'[i] = (IF OneWorker!WorkerOf(i) = w THEN heard[i] ELSE job[i])
         /\ worker'[i] = (IF i = w THEN x ELSE worker[i]) /\ handler'[i] = handler[i]
  BY DEF JobsInv
<1>3. Advance(job, job', handler, handler')
  BY <1>2 DEF Advance
<1>4. ASSUME NEW i \in Compilations PROVE JobSound(i, job'[i], handler'[i], worker'[i].runs)
  <2>1. JobSound(i, job[i], handler[i], worker[i].runs)
    BY JobsFit
  <2>2. PICK v : v = OneWorker!WorkerOf(i)
    OBVIOUS
  <2>3. ~OneWorkerForAll => v = i
    BY <2>2, WorkerOfCall
  <2>4. PICK b, h : b = job'[i] /\ h = handler'[i]
    OBVIOUS
  <2>5. CASE v = w
    <3>1. JobSound(i, b, h, x.runs)
      BY <1>2, <2>2, <2>4, <2>5
    <3>2. CASE OneWorkerForAll
      BY <2>4, <3>1, <3>2 DEF JobSound
    <3>3. CASE ~OneWorkerForAll
      BY <1>2, <2>3, <2>4, <2>5, <3>1, <3>3
    <3> QED
      BY <3>2, <3>3
  <2>6. CASE v # w
    <3>1. JobSound(i, b, h, worker[i].runs)
      BY <1>2, <2>1, <2>2, <2>4, <2>6
    <3>2. CASE OneWorkerForAll
      BY <2>4, <3>1, <3>2 DEF JobSound
    <3>3. CASE ~OneWorkerForAll
      BY <1>2, <2>3, <2>4, <2>6, <3>1, <3>3
    <3> QED
      BY <3>2, <3>3
  <2> QED
    BY <2>5, <2>6
<1>5. ASSUME NEW v \in Compilations PROVE MessagesSound(v, worker'[v], job', handler')
  <2>1. PICK y : y = IF v = w THEN x ELSE worker[v]
    OBVIOUS
  <2>2. y \in WorkerStates /\ MessagesSound(v, y, job, handler)
    BY <2>1, JobsFit
  <2>3. \A m \in Sent(y.inbox) : m.type = "compile" => handler'[m.id].stage = "none"
    BY <2>2 DEF MessagesSound, RequestSound
  <2>4. MessagesSound(v, y, job', handler')
    BY <1>3, <2>2, <2>3, MessagesKept
  <2> QED
    BY <1>2, <2>1, <2>4
<1> QED
  BY <1>1, <1>4, <1>5 DEF JobsInv

LEMMA PageReceivesStep == ASSUME JobsInv, NEW w \in Compilations, OneWorker!PageReceives(w) PROVE JobsInv'
<1>1. PICK m : m = Head(worker[w].outbox)
  OBVIOUS
<1>2. PICK y : y = [worker[w] EXCEPT !.outbox = Tail(@)]
  OBVIOUS
<1>3. PICK heard : heard = [j \in Compilations |-> OneWorker!OnMessage(j, m)]
  OBVIOUS
<1>4. PICK ends : ends = \E j \in Compilations : OneWorker!WorkerOf(j) = w /\ job[j].listens /\ ~job'[j].listens
  OBVIOUS
<1>5. PICK x : x = IF ends THEN OneWorker!Terminated(y) ELSE y
  OBVIOUS
<1>6. worker[w].outbox # <<>> /\ UNCHANGED handler /\ worker' = [worker EXCEPT ![w] = x]
  BY <1>2, <1>4, <1>5, Zenon DEF OneWorker!PageReceives
<1>7. job' = [j \in Compilations |-> IF OneWorker!WorkerOf(j) = w THEN heard[j] ELSE job[j]]
  BY <1>1, <1>3 DEF OneWorker!PageReceives
<1>8. worker[w] \in WorkerStates /\ MessagesSound(w, worker[w], job, handler)
  BY JobsFit
<1>9. /\ y \in WorkerStates /\ MessagesSound(w, y, job, handler) /\ y.runs = worker[w].runs
      /\ m \in Responses /\ ResponseSound(m, job[m.id], handler[m.id])
  BY <1>1, <1>2, <1>6, <1>8, ResponseTaken
<1>10. /\ x \in WorkerStates /\ MessagesSound(w, x, job, handler)
       /\ ends => OneWorkerForAll \/ ~x.runs
       /\ ~OneWorkerForAll /\ x.runs => worker[w].runs
  <2>1. CASE ends
    BY <1>5, <1>9, <2>1, Terminating
  <2>2. CASE ~ends
    BY <1>5, <1>9, <2>2
  <2> QED
    BY <2>1, <2>2
<1>11. ASSUME NEW j \in Compilations, OneWorker!WorkerOf(j) = w
       PROVE  /\ heard[j] \in JobStates /\ JobSound(j, heard[j], handler[j], x.runs)
              /\ (job[j].answer # "none" => heard[j].answer # "none") /\ (IsAnswered(job[j]) => IsAnswered(heard[j]))
  <2>1. PICK b : b = job[j]
    OBVIOUS
  <2>2. b \in JobStates /\ JobSound(j, b, handler[j], worker[j].runs)
    BY <2>1, JobsFit
  <2>3. ~OneWorkerForAll => w = j
    BY <1>11, WorkerOfCall
  <2>4. job'[j] = heard[j]
    BY <1>7, <1>11
  <2>5. CASE heard[j] = b
    <3>1. JobSound(j, b, handler[j], x.runs)
      BY <1>10, <2>2, <2>3 DEF JobSound
    <3> QED
      BY <2>1, <2>2, <2>5, <3>1
  <2>6. ASSUME NEW status \in Answers, b.listens, heard[j] = OneWorker!Finished(b, status),
               status \in {"failed"} \cup (IF m.id = j THEN {"compiled", "cancelled"} ELSE {}), status # "failed" => m.type = status
        PROVE  /\ heard[j] \in JobStates /\ JobSound(j, heard[j], handler[j], x.runs)
               /\ (job[j].answer # "none" => heard[j].answer # "none") /\ (IsAnswered(job[j]) => IsAnswered(heard[j]))
    <3>1. b.answer = "waits" /\ ~b.aborted /\ b.from = j
      BY <2>2, <2>6 DEF JobSound
    <3>2. EndsAs(heard[j], b, status)
      BY <2>2, <2>6, <3>1, FinishedFits
    <3>3. ends
      BY <1>4, <1>11, <2>1, <2>4, <2>6, <3>2 DEF EndsAs
    <3>4. status = "compiled" => handler[j].product = "hex" /\ handler[j].stage = "done"
      BY <1>9, <2>6 DEF ResponseSound
    <3>5. status # "cancelled"
      BY <1>9, <2>1, <2>6, <3>1 DEF ResponseSound, IsAnswered
    <3>6. PICK c : c = heard[j]
      OBVIOUS
    <3>7. status \in {"failed", "compiled"}
      BY <2>6, <3>5
    <3>8. JobSound(j, c, handler[j], x.runs)
      BY <1>10, <2>2, <3>1, <3>2, <3>3, <3>4, <3>6, <3>7 DEF JobSound, EndsAs, IsAnswered
    <3> QED
      BY <3>2, <3>6, <3>7, <3>8 DEF EndsAs, IsAnswered
  <2>7. heard[j] = OneWorker!OnMessage(j, m)
    BY <1>3
  <2>8. CASE b.listens /\ m.type = "invalid"
    <3>1. heard[j] = OneWorker!Finished(b, "failed")
      BY <2>1, <2>7, <2>8 DEF OneWorker!OnMessage
    <3> QED
      BY <2>6, <2>8, <3>1 DEF Answers
  <2>9. CASE b.listens /\ m.type # "invalid" /\ ~(m.id # j \/ m.type = "progress")
    <3>1. heard[j] = OneWorker!Finished(b, m.type)
      BY <2>1, <2>7, <2>9 DEF OneWorker!OnMessage
    <3>2. m.type \in {"compiled", "failed", "cancelled"}
      BY <1>9, <2>9 DEF Responses
    <3> QED
      BY <2>6, <2>9, <3>1, <3>2 DEF Answers
  <2>10. CASE ~b.listens \/ (m.type # "invalid" /\ (m.id # j \/ m.type = "progress"))
    <3>1. heard[j] = b
      BY <2>1, <2>7, <2>10 DEF OneWorker!OnMessage
    <3> QED
      BY <2>5, <3>1
  <2> QED
    BY <2>8, <2>9, <2>10
<1> QED
  BY <1>6, <1>7, <1>10, <1>11, HeardStep

LEMMA WorkerErrorStep == ASSUME JobsInv, NEW w \in Compilations, OneWorker!WorkerError(w) PROVE JobsInv'
<1>1. PICK heard : heard = [j \in Compilations |-> IF job[j].listens THEN OneWorker!Finished(job[j], "failed") ELSE job[j]]
  OBVIOUS
<1>2. PICK x : x = OneWorker!Terminated(worker[w])
  OBVIOUS
<1>3. UNCHANGED handler /\ worker' = [worker EXCEPT ![w] = x]
  BY <1>2 DEF OneWorker!WorkerError
<1>4. job' = [j \in Compilations |-> IF OneWorker!WorkerOf(j) = w THEN heard[j] ELSE job[j]]
  <2>1. job' = [j \in Compilations |-> IF OneWorker!WorkerOf(j) = w /\ job[j].listens THEN OneWorker!Finished(job[j], "failed") ELSE job[j]]
    BY DEF OneWorker!WorkerError
  <2> QED
    BY <1>1, <2>1
<1>5. x \in WorkerStates /\ MessagesSound(w, x, job, handler) /\ (OneWorkerForAll \/ ~x.runs)
  BY <1>2, JobsFit, Terminating
<1>6. ASSUME NEW j \in Compilations, OneWorker!WorkerOf(j) = w
      PROVE  /\ heard[j] \in JobStates /\ JobSound(j, heard[j], handler[j], x.runs)
             /\ (job[j].answer # "none" => heard[j].answer # "none") /\ (IsAnswered(job[j]) => IsAnswered(heard[j]))
  <2>1. PICK b : b = job[j]
    OBVIOUS
  <2>2. b \in JobStates /\ JobSound(j, b, handler[j], worker[j].runs)
    BY <2>1, JobsFit
  <2>3. CASE b.listens
    <3>1. b.answer = "waits" /\ b.from = j
      BY <2>2, <2>3 DEF JobSound
    <3>2. PICK c : c = heard[j]
      OBVIOUS
    <3>3. c = OneWorker!Finished(b, "failed") /\ "failed" \in Answers
      BY <1>1, <2>1, <2>3, <3>2 DEF Answers
    <3>4. EndsAs(c, b, "failed")
      BY <2>2, <3>1, <3>3, FinishedFits
    <3>5. JobSound(j, c, handler[j], x.runs)
      BY <1>5, <2>2, <3>1, <3>4 DEF JobSound, EndsAs, IsAnswered
    <3> QED
      BY <3>2, <3>4, <3>5 DEF EndsAs, IsAnswered
  <2>4. CASE ~b.listens
    <3>1. heard[j] = b
      BY <1>1, <2>1, <2>4
    <3>2. JobSound(j, b, handler[j], x.runs)
      BY <1>5, <2>2 DEF JobSound
    <3> QED
      BY <2>1, <2>2, <3>1, <3>2
  <2> QED
    BY <2>3, <2>4
<1> QED
  BY <1>3, <1>4, <1>5, <1>6, HeardStep

LEMMA BabblesStep == ASSUME JobsInv, NEW w \in Compilations, OneWorker!WorkerBabbles(w) PROVE JobsInv'
<1>1. PICK m : m = [type |-> "invalid", id |-> w]
  OBVIOUS
<1>2. PICK x : x = [worker[w] EXCEPT !.outbox = Append(@, m)]
  OBVIOUS
<1>3. UNCHANGED <<job, handler>> /\ worker' = [worker EXCEPT ![w].outbox = Append(@, m)]
  BY <1>1 DEF OneWorker!WorkerBabbles
<1>4. worker' = [worker EXCEPT ![w] = x]
  BY <1>2, <1>3, Zenon
<1>5. m \in Responses /\ m.type = "invalid"
  BY <1>1 DEF Responses
<1>6. ResponseSound(m, job[m.id], handler[m.id])
  BY <1>5 DEF ResponseSound
<1>7. x \in WorkerStates /\ MessagesSound(w, x, job, handler) /\ x.runs = worker[w].runs
  BY <1>2, <1>5, <1>6, JobsFit, Answering
<1>8. PICK h : h = handler[w]
  OBVIOUS
<1>9. handler' = [handler EXCEPT ![w] = h] /\ UNCHANGED job
  BY <1>3, <1>8 DEF JobsInv
<1>10. \A v \in Compilations : \A n \in Sent(worker[v].inbox) : n.type = "compile" /\ n.id = w => h.stage = "none"
  BY <1>8, JobsFit DEF MessagesSound, RequestSound
<1>11. h \in HandlerStates /\ JobSound(w, job[w], h, worker[w].runs)
  BY <1>8, JobsFit
<1>12. MessagesSound(w, x, job, handler')
  BY <1>3, <1>7
<1>13. \A v \in Compilations : v # w => \A n \in Sent(worker[v].inbox) : n.type = "compile" /\ n.id = w => h.stage = "none"
  BY <1>10
<1>14. (handler[w].stage = "done" => h = handler[w]) /\ x \in WorkerStates /\ h \in HandlerStates /\ x.runs = worker[w].runs
  BY <1>7, <1>8, <1>11
<1>15. HandlerChange(w, w, h, x)
  BY <1>4, <1>9, <1>11, <1>12, <1>13, <1>14, Zenon DEF HandlerChange
<1> QED
  BY <1>14, <1>15, HandlerStep

LEMMA WorkerReceivesStep == ASSUME JobsInv, NEW w \in Compilations, OneWorker!WorkerReceives(w) PROVE JobsInv'
<1>1. PICK m : m = Head(worker[w].inbox)
  OBVIOUS
<1>2. PICK x : x = [worker[w] EXCEPT !.inbox = Tail(@)]
  OBVIOUS
<1>3. PICK i : i = m.id
  OBVIOUS
<1>4. PICK g : g = handler[i]
  OBVIOUS
<1>5. PICK h : h = CASE m.type = "compile" -> [g EXCEPT !.stage = "preparing"]
                     [] m.type = "cancel" /\ g.stage \in {"preparing", "bridge", "hashing"} -> [g EXCEPT !.cancelled = TRUE]
                     [] OTHER -> g
  OBVIOUS
<1>6. worker[w].inbox # <<>> /\ UNCHANGED job
  BY DEF OneWorker!WorkerReceives
<1>7. worker' = [worker EXCEPT ![w] = x]
  <2>1. worker' = [worker EXCEPT ![w].inbox = Tail(@)]
    BY DEF OneWorker!WorkerReceives
  <2> QED
    BY <1>2, <2>1, Zenon
<1>8. handler' = [handler EXCEPT ![i] = h]
  BY <1>1, <1>3, <1>4, <1>5, Zenon DEF OneWorker!WorkerReceives
<1>9. /\ x \in WorkerStates /\ MessagesSound(w, x, job, handler) /\ x.runs = worker[w].runs
      /\ m \in Requests /\ RequestSound(w, m, job[m.id], handler[m.id]) /\ (m.type = "compile" => m \notin Sent(x.inbox))
  <2>1. worker[w] \in WorkerStates /\ MessagesSound(w, worker[w], job, handler)
    BY JobsFit
  <2> QED
    <3>1. Taken(w, worker[w], x, m, job, handler)
      BY <1>1, <1>2, <1>6, <2>1, RequestTaken
    <3> QED
      BY <3>1 DEF Taken
<1>10. i \in Compilations /\ m.type \in {"compile", "cancel"} /\ m = [type |-> m.type, id |-> i]
  BY <1>3, <1>9 DEF Requests
<1>11. PICK b : b = job[i]
  OBVIOUS
<1>12. b \in JobStates /\ g \in HandlerStates /\ JobSound(i, b, g, worker[i].runs)
  BY <1>4, <1>10, <1>11, JobsFit
<1>13. RequestSound(w, m, b, g)
  BY <1>3, <1>4, <1>9, <1>11
<1>14. /\ h \in HandlerStates /\ JobSound(i, b, h, worker[i].runs) /\ (g.stage = "done" => h = g)
       /\ m.type = "cancel" => h.stage = g.stage
  <2>1. CASE m.type = "compile"
    <3>1. h = [g EXCEPT !.stage = "preparing"]
      BY <1>5, <2>1
    <3>2. h \in HandlerStates /\ h.cancelled = g.cancelled /\ g.stage = "none" /\ b.answer # "none"
      BY <1>12, <1>13, <2>1, <3>1 DEF HandlerStates, RequestSound
    <3>3. b.answer # "compiled"
      BY <1>12, <3>2 DEF JobSound
    <3> QED
      BY <1>12, <2>1, <3>2, <3>3 DEF JobSound
  <2>2. CASE m.type = "cancel" /\ g.stage \in {"preparing", "bridge", "hashing"}
    <3>1. h = [g EXCEPT !.cancelled = TRUE]
      BY <1>5, <2>2
    <3>2. h \in HandlerStates /\ h.product = g.product /\ h.stage = g.stage /\ IsAnswered(b)
      BY <1>12, <1>13, <2>2, <3>1 DEF HandlerStates, RequestSound
    <3> QED
      BY <1>12, <2>2, <3>2 DEF JobSound
  <2>3. CASE m.type = "cancel" /\ g.stage \notin {"preparing", "bridge", "hashing"}
    <3>1. h = g
      BY <1>5, <2>3
    <3> QED
      BY <1>12, <2>3, <3>1
  <2> QED
    BY <1>10, <2>1, <2>2, <2>3
<1>15. \A v \in Compilations : v # w => \A n \in Sent(worker[v].inbox) : n.type = "compile" /\ n.id = i => h.stage = "none"
  <2>1. OneWorker!WorkerOf(i) = w
    BY <1>3, <1>13 DEF RequestSound
  <2>2. ASSUME NEW v \in Compilations, NEW n \in Sent(worker[v].inbox), n.id = i PROVE v = w
    <3>1. MessagesSound(v, worker[v], job, handler)
      BY JobsFit
    <3>2. OneWorker!WorkerOf(n.id) = v
      BY <3>1 DEF MessagesSound, RequestSound
    <3> QED
      BY <2>1, <2>2, <3>2
  <2> QED
    BY <2>2
<1>16. \A j \in Compilations : handler'[j] = IF j = i THEN h ELSE handler[j]
  BY <1>8 DEF JobsInv
<1>17. Advance(job, job, handler, handler')
  BY <1>4, <1>14, <1>16 DEF Advance
<1>18. ASSUME NEW n \in Sent(x.inbox), n.type = "compile" PROVE handler'[n.id].stage = "none"
  <2>1. n \in Requests /\ handler[n.id].stage = "none"
    BY <1>9, <1>18, MessagesTyped DEF MessagesSound, RequestSound
  <2>2. n.id \in Compilations /\ n = [type |-> "compile", id |-> n.id]
    BY <1>18, <2>1 DEF Requests
  <2>3. CASE n.id = i /\ m.type = "compile"
    BY <1>9, <1>10, <2>2, <2>3
  <2>4. CASE n.id = i /\ m.type = "cancel"
    BY <1>4, <1>14, <1>16, <2>1, <2>2, <2>4
  <2>5. CASE n.id # i
    BY <1>16, <2>1, <2>2, <2>5
  <2> QED
    BY <1>10, <2>3, <2>4, <2>5
<1>19. MessagesSound(w, x, job, handler')
  BY <1>9, <1>17, <1>18, MessagesKept
<1>20. JobSound(i, job[i], h, worker[i].runs) /\ (handler[i].stage = "done" => h = handler[i])
  BY <1>4, <1>11, <1>14
<1>21. HandlerChange(i, w, h, x)
  BY <1>6, <1>7, <1>8, <1>9, <1>15, <1>19, <1>20, Zenon DEF HandlerChange
<1> QED
  BY <1>9, <1>10, <1>14, <1>21, HandlerStep

\* the handler of a call moves on, and may post
LEMMA PostsStep ==
    ASSUME JobsInv, NEW j \in Compilations, NEW h \in HandlerStates, UNCHANGED job, handler' = [handler EXCEPT ![j] = h],
           handler[j].stage \in {"preparing", "bridge", "hashing"}, h.stage \in {"bridge", "hashing", "done"},
           h.cancelled = handler[j].cancelled, NEW type \in {"progress", "compiled", "failed", "cancelled"},
           UNCHANGED worker \/ OneWorker!Posts(j, type),
           type = "compiled" => h.product = "hex" /\ h.stage = "done", type = "cancelled" => IsAnswered(job[j])
    PROVE  JobsInv'
<1>1. PICK v : v = OneWorker!WorkerOf(j)
  OBVIOUS
<1>2. v \in Compilations
  BY <1>1, WorkerOfCall
<1>3. PICK g, b : g = handler[j] /\ b = job[j]
  OBVIOUS
<1>4. b \in JobStates /\ JobSound(j, b, g, worker[j].runs) /\ g.stage # "none" /\ g.stage # "done"
  BY <1>3, JobsFit
<1>5. JobSound(j, b, h, worker[j].runs)
  BY <1>3, <1>4 DEF JobSound
<1>6. \A w \in Compilations : \A n \in Sent(worker[w].inbox) : n.type = "compile" => n.id # j
  BY <1>3, <1>4, JobsFit DEF MessagesSound, RequestSound
<1>7. PICK m : m = [type |-> type, id |-> j]
  OBVIOUS
<1>8. m \in Responses /\ m.type = type /\ m.id = j
  BY <1>7 DEF Responses
<1>9. PICK x0 : x0 = worker[v]
  OBVIOUS
<1>10. x0 \in WorkerStates /\ MessagesSound(v, x0, job, handler)
  BY <1>2, <1>9, JobsFit
<1>11. \A i \in Compilations : handler'[i] = IF i = j THEN h ELSE handler[i]
  BY DEF JobsInv
<1>12. Advance(job, job, handler, handler')
  BY <1>3, <1>4, <1>11 DEF Advance
<1>13. \A n \in Sent(x0.inbox) : n.type = "compile" => handler'[n.id].stage = "none"
  <2> SUFFICES ASSUME NEW n \in Sent(x0.inbox), n.type = "compile" PROVE handler'[n.id].stage = "none"
    OBVIOUS
  <2>1. n \in Requests /\ handler[n.id].stage = "none"
    BY <1>10, MessagesTyped DEF MessagesSound, RequestSound
  <2>2. n.id \in Compilations /\ n.id # j
    BY <1>2, <1>6, <1>9, <2>1 DEF Requests
  <2> QED
    BY <1>11, <2>1, <2>2
<1>14. MessagesSound(v, x0, job, handler')
  BY <1>10, <1>12, <1>13, MessagesKept
<1>15. ResponseSound(m, job[m.id], handler'[m.id])
  BY <1>8, <1>11 DEF ResponseSound
<1>16. PICK x : x = IF UNCHANGED worker THEN x0 ELSE [x0 EXCEPT !.outbox = Append(@, m)]
  OBVIOUS
<1>17. x \in WorkerStates /\ MessagesSound(v, x, job, handler') /\ x.runs = x0.runs /\ worker' = [worker EXCEPT ![v] = x]
  <2>1. CASE UNCHANGED worker
    <3>1. x = x0
      BY <1>16, <2>1
    <3>2. worker' = [worker EXCEPT ![v] = x0]
      BY <1>2, <1>9, <2>1 DEF JobsInv
    <3> QED
      BY <1>10, <1>14, <3>1, <3>2
  <2>2. CASE worker' # worker
    <3>1. x = [x0 EXCEPT !.outbox = Append(@, m)]
      BY <1>16, <2>2
    <3>2. x \in WorkerStates /\ MessagesSound(v, x, job, handler') /\ x.runs = x0.runs
      <4>1. PICK next : next = handler'
        OBVIOUS
      <4>2. MessagesSound(v, x0, job, next) /\ ResponseSound(m, job[m.id], next[m.id])
        BY <1>14, <1>15, <4>1
      <4>3. x \in WorkerStates /\ MessagesSound(v, x, job, next) /\ x.runs = x0.runs
        BY <1>8, <1>10, <3>1, <4>2, Answering
      <4> QED
        BY <4>1, <4>3
    <3>3. worker' = [worker EXCEPT ![v].outbox = Append(@, m)]
      BY <1>1, <1>7, <2>2 DEF OneWorker!Posts
    <3>4. worker' = [worker EXCEPT ![v] = x]
      BY <1>9, <3>1, <3>3, Zenon
    <3> QED
      BY <3>2, <3>4
  <2> QED
    BY <2>1, <2>2
<1>18. JobSound(j, job[j], h, worker[j].runs) /\ x.runs = worker[v].runs /\ (handler[j].stage = "done" => h = handler[j])
  BY <1>3, <1>4, <1>5, <1>9, <1>17
<1>19. \A w \in Compilations : w # v => \A n \in Sent(worker[w].inbox) : n.type = "compile" /\ n.id = j => h.stage = "none"
  BY <1>6
<1>20. HandlerChange(j, v, h, x)
  BY <1>17, <1>18, <1>19, Zenon DEF HandlerChange
<1> QED
  BY <1>2, <1>17, <1>20, HandlerStep

LEMMA HandlerMoves ==
    ASSUME JobsInv, NEW j \in Compilations, NEW stage \in {"bridge", "hashing", "done"}, NEW h, h = [handler[j] EXCEPT !.stage = stage]
    PROVE  h \in HandlerStates /\ h.stage = stage /\ h.cancelled = handler[j].cancelled /\ h.product = handler[j].product
<1>1. handler[j] \in HandlerStates
  BY JobsFit
<1> QED
  BY <1>1 DEF HandlerStates

LEMMA EndsStep ==
    ASSUME JobsInv, NEW j \in Compilations, handler[j].stage \in {"bridge", "hashing"}, NEW status \in {"compiled", "failed", "cancelled"},
           OneWorker!Ends(j, status), status = "compiled" => handler[j].product = "hex", status = "cancelled" => handler[j].cancelled
    PROVE  JobsInv'
<1>1. PICK h : h = [handler[j] EXCEPT !.stage = "done"]
  OBVIOUS
<1>2. h \in HandlerStates /\ h.stage = "done" /\ h.cancelled = handler[j].cancelled /\ h.product = handler[j].product
  BY <1>1, HandlerMoves
<1>3. UNCHANGED job /\ OneWorker!Posts(j, status) /\ handler' = [handler EXCEPT ![j] = h]
  <2>1. handler' = [handler EXCEPT ![j].stage = "done"] /\ UNCHANGED job /\ OneWorker!Posts(j, status)
    BY DEF OneWorker!Ends
  <2> QED
    BY <1>1, <2>1, Zenon
<1>4. handler[j].cancelled => IsAnswered(job[j])
  BY JobsFit DEF JobSound
<1> QED
  BY <1>2, <1>3, <1>4, PostsStep

LEMMA WorkerRunsStep == ASSUME JobsInv, NEW j \in Compilations, OneWorker!WorkerRuns(j) PROVE JobsInv'
<1>1. CASE OneWorker!Prepare(j)
  <2>1. PICK h : h = [handler[j] EXCEPT !.stage = "bridge"]
    BY Zenon
  <2>2. h \in HandlerStates /\ h.stage = "bridge" /\ h.cancelled = handler[j].cancelled
    BY <2>1, HandlerMoves
  <2>3. handler[j].stage = "preparing" /\ UNCHANGED job /\ OneWorker!Posts(j, "progress") /\ handler' = [handler EXCEPT ![j] = h]
    <3>1. /\ handler' = [handler EXCEPT ![j].stage = "bridge"] /\ handler[j].stage = "preparing"
          /\ UNCHANGED job /\ OneWorker!Posts(j, "progress")
      BY <1>1 DEF OneWorker!Prepare
    <3> QED
      BY <2>1, <3>1, Zenon
  <2> QED
    BY <2>2, <2>3, PostsStep
<1>2. CASE OneWorker!BridgeFails(j)
  <2>1. PICK status : status = IF handler[j].cancelled THEN "cancelled" ELSE "failed"
    OBVIOUS
  <2> QED
    BY <1>2, <2>1, EndsStep DEF OneWorker!BridgeFails
<1>3. ASSUME NEW product \in {"hex", "malformed"}, OneWorker!BridgeReturns(j, product) PROVE JobsInv'
  <2>1. handler[j].stage = "bridge"
    BY <1>3 DEF OneWorker!BridgeReturns
  <2>2. CASE handler[j].cancelled
    BY <1>3, <2>1, <2>2, EndsStep DEF OneWorker!BridgeReturns
  <2>3. CASE ~handler[j].cancelled
    <3>1. PICK h : h = [handler[j] EXCEPT !.stage = "hashing", !.product = product]
      OBVIOUS
    <3>2. h \in HandlerStates /\ h.stage = "hashing" /\ h.cancelled = handler[j].cancelled
      <4>1. handler[j] \in HandlerStates
        BY JobsFit
      <4> QED
        BY <3>1, <4>1 DEF HandlerStates
    <3>3. handler' = [handler EXCEPT ![j].stage = "hashing", ![j].product = product] /\ UNCHANGED <<job, worker>>
      BY <1>3, <2>3 DEF OneWorker!BridgeReturns
    <3>4. handler[j] \in HandlerStates
      BY JobsFit
    <3>5. handler' = [handler EXCEPT ![j] = h]
      BY <3>1, <3>3, <3>4 DEF JobsInv, HandlerStates
    <3>6. PICK type : type = "progress"
      OBVIOUS
    <3> QED
      BY <2>1, <3>2, <3>3, <3>5, <3>6, PostsStep
  <2> QED
    BY <2>2, <2>3
<1>4. CASE OneWorker!ArtifactVerified(j)
  <2>1. PICK status : status = CASE handler[j].product = "hex" -> "compiled"
                                 [] handler[j].product # "hex" /\ handler[j].cancelled -> "cancelled"
                                 [] OTHER -> "failed"
    OBVIOUS
  <2>2. handler[j].stage = "hashing" /\ OneWorker!Ends(j, status)
    BY <1>4, <2>1 DEF OneWorker!ArtifactVerified
  <2>3. /\ status \in {"compiled", "failed", "cancelled"}
        /\ status = "compiled" => handler[j].product = "hex"
        /\ status = "cancelled" => handler[j].cancelled
    BY <2>1
  <2> QED
    BY <2>2, <2>3, EndsStep
<1> QED
  BY <1>1, <1>2, <1>3, <1>4 DEF OneWorker!WorkerRuns

LEMMA JobsStep == ASSUME JobsInv, OneWorker!JobsNext PROVE JobsInv'
<1>1. ASSUME NEW j \in Compilations, NEW status \in {"cancelled", "unsupported", "blocked"}, OneWorker!Refuse(j, status) PROVE JobsInv'
  BY <1>1, RefusalStep DEF OneWorker!Refuse
<1>2. ASSUME NEW j \in Compilations, OneWorker!CreateWorkerThrows(j) PROVE JobsInv'
  <2>1. PICK status : status = "failed"
    OBVIOUS
  <2> QED
    BY <1>2, <2>1, RefusalStep DEF OneWorker!CreateWorkerThrows
<1> QED
  BY <1>1, <1>2, CompileStep, AbortStep, TimerStep, WorkerRunsStep, PageReceivesStep, WorkerErrorStep, BabblesStep, WorkerReceivesStep
     DEF OneWorker!JobsNext

LEMMA JobsStart == ASSUME OneWorker!JobsInit PROVE JobsInv
<1>1. ASSUME NEW j \in Compilations
      PROVE  /\ job[j] = [answer |-> "none", mode |-> "untimed", aborted |-> FALSE, timer |-> FALSE, expired |-> FALSE, listens |-> FALSE, from |-> j]
             /\ worker[j] = [runs |-> FALSE, inbox |-> <<>>, outbox |-> <<>>]
             /\ handler[j] = [stage |-> "none", cancelled |-> FALSE, product |-> "none"]
  BY DEF OneWorker!JobsInit
<1>2. ASSUME NEW j \in Compilations
      PROVE  job[j] \in JobStates /\ worker[j] \in WorkerStates /\ handler[j] \in HandlerStates
             /\ JobSound(j, job[j], handler[j], worker[j].runs) /\ MessagesSound(j, worker[j], job, handler)
  <2>1. PICK b, x, h : b = job[j] /\ x = worker[j] /\ h = handler[j]
    OBVIOUS
  <2>2. b \in JobStates /\ x \in WorkerStates /\ h \in HandlerStates
    <3>1. b = [answer |-> "none", mode |-> "untimed", aborted |-> FALSE, timer |-> FALSE, expired |-> FALSE, listens |-> FALSE, from |-> j]
      BY <1>1, <2>1
    <3>2. x = [runs |-> FALSE, inbox |-> <<>>, outbox |-> <<>>] /\ h = [stage |-> "none", cancelled |-> FALSE, product |-> "none"]
      BY <1>1, <2>1
    <3>3. b \in JobStates
      BY <3>1 DEF JobStates, Answers, OneWorker!Modes
    <3> QED
      BY <3>2, <3>3 DEF WorkerStates, HandlerStates
  <2>3. /\ b.answer = "none" /\ b.timer = FALSE /\ b.listens = FALSE /\ b.from = j
        /\ x.runs = FALSE /\ h.stage = "none" /\ h.cancelled = FALSE
    <3>1. b = [answer |-> "none", mode |-> "untimed", aborted |-> FALSE, timer |-> FALSE, expired |-> FALSE, listens |-> FALSE, from |-> j]
      BY <1>1, <2>1
    <3>2. x = [runs |-> FALSE, inbox |-> <<>>, outbox |-> <<>>] /\ h = [stage |-> "none", cancelled |-> FALSE, product |-> "none"]
      BY <1>1, <2>1
    <3> QED
      BY <3>1, <3>2
  <2>4. JobSound(j, b, h, x.runs) /\ x.inbox = <<>> /\ x.outbox = <<>>
    <3>1. JobSound(j, b, h, x.runs)
      BY <2>3 DEF JobSound
    <3>2. x = [runs |-> FALSE, inbox |-> <<>>, outbox |-> <<>>]
      BY <1>1, <2>1
    <3> QED
      BY <3>1, <3>2
  <2>5. MessagesSound(j, x, job, handler)
    BY <2>4, SentNothing DEF MessagesSound
  <2> QED
    BY <2>1, <2>2, <2>4, <2>5
<1>3. job \in [Compilations -> JobStates]
  BY <1>2 DEF OneWorker!JobsInit
<1>4. worker \in [Compilations -> WorkerStates]
  BY <1>2 DEF OneWorker!JobsInit
<1>5. handler \in [Compilations -> HandlerStates]
  BY <1>2 DEF OneWorker!JobsInit
<1> QED
  BY <1>2, <1>3, <1>4, <1>5 DEF JobsInv

LEMMA JobsSound == ASSUME JobsInv PROVE OneWorker!AnswersAreOwn /\ OneWorker!NothingStaysBehind
<1> SUFFICES ASSUME NEW j \in Compilations
             PROVE  /\ job[j].from = j
                    /\ job[j].answer = "compiled" => handler[j].product = "hex" /\ handler[j].stage = "done" /\ ~job[j].aborted
                    /\ job[j].answer = "cancelled" => job[j].aborted
                    /\ job[j].answer = "timed-out" => job[j].expired
                    /\ OneWorker!Answered(j) => ~job[j].timer /\ ~job[j].listens /\ (OneWorkerForAll \/ ~worker[j].runs)
  BY DEF OneWorker!AnswersAreOwn, OneWorker!NothingStaysBehind
<1>1. JobSound(j, job[j], handler[j], worker[j].runs)
  BY JobsFit
<1> QED
  BY <1>1 DEF JobSound, OneWorker!Answered

(***************************************************************************)
(* All parts.                                                              *)
(***************************************************************************)
SharedInv ==
    /\ part = "search" => SearchInv
    /\ part = "listings" => RouteInv
    /\ part = "words" => GatewayInv
    /\ part = "shared" => JobsInv
    /\ part = "registry" => RegistryInv

LEMMA SearchStarts == ASSUME Search!SearchInit PROVE SearchInv
BY DeskAssumption DEF SearchInv, Search!SearchInit, Search!OneSearchRuns

LEMMA RouteStarts == ASSUME Route!RouteInit PROVE RouteInv
<1>1. FlightsInv
  BY DEF FlightsInv, Route!RouteInit
<1>2. RequestsInv
  BY DEF RequestsInv, Route!RouteInit
<1>3. EntriesInv(cache) /\ Len(cache) <= MaxCached
  BY ListingsAssumption DEF EntriesInv, Route!RouteInit
<1> QED
  BY <1>1, <1>2, <1>3 DEF RouteInv

LEMMA RegistryStarts == ASSUME Registry!RegistryInit PROVE RegistryInv
BY DEF RegistryInv, Registry!RegistryInit, Registry!RegistrationIsTrue

\* At every step of every part the work under way is accounted for: a search,
\* a task, an upstream call or a registration has the one place that is kept
\* for it, and what is on its way between page and worker belongs to calls
\* that sent it.
THEOREM SharedKeeps == SharedSpec => []SharedInv
<1>1. SharedInit => SharedInv
  BY SearchStarts, RouteStarts, GatewayStarts, JobsStart, RegistryStarts DEF SharedInit, SharedStarts, SharedInv
<1>2. SharedInv /\ [SharedNext]_sharedVars => SharedInv'
  <2> SUFFICES ASSUME SharedInv, [SharedNext]_sharedVars PROVE SharedInv'
    OBVIOUS
  <2>1. CASE SharedNext
    <3>1. CASE part = "search" /\ SharedStays /\ Search!SearchNext
      BY <3>1, SearchStep DEF SharedInv, SharedStays
    <3>2. CASE part = "listings" /\ SharedStays /\ Route!RouteNext
      BY <3>2, RouteStep DEF SharedInv, SharedStays
    <3>3. CASE part = "words" /\ SharedStays /\ InWords!GatewayNext
      BY <3>3, GatewayStep DEF SharedInv, SharedStays
    <3>4. CASE part = "shared" /\ SharedStays /\ OneWorker!JobsNext
      BY <3>4, JobsStep DEF SharedInv, SharedStays
    <3>5. CASE part = "registry" /\ SharedStays /\ Registry!RegistryNext
      BY <3>5, RegistryStep DEF SharedInv, SharedStays
    <3> QED
      BY <2>1, <3>1, <3>2, <3>3, <3>4, <3>5 DEF SharedNext
  <2>2. CASE UNCHANGED sharedVars
    <3>1. UNCHANGED <<part, runs, calls, active, cache, req, memo, flight, fetches, job, worker, handler>>
      BY <2>2 DEF sharedVars, lookupsOnly, gatewayOnly, jobsOnly
    <3>2. UNCHANGED <<host, live, generation, inFlight, registered, state, gap>>
      BY <2>2 DEF sharedVars, registryOnly
    <3>3. ASSUME SearchInv PROVE SearchInv'
      BY <3>1, <3>3 DEF SearchInv, Search!OneSearchRuns, Search!Running
    <3>4. ASSUME RouteInv PROVE RouteInv'
      BY <3>1, <3>4 DEF RouteInv, FlightsInv, RequestsInv, RequestInv, EntriesInv, OfSuccess, Route!Done
    <3>5. ASSUME GatewayInv PROVE GatewayInv'
      BY <3>1, <3>5, GatewayRests
    <3>6. ASSUME JobsInv PROVE JobsInv'
      BY <3>1, <3>6 DEF JobsInv
    <3>7. ASSUME RegistryInv PROVE RegistryInv'
      BY <3>1, <3>2, <3>7 DEF RegistryInv, UnderWay, Registry!RegistrationIsTrue
    <3> QED
      BY <3>1, <3>3, <3>4, <3>5, <3>6, <3>7 DEF SharedInv
  <2> QED
    BY <2>1, <2>2
<1> QED
  BY <1>1, <1>2, PTL DEF SharedSpec

\* Equal or simultaneous calls of the search, the listings, the gateway, the
\* compiler and the registration share work, and yet each is answered for what
\* it asked, by its own request, once, and leaves nothing of it behind.
THEOREM SharedWorkProved == SharedSpec => []SharedWorkIsSound
<1>1. SharedInv => SharedWorkIsSound
  BY ListingsAreShared, LookupsShared, JobsSound DEF SharedInv, SharedWorkIsSound, SearchInv, RegistryInv
<1> QED
  BY <1>1, SharedKeeps, PTL
=============================================================================
