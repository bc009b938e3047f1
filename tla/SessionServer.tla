---------------------------- MODULE SessionServer ----------------------------
(***************************************************************************)
(* The servers' side of sessions: the functions at the edge                *)
(* (functions/_auth.ts, functions/api/auth) and the backend                *)
(* (backend/app/auth/session.py).  An identity comes from a signed token,  *)
(* from the platform in front of the server or from a sign-in provider; it *)
(* is exchanged for a token of the API, and that for a ticket that opens a *)
(* socket.                                                                 *)
(*                                                                         *)
(* Signatures are abstracted to the secret or the key that made them.      *)
(***************************************************************************)
EXTENDS Naturals, Sequences, FiniteSets

CONSTANTS
    Configs,        \* deployments: server, mode, hosted, secret, trusts, team
    Subjects,
    Ttl, TicketTtl, CacheTtl,
    MaxTickets,     \* the backend's tickets at one time
    MaxIssued, MaxClock, MaxRotations,
    None

VARIABLES
    config, clock,
    secret,         \* version of the session secret
    key, retired,   \* the provider's signing key, and when the earlier ones were withdrawn
    cached,         \* its keys as the edge fetched them
    issued,         \* tokens and tickets of the edge that were handed out, with their sign-in
    tickets,        \* the backend's tickets: unused, with subject and expiry
    opened,         \* sockets opened with each of the backend's tickets
    last            \* the last answer

serverVars == <<config, clock, secret, key, retired, cached, issued, tickets, opened, last>>

Edge == config.server = "edge"
Nobody == [op |-> "none", subject |-> None, token |-> None, since |-> 0, key |-> None]
Says(op, who, token) == [op |-> op, subject |-> who.subject, token |-> token, since |-> who.since, key |-> who.key]
Refused(op) == [Nobody EXCEPT !.op = op]
Person(s, since, k) == [subject |-> s, since |-> since, key |-> k]
Stranger == Person(None, 0, None)

\* validate_auth_config: the backend does not start without; the edge asks nothing
Starts(c) ==
    c.server = "backend" =>
        /\ c.hosted => c.mode # "development" /\ c.secret = "long"
        /\ c.mode = "chatgpt-sites" => c.trusts
        /\ c.mode = "cloudflare-access" => c.team

\* hmacKey and _secret: what may sign at all
MaySign ==
    IF Edge THEN config.secret = "long" \/ (config.secret = "short" /\ ~config.hosted /\ config.mode = "development")
    ELSE config.secret = "long" \/ config.mode = "development"

Token(aud, who, ttl) == [aud |-> aud, subject |-> who.subject, exp |-> clock + ttl, since |-> who.since, secret |-> secret]
Verified(t, aud) == MaySign /\ t.aud = aud /\ t.secret = secret /\ t.exp > clock
Bearer(t) == IF Verified(t, "api") THEN Person(t.subject, t.since, None) ELSE Stranger

ServerInit ==
    /\ config \in {c \in Configs : Starts(c)}
    /\ clock = 0 /\ secret = 0 /\ key = 0 /\ retired = [k \in 0..MaxRotations |-> None] /\ cached = None
    /\ issued = {} /\ tickets = {} /\ opened = <<>> /\ last = Nobody

-----------------------------------------------------------------------------
(* Identities without a token. *)

\* accessKeys, fetchJwks: the provider's keys, cached for ten minutes
Fresh_Forever(c) == c # None
Fresh(c) == c # None /\ c.expires > clock
Keys == IF Fresh(cached) THEN cached.keys ELSE {key}
Fetched == cached' = IF Fresh(cached) THEN cached ELSE [keys |-> {key}, expires |-> clock + CacheTtl]

\* the platform asserts a subject, signed with key k; the backend and the edge
\* in chatgpt-sites mode trust headers that come with the ingress secret
Platform(s, k) ==
    CASE s = None -> Stranger
      [] s # None /\ config.mode = "chatgpt-sites" -> IF config.trusts THEN Person(s, clock, None) ELSE Stranger
      [] s # None /\ config.mode = "cloudflare-access" ->
            IF Edge /\ config.team /\ k \in Keys THEN Person(s, clock, k) ELSE Stranger
      [] s # None /\ config.mode = "development" -> Stranger
Asks(s) == IF Edge /\ s # None /\ config.mode = "cloudflare-access" /\ config.team THEN Fetched ELSE UNCHANGED cached

\* resolve_session, requireApiIdentity: a token decides alone if there is one
Resolved(t, s, k) ==
    CASE t # None -> Bearer(t)
      [] t = None /\ Platform(s, k) # Stranger -> Platform(s, k)
      [] t = None /\ Platform(s, k) = Stranger ->
            IF ~Edge /\ config.mode = "development" THEN Person("local", clock, None) ELSE Stranger

-----------------------------------------------------------------------------
\* GET session: authenticated only with a token; the edge returns the one that
\* it was sent, the backend issues another
Renewed_Always(t, who) == Token("api", who, Ttl)
Renewed(t, who) == IF Edge /\ t # None THEN t ELSE Token("api", who, Ttl)
GetSession(t, s, k) ==
    LET who == Resolved(t, s, k)
        token == Renewed(t, who)
    IN  /\ IF who = Stranger \/ ~MaySign
           THEN last' = Refused("session") /\ UNCHANGED issued
           ELSE last' = Says("session", who, token) /\ issued' = issued \cup {token}
        /\ IF t = None THEN Asks(s) ELSE UNCHANGED cached
        /\ UNCHANGED <<config, clock, secret, key, retired, tickets, opened>>

\* POST session and POST chatgpt: the edge exchanges a provider's identity
\* token, which it has checked by Google or against the provider's keys
SignsIn(s, k, firebase) ==
    LET accepted == firebase \/ k \in Keys
        who == Person(s, clock, IF firebase THEN None ELSE k)
    IN  /\ Edge
        /\ IF accepted /\ MaySign
           THEN last' = Says("session", who, Token("api", who, Ttl)) /\ issued' = issued \cup {Token("api", who, Ttl)}
           ELSE last' = Refused("session") /\ UNCHANGED issued
        /\ IF firebase THEN UNCHANGED cached ELSE Fetched
        /\ UNCHANGED <<config, clock, secret, key, retired, tickets, opened>>

\* POST ws-ticket.  At the edge a ticket is a token for another audience; the
\* backend keeps its tickets and drops those that are over, then counts them.
Purged == {x \in tickets : x.exp > clock}
IssueTicket(t, s, k) ==
    LET who == Resolved(t, s, k)
        ticket == [id |-> Len(opened) + 1, subject |-> who.subject, exp |-> clock + TicketTtl]
    IN  /\ IF who = Stranger \/ (Edge /\ ~MaySign) \/ (~Edge /\ Cardinality(Purged) >= MaxTickets)
           THEN /\ last' = Refused("ticket") /\ UNCHANGED <<issued, opened>>
                /\ tickets' = IF who # Stranger THEN Purged ELSE tickets
           ELSE /\ last' = Says("ticket", who, None)
                /\ IF Edge THEN issued' = issued \cup {Token("ws", who, TicketTtl)} /\ UNCHANGED <<tickets, opened>>
                   ELSE tickets' = Purged \cup {ticket} /\ opened' = Append(opened, 0) /\ UNCHANGED issued
        /\ IF t = None THEN Asks(s) ELSE UNCHANGED cached
        /\ UNCHANGED <<config, clock, secret, key, retired>>

-----------------------------------------------------------------------------
\* a request of the API, and the handshake of a socket with a token of either
\* audience or with a ticket, which the backend forgets when it is presented
CallApi(t, s, k) ==
    /\ last' = IF Resolved(t, s, k) = Stranger THEN Refused("api") ELSE Says("api", Resolved(t, s, k), None)
    /\ IF t = None THEN Asks(s) ELSE UNCHANGED cached
    /\ UNCHANGED <<config, clock, secret, key, retired, issued, tickets, opened>>
OpenWithToken(t) ==
    LET good == Verified(t, "api") \/ (Edge /\ Verified(t, "ws")) IN
    /\ last' = IF good THEN Says("socket", Person(t.subject, t.since, None), None) ELSE Refused("socket")
    /\ UNCHANGED <<config, clock, secret, key, retired, cached, issued, tickets, opened>>
Presented(id) == {x \in tickets : x.id = id}
Consumed_Kept(id) == Purged
Consumed(id) == Purged \ Presented(id)
OpenWithTicket(id) ==
    /\ ~Edge
    /\ tickets' = Consumed(id)
    /\ IF Presented(id) \cap Purged # {}
       THEN /\ opened' = [opened EXCEPT ![id] = @ + 1]
            /\ last' = [Nobody EXCEPT !.op = "socket", !.subject = (CHOOSE x \in Presented(id) : TRUE).subject]
       ELSE last' = Refused("socket") /\ UNCHANGED opened
    /\ UNCHANGED <<config, clock, secret, key, retired, cached, issued>>

\* time, the provider's rotation of its keys, and a deployment with a new secret
Tick == clock < MaxClock /\ clock' = clock + 1 /\ last' = Nobody /\ UNCHANGED <<config, secret, key, retired, cached, issued, tickets, opened>>
ProviderRotates ==
    /\ key < MaxRotations /\ key' = key + 1 /\ retired' = [retired EXCEPT ![key] = clock] /\ last' = Nobody
    /\ UNCHANGED <<config, clock, secret, cached, issued, tickets, opened>>
Redeployed ==
    /\ secret < MaxRotations /\ secret' = secret + 1 /\ cached' = None /\ tickets' = {} /\ last' = Nobody
    /\ UNCHANGED <<config, clock, key, retired, issued, opened>>

MayIssue == Cardinality(issued) + Len(opened) < MaxIssued
ServerNext ==
    \/ \E t \in issued \cup {None}, s \in Subjects \cup {None}, k \in 0..key :
          \/ MayIssue /\ (GetSession(t, s, k) \/ IssueTicket(t, s, k))
          \/ CallApi(t, s, k)
    \/ \E s \in Subjects, k \in 0..key, firebase \in BOOLEAN : MayIssue /\ SignsIn(s, k, firebase)
    \/ \E t \in issued : OpenWithToken(t)
    \/ \E id \in 1..Len(opened) : OpenWithTicket(id)
    \/ Tick \/ ProviderRotates \/ Redeployed

-----------------------------------------------------------------------------
\* Who is told to be signed in can use the API at once; a ticket of the backend
\* opens one socket; at the edge no chain of exchanges prolongs a sign-in beyond
\* a token's and a ticket's life; and a withdrawn key of the provider is not
\* accepted for longer than the cache keeps it.
SignInsAreBounded ==
    /\ last.op = "session" /\ last.subject # None => Verified(last.token, "api")
    /\ \A id \in 1..Len(opened) : opened[id] <= 1
    /\ Edge => \A t \in issued : t.exp <= t.since + Ttl + TicketTtl
    /\ last.key # None /\ retired[last.key] # None => clock < retired[last.key] + CacheTtl
=============================================================================
