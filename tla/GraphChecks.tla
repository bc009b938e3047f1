----------------------------- MODULE GraphChecks -----------------------------
(***************************************************************************)
(* The hardware graph and its checks: the index of nets and diagnostics    *)
(* (hardware-graph/graph-index.ts), the rules over it                      *)
(* (validation/index.ts), the wires that connectPorts takes                *)
(* (useProjectStore.ts), and the verdict that every tab of a room shows    *)
(* and tells the others (useValidationStore.ts).                           *)
(*                                                                         *)
(* A wire is accepted when the whole graph, checked with it, has no error  *)
(* that names the wire; a verdict is to be dropped when the graph that it  *)
(* judges changes, by an edit, another project or another tab.             *)
(***************************************************************************)
EXTENDS Naturals, FiniteSets, SequencesExt

CONSTANTS
    None, Tabs, Rooms,
    Catalog,        \* component -> its definition: port -> the port
    Attempts,       \* pairs of endpoints that a user tries to connect
    Loaded,         \* graphs that a file, a blueprint or the storage of a room brings
    MaxConnections, \* MAX_CONNECTIONS_PER_PROJECT
    MaxIssues,      \* MAX_VALIDATION_ISSUES
    MaxIds,         \* bound: wires ever made
    MaxSwitches,    \* bound: changes of account
    MaxChannel      \* bound: messages on the way to a tab

VARIABLES
    room,       \* tab -> getCurrentUserId()
    graph,      \* tab -> components, wires and properties of its project
    verdict,    \* tab -> valid and issues of useValidationStore, of: the room they were set in
    told,       \* tab -> validation:update messages on their way to it
    updates,    \* tab -> projects:update messages on their way to it
    ids, changes

vars == <<room, graph, verdict, told, updates, ids, changes>>

-----------------------------------------------------------------------------
(* createHardwareGraphIndex.  An endpoint is <<component, port>>.          *)
Known(g, e) == e[1] \in g.components /\ e[2] \in DOMAIN Catalog[e[1]]
Port(e) == Catalog[e[1]][e[2]]
Declared(g) == UNION {{<<c, p>> : p \in DOMAIN Catalog[c]} : c \in g.components}
Keys(g) == Declared(g) \cup UNION {{w.source, w.target} : w \in Range(g.wires)}

RootOf(parent, e) ==
    LET up[n \in Nat, x \in DOMAIN parent] == IF n = 0 \/ parent[x] = x THEN x ELSE up[n - 1, parent[x]]
    IN  up[Cardinality(DOMAIN parent), e]

Union_Endpoint(parent, w) == [parent EXCEPT ![w.source] = RootOf(parent, w.target)]

Union(parent, w) == [parent EXCEPT ![RootOf(parent, w.source)] = RootOf(parent, w.target)]

Parents(g) == FoldLeft(Union, [e \in Keys(g) |-> e], g.wires)
Nets(g) ==
    LET parent == Parents(g)
        root == [e \in Keys(g) |-> RootOf(parent, e)]
    IN  {{e \in Keys(g) : root[e] = r} : r \in Range(root)}

WiresOf(g, net) == {w.id : w \in {v \in Range(g.wires) : v.source \in net}}
Connected(g, net) == WiresOf(g, net) # {}
DomainsOf(g, net) == {Port(e).domain : e \in {x \in net : Known(g, x)}}
SignalsOf(g, net, domain) == {Port(e).signal : e \in {x \in net : Known(g, x) /\ Port(x).domain = domain}} \ {None}

Power == {"power", "power_output"}
Compatible(d, e) == d = e \/ {d, e} \subseteq Power

Issue(severity, code, ws) == [severity |-> severity, code |-> code, wires |-> ws]

WireDiagnostics(g, w) ==
    LET ends == {w.source, w.target}
        S == Port(w.source).domain
        T == Port(w.target).domain
    IN  {Issue("error", "missing", {w.id}) : e \in {x \in ends : ~Known(g, x)}}
        \cup {Issue("error", "self-connection", {w.id}) : e \in {x \in ends : w.source = w.target}}
        \cup IF ~(\A e \in ends : Known(g, e)) THEN {}
             ELSE (IF Compatible(S, T) THEN {} ELSE {Issue("error", "domain-mismatch", {w.id})})
                  \cup (IF Compatible(w.domain, S) /\ Compatible(w.domain, T) THEN {}
                        ELSE {Issue("error", "connection-domain-mismatch", {w.id})})

Duplicates(g) ==
    {Issue("error", "duplicate-connection", ws) :
        ws \in {x \in {{v.id : v \in {u \in Range(g.wires) : {u.source, u.target} = {w.source, w.target}}} : w \in Range(g.wires)} :
                Cardinality(x) > 1}}

NetDiagnostics(g, net) ==
    LET ds == DomainsOf(g, net)
        mixed == IF "ground" \in ds /\ ds \cap Power # {} THEN {"mixed-rail-net"}
                 ELSE IF Cardinality(ds) > 1 /\ ~(ds \subseteq Power) THEN {"mixed-domain-net"} ELSE {}
        buses == {"bus-signal-mismatch" : d \in {x \in ds : Cardinality(SignalsOf(g, net, x)) > 1}}
    IN  {Issue("error", code, WiresOf(g, net)) : code \in mixed \cup buses}

Diagnostics(g, nets) ==
    UNION {WireDiagnostics(g, w) : w \in Range(g.wires)} \cup Duplicates(g) \cup UNION {NetDiagnostics(g, net) : net \in nets}

-----------------------------------------------------------------------------
(* validateProject                                                         *)
Exceeds(p, q) == p.nominal # None /\ q.maximum # None /\ p.nominal > q.maximum

EdgeRules(g, w) ==
    IF ~Known(g, w.source) \/ ~Known(g, w.target) THEN {}
    ELSE LET s == Port(w.source)
             t == Port(w.target)
             both(direction) == s.direction = direction /\ t.direction = direction
             roles(domain, role) == \A x \in {s, t} : x.domain = domain /\ x.role = role
             code == (IF both("output") THEN {"output-to-output"} ELSE {}) \cup (IF both("input") THEN {"input-to-input"} ELSE {})
                     \cup (IF Exceeds(s, t) \/ Exceeds(t, s) THEN {"voltage"} ELSE {})
                     \cup (IF s.domain = "uart" /\ t.domain = "uart" /\ {s.signal, t.signal} = {"TX"} THEN {"uart-tx"} ELSE {})
                     \cup (IF roles("usb", "host") \/ roles("pcie", "endpoint") THEN {"same-role"} ELSE {})
         IN  {Issue("error", c, {w.id}) : c \in code}
             \cup (IF roles("i2c", "controller") THEN {Issue("warning", "two-controllers", {w.id})} ELSE {})

OnBus(nets, c, signal) ==
    {net \in nets : \E p \in DOMAIN Catalog[c] : <<c, p>> \in net /\ Catalog[c][p].domain = "i2c" /\ Catalog[c][p].signal = signal}
Address(c) == {Catalog[c][p].address : p \in DOMAIN Catalog[c]} \ {None}

\* the targets of one address whose both lines are the same two nets
Collisions(g, nets) ==
    LET Bus(c) == [sda |-> OnBus(nets, c, "SDA"), scl |-> OnBus(nets, c, "SCL")]
        Targets == {c \in g.components : /\ Address(c) # {} /\ Bus(c).sda # {} /\ Bus(c).scl # {}
                                         /\ \A net \in Bus(c).sda \cup Bus(c).scl : Connected(g, net)}
        Clash(c, d) == c # d /\ Address(c) = Address(d) /\ Bus(c) = Bus(d)
    IN  {Issue("error", "address-collision", UNION {WiresOf(g, net) : net \in Bus(c).sda \cup Bus(c).scl}) :
            c \in {x \in Targets : \E d \in Targets : Clash(x, d)}}

Missing(g, nets) ==
    LET rails == {DomainsOf(g, net) : net \in {x \in nets : Connected(g, x)}}
    IN  (IF g.components # {} /\ {"ground"} \notin rails THEN {Issue("warning", "missing-ground", {})} ELSE {})
        \cup (IF Cardinality(g.components) > 1 /\ rails \cap (SUBSET Power \ {{}}) = {} THEN {Issue("warning", "missing-power", {})} ELSE {})

\* in the order in which setResult counts them
Issues(g) ==
    LET nets == Nets(g)
        edges == UNION {EdgeRules(g, w) : w \in Range(g.wires)}
    IN  SetToSeq(Diagnostics(g, nets)) \o SetToSeq(edges) \o SetToSeq(Missing(g, nets)) \o SetToSeq(Collisions(g, nets))

Errors(issues) == {i \in Range(issues) : i.severity = "error"}
Valid(g) == Errors(Issues(g)) = {}

-----------------------------------------------------------------------------
(* useValidationStore                                                      *)
Cleared(of) == [valid |-> None, issues |-> <<>>, of |-> of]
Bounded(issues) ==
    FoldLeft(LAMBDA kept, i : IF i \in Range(kept) \/ Len(kept) = MaxIssues THEN kept ELSE Append(kept, i), <<>>, issues)
Result(t, g) == [valid |-> Errors(Bounded(Issues(g))) = {}, issues |-> Bounded(Issues(g)), of |-> room[t]]
Lodged(t, issues) == [valid |-> None, issues |-> Bounded(issues \o verdict[t].issues), of |-> room[t]]

Others(t) == Tabs \ {t}

\* a tab sets the verdicts vs one after the other and tells each
Sets(t, vs) ==
    /\ verdict' = [verdict EXCEPT ![t] = Last(vs)]
    /\ told' = [u \in Tabs |-> IF u = t THEN told[t] ELSE told[u] \o vs]

\* the graph of tab t becomes g and is announced
Edits(t, g) ==
    /\ graph' = [graph EXCEPT ![t] = g]
    /\ updates' = [u \in Tabs |-> IF u = t THEN updates[t] ELSE Append(updates[u], [room |-> room[t], graph |-> g])]

\* the subscriber of the project store, for an edit that no check follows
Invalidates_SameSize(t, g) ==
    IF Len(g.wires) = Len(graph[t].wires) /\ g.components = graph[t].components
    THEN UNCHANGED <<verdict, told>> ELSE Sets(t, <<Cleared(room[t])>>)

Invalidates(t, g) == IF g = graph[t] THEN UNCHANGED <<verdict, told>> ELSE Sets(t, <<Cleared(room[t])>>)

-----------------------------------------------------------------------------
(* connectPorts and the other edits of the graph.                          *)
CanDrive(e) == Port(e).direction # "input"
CanReceive(e) == Port(e).direction # "output"

Oriented(a, b) == IF CanDrive(a) /\ CanReceive(b) THEN <<a, b>> ELSE <<b, a>>
Candidate(a, b) ==
    LET e == Oriented(a, b)
    IN  [id |-> ids + 1, source |-> e[1], target |-> e[2],
         domain |-> IF {Port(a).domain, Port(b).domain} \subseteq Power THEN "power" ELSE Port(e[1]).domain]

\* the checks that need no index; an empty set: none of them objects
Objections(g, a, b) ==
    IF Len(g.wires) >= MaxConnections THEN {"too-many"}
    ELSE IF ~Known(g, a) \/ ~Known(g, b) THEN {"missing-endpoint"}
    ELSE IF a[1] = b[1] THEN {"self-connection"}
    ELSE IF ~((CanDrive(a) /\ CanReceive(b)) \/ (CanDrive(b) /\ CanReceive(a))) THEN {"direction"}
    ELSE IF \E w \in Range(g.wires) : {w.source, w.target} = {a, b} THEN {"duplicate"}
    ELSE {}

\* validateConnection
Caused_ByWire(g, w) == {i \in Range(Issues([g EXCEPT !.wires = Append(@, w)])) : i.severity = "error" /\ i.wires = {w.id}}

Caused(g, w) == {i \in Range(Issues([g EXCEPT !.wires = Append(@, w)])) : i.severity = "error" /\ w.id \in i.wires}

ConnectPorts(t, a, b) ==
    LET g == graph[t]
        refused == {Issue("error", o, {}) : o \in Objections(g, a, b)}
        w == Candidate(a, b)
        errors == IF refused # {} THEN refused ELSE Caused(g, w)
        next == [g EXCEPT !.wires = Append(@, w)]
    IN  /\ \/ errors # {} /\ Sets(t, <<Lodged(t, SetToSeq(errors))>>) /\ UNCHANGED <<graph, updates, ids>>
           \/ /\ errors = {} /\ ids < MaxIds /\ ids' = ids + 1
              /\ Edits(t, next) /\ Sets(t, <<Cleared(room[t]), Result(t, next)>>)
        /\ UNCHANGED <<room, changes>>

DisconnectPorts(t, i) ==
    LET next == [graph[t] EXCEPT !.wires = RemoveAt(@, i)]
    IN  Edits(t, next) /\ Sets(t, <<Cleared(room[t]), Result(t, next)>>) /\ UNCHANGED <<room, ids, changes>>

Becomes(t, g) == Edits(t, g) /\ Invalidates(t, g) /\ UNCHANGED <<room, ids, changes>>
AddComponent(t, c) == c \notin graph[t].components /\ Becomes(t, [graph[t] EXCEPT !.components = @ \cup {c}])
RemoveComponent(t, c) ==
    /\ c \in graph[t].components
    /\ Becomes(t, [graph[t] EXCEPT !.components = @ \ {c},
                                   !.wires = SelectSeq(@, LAMBDA w : w.source[1] # c /\ w.target[1] # c)])
UpdateComponentProps(t) == Becomes(t, [graph[t] EXCEPT !.props = 1 - @])
LoadProject(t, g) == Becomes(t, g)

\* the panel, the Run button, validation.check
CheckGraph(t) == Sets(t, <<Result(t, graph[t])>>) /\ UNCHANGED <<room, graph, updates, ids, changes>>

-----------------------------------------------------------------------------
(* Other tabs and other accounts.                                          *)
ReceivesProject(t) ==
    /\ updates[t] # <<>>
    /\ LET m == Head(updates[t]) IN
       IF m.room # room[t] THEN UNCHANGED <<graph, verdict, told>>
       ELSE graph' = [graph EXCEPT ![t] = m.graph] /\ Invalidates(t, m.graph)
    /\ updates' = [updates EXCEPT ![t] = Tail(@)] /\ UNCHANGED <<room, ids, changes>>

Takes_AnyRoom(t, m) == TRUE

Takes(t, m) == m.of = room[t]

ReceivesVerdict(t) ==
    /\ told[t] # <<>>
    /\ verdict' = [verdict EXCEPT ![t] = IF Takes(t, Head(told[t])) THEN Head(told[t]) ELSE @]
    /\ told' = [told EXCEPT ![t] = Tail(@)] /\ UNCHANGED <<room, graph, updates, ids, changes>>

\* the verdict goes without a word; then the room's graph comes, with one
SessionChanges(t, r, g) ==
    /\ changes < MaxSwitches /\ changes' = changes + 1 /\ r # room[t]
    /\ room' = [room EXCEPT ![t] = r] /\ graph' = [graph EXCEPT ![t] = g]
    /\ Sets(t, <<Cleared(r)>>) /\ UNCHANGED <<updates, ids>>

ChecksInit ==
    /\ room \in [Tabs -> Rooms] /\ graph \in [Tabs -> Loaded]
    /\ verdict = [t \in Tabs |-> Cleared(room[t])]
    /\ told = [t \in Tabs |-> <<>>] /\ updates = [t \in Tabs |-> <<>>] /\ ids = 0 /\ changes = 0

Edit(t) ==
    /\ \A u \in Others(t) : Len(updates[u]) < MaxChannel
    /\ \/ \E a \in Attempts : ConnectPorts(t, a[1], a[2])
       \/ \E i \in DOMAIN graph[t].wires : DisconnectPorts(t, i)
       \/ \E c \in DOMAIN Catalog : AddComponent(t, c) \/ RemoveComponent(t, c)
       \/ UpdateComponentProps(t)
       \/ \E g \in Loaded : LoadProject(t, g)
       \/ CheckGraph(t)
       \/ \E r \in Rooms, g \in Loaded : SessionChanges(t, r, g)

ChecksNext ==
    \E t \in Tabs :
        \/ (\A u \in Others(t) : Len(told[u]) < MaxChannel) /\ (Edit(t) \/ ReceivesProject(t))
        \/ ReceivesVerdict(t)

-----------------------------------------------------------------------------
\* Wires that connectPorts accepts one by one never make the graph invalid as a
\* whole: what a wire does to nets, buses and addresses names that wire.
AcceptedWiresAreSound == (\A g \in Loaded : Valid(g)) => \A t \in Tabs : Valid(graph[t])

\* Two endpoints are in one net exactly when wires lead from one to the other.
NetsAreExact ==
    \A t \in Tabs :
        LET g == graph[t]
            Wired == [e \in Keys(g) |-> {e} \cup {x \in Keys(g) : \E w \in Range(g.wires) : {w.source, w.target} = {e, x}}]
            Reached(e) == FoldLeft(LAMBDA s, w : UNION {Wired[x] : x \in s}, {e}, g.wires)
        IN  Nets(g) = {Reached(e) : e \in Keys(g)}

\* The verdict of the only tab is of the graph that it shows, edited, loaded or
\* restored in whatever order.  (A list of more issues than the store keeps may
\* lose its errors.)
VerdictIsOfGraph ==
    \A t \in Tabs :
        (Others(t) = {} /\ verdict[t].valid # None) =>
            LET issues == Issues(graph[t]) IN
            /\ Len(issues) <= MaxIssues => verdict[t].issues = issues /\ verdict[t].valid = Valid(graph[t])
            /\ ~verdict[t].valid => ~Valid(graph[t])

\* Another tab apart, a tab shows what a check of its graph would find now, or
\* that the graph was not checked.
VerdictIsCurrent ==
    \A t \in Tabs : Others(t) = {} /\ verdict[t].valid # None => verdict[t] = Result(t, graph[t])

\* No tab shows issues of a room that it is not in.
VerdictIsOfRoom == \A t \in Tabs : verdict[t].of = room[t]
=============================================================================
