----------------------------- MODULE MCServices -----------------------------
(***************************************************************************)
(* The components that do not share the project store, model-checked one   *)
(* after the other in a single run: the parts of MCPage, with the values   *)
(* that this run gives them, and further ones.  part says which of them    *)
(* runs, and the variables of the others rest.                             *)
(*   session         BehaviorSession                                       *)
(*   keys            CalculatorKeypad                                      *)
(*   cart, returns   PartsDesk, where the cart is worked with, and where   *)
(*                   accounts change there and back                        *)
(*   search          PartsSearch                                           *)
(*   words, numbers  PartsGateway, for lookups in words and for part numbers *)
(*   listings        ListingsRoute                                         *)
(*   firmware        FirmwareRun                                           *)
(*   nets, bus       WireBus, for its nets and for its buses               *)
(*   own, shared     CompileJobs, with a worker per call and with one      *)
(*   artifacts       FirmwareArtifacts                                     *)
(*   registry        ToolRegistry                                          *)
(*   switches        ToolCalls, with more switches of the account          *)
(*   wired, loaded   GraphChecks, for wires that are tried one by one and  *)
(*                   for graphs that come with flaws                       *)
(*   exchanged       ProjectFile, where projects are edited and exported   *)
(*   sources, versions   SourceEditor, for two projects and for a longer   *)
(*                   history of one document                               *)
(* Callers, requests and jobs are numbered: slot i is the i-th of a part.  *)
(***************************************************************************)
EXTENDS MCShared

VARIABLES
    prepared, disposed, fresh, rt, history, retainedBytes, logBytes, granted,
    engine, target, run,
    wires, parent, seconds, browser, backend,
    program,    \* of FirmwareRun, or of WireBus
    text, artifact, load, avr,
    profile, calculator, lastKey, emitted, meant, presses

sessionOnly == <<prepared, disposed, fresh, rt, history, retainedBytes, logBytes, granted>>
firmwareOnly == <<engine, target, run>>
busOnly == <<wires, parent, seconds, browser, backend>>
artifactsOnly == <<text, artifact, load, avr>>
keysOnly == <<profile, calculator, lastKey, emitted, meant, presses>>
vars == <<pageVars, sharedVars, sessionOnly, firmwareOnly, busOnly, program, artifactsOnly, keysOnly>>

-----------------------------------------------------------------------------
Shows(name, emits) == [ok |-> TRUE, name |-> name, emits |-> emits]
Rejected(action) == [action EXCEPT !.ok = FALSE]
Rule(when, at, event, then) == [ok |-> TRUE, when |-> when, at |-> at, event |-> event, then |-> then]
NoEvent == "none"
Chain == [project |-> "this", cues |-> <<[at |-> 1, order |-> 1, action |-> Shows("cue", <<>>)]>>,
          rules |-> <<Rule("start", 0, NoEvent, <<Shows("boot", <<>>)>>), Rule("time", 0, NoEvent, <<Shows("zero", <<>>)>>),
                      Rule("time", 1, NoEvent, <<Shows("tick", <<"press">>)>>),
                      Rule("event", 0, "press", <<Shows("beep", <<"chain">>)>>), Rule("event", 0, "chain", <<Shows("echo", <<"chain">>)>>)>>]
Flawed == [project |-> "this", cues |-> <<>>,
           rules |-> <<[Rule("time", 1, NoEvent, <<Shows("bad", <<>>)>>) EXCEPT !.ok = FALSE],
                       Rule("time", 1, NoEvent, <<Shows("good", <<>>), Rejected(Shows("worse", <<>>))>>)>>]
Foreign == [project |-> "other", rules |-> <<>>, cues |-> <<>>]

Session == INSTANCE BehaviorSession WITH
    Plans <- {Chain, Flawed, Foreign}, Times <- 0..2,
    Requests <- {[kind |-> "event", event |-> "press", action |-> Shows(NoEvent, <<>>), bytes |-> 2],
                 [kind |-> "action", event |-> NoEvent, action |-> Shows("on", <<>>), bytes |-> 1]},
    MaxHistory <- 2, MaxHistoryBytes <- 4, MaxDispatched <- 4, MaxDepth <- 3, MaxLogged <- 8

Pressed == INSTANCE CalculatorKeypad WITH
    DigitOf <- [k \in {"0", "2"} |-> IF k = "0" THEN 0 ELSE 2], Operators <- {"-", "/"},
    MaxEntry <- 3, MaxValue <- 200, MaxPresses <- 6

Cart == INSTANCE PartsDesk WITH
    Rooms <- {"ana"}, Queries <- {}, Designs <- {{"led"}},
    Listings <- [ledA |-> [part |-> "led", alternatives |-> {"lamp"}], lampA |-> [part |-> "lamp", alternatives |-> {}]],
    MaxQuantity <- 1, MaxUndo <- 1, MaxLease <- 1, MaxLookups <- 0, MaxCart <- 2

MCListings == [ledA |-> [part |-> "led", alternatives |-> {}]]
Returns == INSTANCE PartsDesk WITH
    Rooms <- {"ana", "ben"}, Queries <- {}, Designs <- {{}, {"led"}}, Listings <- MCListings,
    MaxQuantity <- 1, MaxUndo <- 0, MaxLease <- 2, MaxLookups <- 2, MaxCart <- 1

InNumbers == INSTANCE PartsGateway WITH
    Requests <- 1..2, Words <- {}, Numbers <- {"NE555P"}, Quantities <- {1}, Chain <- ProviderChain

Write(p, v) == [op |-> "write", pin |-> p, value |-> v]
Delay(v) == [op |-> "delay", ms |-> 1, value |-> v]
Tone(v) == [op |-> "tone", pin |-> "led", ms |-> 1, value |-> v]
If(c, body, else) == [op |-> "if", cond |-> c, body |-> body, else |-> else]
Statements == {Write("led", "on"), Write("led", "unknown"), Delay("known"), Delay("unknown"), Tone("known"), Tone("unknown"),
               If("true", <<Write("led", "off"), Write("led", "on")>>, <<>>),
               If("unknown", <<Write("doubtful", "on"), Write("doubtful", "off")>>, <<Write("doubtful", "on")>>),
               [op |-> "while", body |-> <<Write("doubtful", "off"), Write("doubtful", "on")>>, else |-> <<>>], [op |-> "call"]}
Blocks == {<<>>} \union {<<s>> : s \in Statements} \union {<<s, t>> : s \in Statements, t \in Statements}
Loops == {<<>>} \union {<<s>> : s \in Statements} \union {<<s, t>> : s \in Statements, t \in {Write("led", "on"), Delay("known")}}
Firmware == INSTANCE FirmwareRun WITH
    Programs <- [setup : Blocks, loop : Loops], Duration <- 2, MaxStatements <- 5, MaxIterations <- 3

Ends(l) == <<<<"board", l>>, <<"rtc", l>>>>
Nets == INSTANCE WireBus WITH
    BusLines <- {Ends("sda"), Ends("scl")}, Supply <- {Ends("gnd")},
    Wires <- {Ends("sda"), Ends("scl"), Ends("gnd"), 
              <<<<"board", "sda">>, <<"rtc", "scl">>>>, <<<<"rtc", "gnd">>, <<"board", "scl">>>>, <<<<"rtc", "gnd">>, <<"rtc", "gnd">>>>},
    Inputs <- {}, Registers <- 1, MaxBytes <- 0, MaxLength <- 0, MaxSeconds <- 0
\* power and ground are alike: one line stands for both
Bus == INSTANCE WireBus WITH
    BusLines <- {Ends("sda"), Ends("scl")}, Supply <- {Ends("gnd")},
    Wires <- {Ends("sda"), Ends("scl"), Ends("gnd")}, Inputs <- {<<>>, <<1>>, <<1, 2>>},
    Registers <- 3, MaxBytes <- 2, MaxLength <- 2, MaxSeconds <- 1

Own == INSTANCE CompileJobs WITH Jobs <- {1}, Shared <- FALSE, MaxNoise <- 1

Record(kind, address, bytes, upper, wellFormed) ==
    [kind |-> kind, wellFormed |-> wellFormed, address |-> address, data |-> bytes, upper |-> upper]
Artifacts == INSTANCE FirmwareArtifacts WITH
    Records <- {Record("data", 0, <<1, 2, 3>>, 0, TRUE), Record("data", 1, <<4>>, 0, TRUE), Record("data", 2, <<5, 6>>, 0, TRUE),
                Record("linear", 0, <<>>, 1, TRUE), Record("segment", 0, <<>>, 1, TRUE), Record("eof", 0, <<>>, 0, TRUE),
                Record("data", 0, <<7>>, 0, FALSE), Record("start", 0, <<>>, 0, TRUE)},
    MaxRecords <- 3, Paragraph <- 2, Page <- 4, FlashBytes <- 6

Version(v) == [id |-> "lamp", version |-> v]
Deployment(v, m, hosted, x, trusts, team) == [server |-> v, mode |-> m, hosted |-> hosted, secret |-> x, trusts |-> trusts, team |-> team]
Switches == INSTANCE ToolCalls WITH Calls <- {1}, Users <- {"ana"}, MaxShown <- 1, MaxSwitches <- 2, MaxChannel <- 1

Pin(domain, signal, direction, role) ==
    [domain |-> domain, signal |-> signal, direction |-> direction, role |-> role, address |-> None, nominal |-> None, maximum |-> None]
I2c(signal, role) == Pin("i2c", signal, "bidirectional", role)
Target(signal) == [I2c(signal, "target") EXCEPT !.address = 1]
Sensor == [sda |-> Target("SDA"), scl |-> Target("SCL")]
Board == [sda |-> I2c("SDA", "controller"), scl |-> I2c("SCL", "controller"), aux |-> I2c(None, None)]
Graph(cs, ws) == [components |-> cs, wires |-> ws, props |-> 0]
Wired == INSTANCE GraphChecks WITH
    Tabs <- {"one"}, Rooms <- {"ana"}, Catalog <- [board |-> Board, left |-> Sensor, right |-> Sensor],
    Attempts <- {<<<<"board", "sda">>, <<"left", "sda">>>>, <<<<"board", "scl">>, <<"left", "scl">>>>,
                 <<<<"right", "sda">>, <<"left", "sda">>>>, <<<<"board", "scl">>, <<"right", "scl">>>>,
                 <<<<"left", "scl">>, <<"board", "aux">>>>, <<<<"board", "aux">>, <<"right", "sda">>>>},
    Loaded <- {Graph({"board", "left", "right"}, <<>>)},
    MaxConnections <- 3, MaxIssues <- 2, MaxIds <- 4, MaxSwitches <- 0, MaxChannel <- 1

Supply == [vcc |-> [Pin("power_output", None, "output", None) EXCEPT !.nominal = 5], gnd |-> Pin("ground", None, "bidirectional", None),
           tx |-> Pin("uart", "TX", "output", None), usb |-> Pin("usb", None, "bidirectional", "host")]
Breakout == [vin |-> [Pin("power", None, "input", None) EXCEPT !.maximum = 3], gnd |-> Pin("ground", None, "bidirectional", None),
             rx |-> Pin("uart", "RX", "input", None), usb |-> Pin("usb", None, "bidirectional", "host")]
Wire(n, a, b, domain) == [id |-> n, source |-> a, target |-> b, domain |-> domain]
S(p) == <<"supply", p>>
B(p) == <<"breakout", p>>
Flaws == {Wire(0, S("tx"), B("rx"), "uart"), Wire(0, S("tx"), B("rx"), "gpio"), Wire(0, S("tx"), S("tx"), "uart"),
          Wire(0, B("rx"), B("vin"), "power"), Wire(0, S("vcc"), B("gnd"), "ground"), Wire(0, B("rx"), <<"ghost", "rx">>, "uart"),
          Wire(0, S("usb"), B("usb"), "usb")}
FromFile == INSTANCE GraphChecks WITH
    Tabs <- {"one"}, Rooms <- {"ana"}, Catalog <- [supply |-> Supply, breakout |-> Breakout],
    Attempts <- {<<S("vcc"), B("vin")>>, <<B("gnd"), S("gnd")>>, <<B("rx"), S("tx")>>, <<S("vcc"), S("tx")>>, <<B("rx"), B("vin")>>,
                 <<S("tx"), <<"ghost", "rx">>>>, <<S("usb"), B("usb")>>, <<S("vcc"), B("gnd")>>},
    Loaded <- {Graph({"supply", "breakout"}, <<w>>) : w \in Flaws}
              \cup {Graph({"supply", "breakout"}, <<Wire(0, S("vcc"), B("gnd"), "ground"), Wire(9, S("gnd"), B("gnd"), "ground")>>)},
    MaxConnections <- 2, MaxIssues <- 3, MaxIds <- 1, MaxSwitches <- 0, MaxChannel <- 1

Led == [in |-> Pin("gpio", None, "input", None)]
Doc(starter, outcome) == [starter |-> starter, outcome |-> outcome]
PlanOf(starter, prepares, covers) == [starter |-> starter, prepares |-> prepares, covers |-> covers]
OwnPlan == PlanOf(FALSE, "ready", {"left", "lamp"})
Example == PlanOf(TRUE, "ready", {"left", "lamp"})
Works == Doc(FALSE, "executed")
Boards(doc, other) == [left |-> doc, right |-> other, lamp |-> None]
Circuit(n, plans, docs) ==
    [id |-> n, valid |-> TRUE, mapped |-> {"lamp", "left"}, plans |-> plans, boards |-> {"left", "right"}, misbound |-> {}, docs |-> docs]
Bare == [Circuit(3, <<>>, Boards(Works, Works)) EXCEPT !.mapped = {}, !.boards = {"left"}]
MCVerified ==
    {Circuit(1, <<OwnPlan>>, Boards(doc, Works)) :
        doc \in {None, Doc(TRUE, "executed")} \cup {Doc(FALSE, o) : o \in {"executed", "partial", "preflight-failed", "unavailable"}}}
    \cup {Circuit(1, <<OwnPlan>>, Boards(Doc(FALSE, "preflight-failed"), None)),
          [Circuit(2, <<OwnPlan>>, Boards(Works, Works)) EXCEPT !.valid = FALSE],
          [Circuit(2, <<OwnPlan>>, Boards(Works, Works)) EXCEPT !.misbound = {"left"}]}
    \cup {Circuit(3, plans, Boards(Works, Works)) :
            plans \in {<<>>, <<Example, OwnPlan>>, <<Example>>, <<PlanOf(FALSE, "blocked", {"left", "lamp"})>>,
                       <<PlanOf(FALSE, "partial", {"left", "lamp"})>>, <<PlanOf(FALSE, "ready", {"left"})>>}}
    \cup {Bare, [Bare EXCEPT !.boards = {}, !.misbound = {"left"}], [Bare EXCEPT !.mapped = {"lamp"}]}

Part(n) == [id |-> n, def |-> "uno"]
TargetOf(n, src) == [id |-> <<"fw", n>>, comp |-> n, def |-> "uno", src |-> src, artifact |-> FALSE]
DocOf(id, n, src, link) == [id |-> <<"code", n>>, project |-> id, comp |-> n, def |-> "uno", src |-> src, link |-> link]
PlanFor(id, schema, refs) == [id |-> id, schema |-> schema, project |-> 7, refs |-> refs]
NoLink == [status |-> "unlinked"]
LinkTo(status, plan, edited) == [status |-> status, plan |-> plan, content |-> "short", changed |-> edited]
Held(id, targets, plans, docs) ==
    [id |-> id, comps |-> <<Part(1), Part(2)>>, wires |-> <<[id |-> {1, 2}, ends |-> {1, 2}]>>,
     targets |-> targets, plans |-> plans, docs |-> docs, legacy |-> [plans |-> {}, artifacts |-> {}]]
File(kind, held) == [kind |-> kind, project |-> held]
Size == [empty |-> 0, short |-> 1, long |-> 2]
MCFiles ==
    {File("bare", Held(None, <<TargetOf(1, "short"), [TargetOf(2, "long") EXCEPT !.def = None, !.artifact = TRUE]>>, <<>>, <<>>)),
     File("bare", Held(None, <<TargetOf(1, "long"), TargetOf(2, "long")>>, <<>>, <<>>)),
     File("vlx", Held(7, <<TargetOf(1, "short")>>, <<PlanFor("p", 1, {1}), PlanFor("q", 2, {9})>>,
                      <<DocOf(7, 1, "short", LinkTo("linked", "q", {})), DocOf(7, 2, "long", LinkTo("stale", "p", {"plan"}))>>)),
     File("vlx", Held(7, <<TargetOf(1, "long")>>, <<>>, <<DocOf(7, 1, "short", NoLink)>>)),
     File("vlx", Held(7, <<>>, <<PlanFor("q", 2, {}), PlanFor("q", 1, {})>>, <<>>)),
     File("other", Held(7, <<>>, <<>>, <<>>)), File("unreadable", None)}
Exchanged == INSTANCE ProjectFile WITH
    Bytes <- Size, SourceLimit <- 3, Plans <- {"p"},
    Files <- {File("vlx", Held(7, <<>>, <<PlanFor("p", 1, {1})>>, <<DocOf(7, 1, "short", NoLink)>>))},
    MaxEdits <- 2, MaxReads <- 1, MaxComponents <- 2, MaxGenerations <- 0, MaxProjects <- 3

Sketches == INSTANCE SourceEditor WITH
    Users <- {"ana"}, Projects <- {"lamp", "fan"}, Components <- {"uno"}, MaxDrafts <- 1, MaxTexts <- 2, MaxSwitches <- 0
Versions == INSTANCE SourceEditor WITH
    Users <- {"ana"}, Projects <- {"lamp"}, Components <- {"uno"}, MaxDrafts <- 0, MaxTexts <- 4, MaxSwitches <- 0

\* the values of MCPage's and MCShared's constants
MCProviders == <<"mouser", "digikey">>
MCStudioEnds == [w |-> <<"a", "b">>]
MCStudioGraphs == {[parts |-> {"a", "b"}, wires |-> {"w"}]}
MCCatalog == [led |-> Led]
MCLoaded == {Graph({"led"}, <<>>)}
MCSimulated == {Version(1), Version(2)}
MCConfigs == {Deployment(v, m, FALSE, x, TRUE, TRUE) : v \in {"edge", "backend"}, m \in {"development", "cloudflare-access"}, x \in {"short", "long"}}
             \cup {Deployment(v, "chatgpt-sites", TRUE, x, trusts, FALSE) : v \in {"edge", "backend"}, x \in {"short", "long"}, trusts \in BOOLEAN}

ServiceRests ==
    /\ part # "session" =>
        /\ prepared = None /\ disposed = FALSE /\ fresh = None /\ rt = None
        /\ history = None /\ retainedBytes = None /\ logBytes = None /\ granted = None
    /\ part # "keys" => profile = None /\ calculator = None /\ lastKey = None /\ emitted = None /\ meant = None /\ presses = None
    /\ part # "firmware" => engine = None /\ target = None /\ run = None
    /\ part \notin {"nets", "bus"} => wires = None /\ parent = None /\ seconds = None /\ browser = None /\ backend = None
    /\ part \notin {"firmware", "nets", "bus"} => program = None
    /\ part # "artifacts" => text = None /\ artifact = None /\ load = None /\ avr = None

ServiceStays ==
    /\ part # "session" => UNCHANGED sessionOnly
    /\ part # "keys" => UNCHANGED keysOnly
    /\ part # "firmware" => UNCHANGED firmwareOnly
    /\ part \notin {"nets", "bus"} => UNCHANGED busOnly
    /\ part \notin {"firmware", "nets", "bus"} => UNCHANGED program
    /\ part # "artifacts" => UNCHANGED artifactsOnly
OthersStay == PageStays /\ SharedStays /\ ServiceStays

MCInit ==
    /\ \/ PageStarts
       \/ SharedStarts
       \/ part = "session" /\ Session!SessionInit
       \/ part = "keys" /\ Pressed!KeypadInit
       \/ part = "cart" /\ Cart!DeskInit
       \/ part = "returns" /\ Returns!DeskInit
       \/ part = "numbers" /\ InNumbers!GatewayInit
       \/ part = "firmware" /\ Firmware!FirmwareInit
       \/ part = "nets" /\ Nets!BusInit
       \/ part = "bus" /\ Bus!BusInit
       \/ part = "own" /\ Own!JobsInit
       \/ part = "artifacts" /\ Artifacts!ArtifactsInit
       \/ part = "switches" /\ Switches!CallsInit
       \/ part = "wired" /\ Wired!ChecksInit
       \/ part = "loaded" /\ FromFile!ChecksInit
       \/ part = "exchanged" /\ Exchanged!FileInit
       \/ part = "sources" /\ Sketches!EditorInit
       \/ part = "versions" /\ Versions!EditorInit
    /\ PageRests /\ SharedRests /\ ServiceRests

MCNext ==
    \/ PageNext /\ SharedStays /\ ServiceStays
    \/ SharedNext /\ PageStays /\ ServiceStays
    \/ part = "session" /\ OthersStay /\ Session!SessionNext
    \/ part = "keys" /\ OthersStay /\ Pressed!KeypadNext
    \/ part = "cart" /\ OthersStay /\ Cart!DeskNext
    \/ part = "returns" /\ OthersStay /\ Returns!DeskNext
    \/ part = "numbers" /\ OthersStay /\ InNumbers!GatewayNext
    \/ part = "firmware" /\ OthersStay /\ Firmware!FirmwareNext
    \/ part = "nets" /\ OthersStay /\ Nets!BusNext
    \/ part = "bus" /\ OthersStay /\ Bus!BusNext
    \/ part = "own" /\ OthersStay /\ Own!JobsNext
    \/ part = "artifacts" /\ OthersStay /\ Artifacts!ArtifactsNext
    \/ part = "switches" /\ OthersStay /\ Switches!CallsNext
    \/ part = "wired" /\ OthersStay /\ Wired!ChecksNext
    \/ part = "loaded" /\ OthersStay /\ FromFile!ChecksNext
    \/ part = "exchanged" /\ OthersStay /\ Exchanged!FileNext
    \/ part = "sources" /\ OthersStay /\ Sketches!EditorNext
    \/ part = "versions" /\ OthersStay /\ Versions!EditorNext

\* the parts whose calls wait
WaitingParts == {"search", "listings", "words", "numbers", "own", "shared"}

\* What the page and the server guarantee to the i-th call of a part: its
\* request is answered, its code resumes, its timer fires; and to the j-th
\* search of the server that others share: the source answers or times out.
Resumes(i) ==
    /\ part \in WaitingParts
    /\ \/ part = "search" /\ Search!RunEnds(i)
       \/ part = "listings" /\ Route!Resumes(i)
       \/ part = "words" /\ InWords!RequestRuns(i)
       \/ part = "numbers" /\ InNumbers!RequestRuns(i)
       \/ part = "own" /\ i = 1 /\ Own!TimerFires(i)
       \/ part = "shared" /\ OneWorker!TimerFires(i)
    /\ OthersStay
Sources == <<"brightdata", "jlcsearch", "adafruit">>
SourceSettles(i) ==
    /\ part \in WaitingParts
    /\ \/ part = "listings" /\ Route!RunEnds(i)
       \/ part = "words" /\ InWords!CallSettles(<<Sources[i], "red led">>)
       \/ part = "numbers" /\ InNumbers!CallSettles(<<Sources[i], "NE555P">>)
    /\ OthersStay

MCSpec ==
    /\ MCInit /\ [][MCNext]_vars
    /\ \A i \in 1..2 : WF_vars(Resumes(i))
    /\ \A i \in 1..3 : WF_vars(SourceSettles(i))

-----------------------------------------------------------------------------
\* What a preview shows is what a replay of its retained dispatches shows, nothing
\* that preparation rejected takes effect, and no rewinding or resetting mints a
\* new allowance of history or log; and a previewed calculator shows the number
\* that the pressed keys mean, in its state and in its events.
PreviewIsSound ==
    /\ part = "session" => Session!ReplayDeterministic /\ Session!OnlyAcceptedTakesEffect /\ Session!LifetimeBudgets
    /\ part = "keys" => Pressed!DisplayIsTrue /\ Pressed!EventsTellDisplay


\* What the browser computes is what its second implementation computes: nets
\* and buses in the backend, a parsed artifact in the simulated processor; and
\* the nets of the graph index are what its wires connect; what the editor and
\* an import make of a project, the reader of files and the store agree about.
ImplementationsAgree ==
    /\ part = "nets" => Nets!NetsAreExact
    /\ part = "bus" => Bus!SimulationsAgree
    /\ part = "artifacts" => Artifacts!LoadedIsExact
    /\ part = "wired" => Wired!NetsAreExact
    /\ part = "loaded" => FromFile!NetsAreExact
    /\ part = "chosen" => Chosen!ExportsAreReadable /\ Chosen!SurvivesReload /\ Chosen!ImportsAreComplete
    /\ part = "exchanged" => Exchanged!ExportsAreReadable /\ Exchanged!SurvivesReload /\ Exchanged!ImportsAreComplete

\* Every call that waits is answered, also when the search, the source or the
\* compiler that it shares or waits for fails or never says a word.  (Callers of
\* a search are alike: two of the three stand for each of them.)
Waits(i) ==
    /\ part \in WaitingParts
    /\ \/ part = "search" /\ Search!Waiting(i)
       \/ part = "listings" /\ Route!Waiting(i)
       \/ part = "words" /\ InWords!Unanswered(i)
       \/ part = "numbers" /\ InNumbers!Unanswered(i)
       \/ part = "own" /\ i = 1 /\ Own!MustEnd(i)
       \/ part = "shared" /\ OneWorker!MustEnd(i)
EveryCallEnds == \A i \in 1..2 : []<>~Waits(i)
=============================================================================
