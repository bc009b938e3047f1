---------------------------- MODULE MCWorkspace ----------------------------
(***************************************************************************)
(* The project store, the components over it and what the tabs of a page   *)
(* share, model-checked one after the other in a single run: part says     *)
(* which of them runs, and the variables of the others rest.               *)
(*   links, rooms   ProjectStore, with the constants below                 *)
(*   design         DesignTools, with the constants of the configuration   *)
(*   plans          PlanCommands                                           *)
(*   preview        PreviewCommands                                        *)
(*   layout         LayoutPreferences                                      *)
(*   assets         AssetCache                                             *)
(***************************************************************************)
EXTENDS DesignTools, Integers

CONSTANTS
    x, y, planA, s1, s2, left, right, l1, l2, unusable,
    LinkEdits, RoomBytes, RoomIds, RoomEdits,   \* of ProjectStore in its own parts
    Slots, PlanEdits, PlanLeases,               \* of PlanCommands
    MaxWorlds, MaxLease, MaxCommands,           \* of PreviewCommands
    Tabs, Local, Options, Heights, MinHeight, MaxHeight, Damaged, MaxSets,
    Loads, Contents, Assets, MaxDamage

ASSUME RoomAssumption == {LinkEdits, RoomEdits} \subseteq Nat /\ {RoomBytes, RoomIds} \subseteq Nat \ {0}

ASSUME PreferencesAssumption ==
    /\ Heights \subseteq Int /\ {MinHeight, MaxHeight} \subseteq Int /\ MinHeight <= MaxHeight
    /\ Local \cap {"bottomPanel", "bottomCollapsed", "bottomHeight"} = {}
    /\ Options # {} /\ Damaged \notin Options \cup Int \cup BOOLEAN

ASSUME AssetAssumption ==
    /\ None \notin Contents /\ Assets \subseteq [sha256 : Contents, sized : BOOLEAN] /\ MaxDamage \in Nat

ASSUME PreviewAssumption == None \notin [req : Nat, world : Nat, lease : Nat]

VARIABLES
    part,
    cmds, gate, unsaved, saving, saveError, disk, answered,
    world, previewLease, hydrated, session, status, opGen, prepares, answers, ui, issued,
    prefs, entry, mail, latest, unsure, sets,
    cached, load, damage

planOnly == <<cmds, gate, unsaved, saving, saveError, disk, answered>>
previewOnly == <<world, previewLease, hydrated, session, status, opGen, prepares, answers, ui, issued>>
designOnly == <<proposal, undo, redo, apply, building, lease>>
layoutOnly == <<prefs, entry, mail, latest, unsure, sets>>
assetsOnly == <<cached, load, damage>>
mcVars == <<part, vars, designOnly, planOnly, previewOnly, layoutOnly, assetsOnly>>

Links == INSTANCE ProjectStore WITH PlanIds <- {planA}, Bodies <- {x, y}, MaxEdits <- LinkEdits
Rooms == INSTANCE ProjectStore WITH Comps <- Comps \ Boards, Boards <- {}, PlanIds <- {}, Bodies <- {},
             MaxBytes <- RoomBytes, MaxIds <- RoomIds, MaxEdits <- RoomEdits
Plans == INSTANCE PlanCommands WITH Comps <- Boards, PlanIds <- {planA}, Bodies <- {x, y}, MaxEdits <- PlanEdits, MaxLease <- PlanLeases
Preview == INSTANCE PreviewCommands WITH lease <- previewLease
Layout == INSTANCE LayoutPreferences
Cache == INSTANCE AssetCache WITH entry <- cached

StoreRests == projects = None /\ active = None /\ project = None /\ recovery = None /\ minted = None /\ edits = None
DesignRests == proposal = None /\ undo = None /\ redo = None /\ apply = Idle /\ building = None /\ lease = None
PlansRest ==
    /\ cmds = None /\ gate = None /\ unsaved = None /\ saving = None /\ saveError = None /\ disk = None /\ answered = None
PreviewRests ==
    /\ world = None /\ previewLease = None /\ hydrated = None /\ session = None /\ status = None /\ opGen = None
    /\ prepares = None /\ answers = None /\ ui = None /\ issued = None
LayoutRests == prefs = None /\ entry = None /\ mail = None /\ latest = None /\ unsure = None /\ sets = None
AssetsRest == cached = None /\ load = None /\ damage = None

OverStore == {"links", "rooms", "design", "plans"}

MCInit ==
    /\ \/ part = "links" /\ Links!Init
       \/ part = "rooms" /\ Rooms!Init
       \/ part = "design" /\ DesignInit
       \/ part = "plans" /\ Plans!PlanInit
       \/ part = "preview" /\ Preview!PreviewInit
       \/ part = "layout" /\ Layout!PrefsInit
       \/ part = "assets" /\ Cache!CacheInit
    /\ part \notin OverStore => StoreRests
    /\ part # "design" => DesignRests
    /\ part # "plans" => PlansRest
    /\ part # "preview" => PreviewRests
    /\ part # "layout" => LayoutRests
    /\ part # "assets" => AssetsRest

MCNext ==
    /\ \/ part = "links" /\ Links!Next
       \/ part = "rooms" /\ Rooms!Next
       \/ part = "design" /\ DesignNext
       \/ part = "plans" /\ Plans!PlanNext
       \/ part = "preview" /\ Preview!PreviewNext
       \/ part = "layout" /\ Layout!PrefsNext
       \/ part = "assets" /\ Cache!CacheNext
    /\ UNCHANGED part
    /\ part \notin OverStore => UNCHANGED vars
    /\ part # "design" => UNCHANGED designOnly
    /\ part # "plans" => UNCHANGED planOnly
    /\ part # "preview" => UNCHANGED previewOnly
    /\ part # "layout" => UNCHANGED layoutOnly
    /\ part # "assets" => UNCHANGED assetsOnly

MCSpec == MCInit /\ [][MCNext]_mcVars

-----------------------------------------------------------------------------
\* The store keeps its types; the active project and its entry of the list
\* never differ; two projects never have one id or one name; and the room is
\* within its limits, or within the baseline of its recovery; and the history of
\* the design tools is within its own.
RoomIsConsistent ==
    /\ part = "links" => Links!TypeOK
    /\ part \in {"links", "rooms"} => Links!ProjectIsListed
    /\ part = "rooms" => Rooms!ProjectsDistinct /\ Rooms!RoomBounded
    /\ part = "design" => HistoryBounded

\* A document that says "linked" is, after edits of the user and of the tools,
\* and after their undo and redo.
LinksStayTruthful == part \in {"links", "design"} => LinksTruthful

\* A room over its limits only shrinks, and leaves recovery when it fits.
RecoveryShrinks == [][part = "rooms" => Rooms!RecoveryStep]_<<part, vars>>

\* design.apply is one transaction: whatever others do between its awaits, it ends
\* with the project as it was and no new history, or with one entry to undo, and
\* the whole design unless somebody changed it meanwhile.
ProposalAppliesWhole == AppliesWhole

\* A write answered as durable is on disk, in the room of the answer; a document
\* read as linked matches its source, plan and graph; and an asset of a compiler
\* that a load answers is the one of its release, whatever was cached.
AnswersAreTrue ==
    /\ part = "plans" => Plans!DurableIsOnDisk /\ Plans!ReadIsTruthful
    /\ part = "assets" => Cache!AssetTypeOK /\ Cache!LoadsAreVerified /\ Cache!CacheIsVerified

\* No write takes back another's: one of a plan replaces only the plan that its
\* caller had read, one of a layout preference leaves the others as they were
\* set last, in whichever tab.
NoLostUpdate ==
    /\ part = "plans" => Plans!NoLostPlan
    /\ part = "layout" => Layout!LatestIsStored

\* The preview session is the newest request's, of the current project and room.
SessionIsCurrent == part = "preview" => Preview!SessionIsCurrent

\* The page's own controls show no snapshot of a project, plan or room that was
\* replaced, a preview they put on the page has the session that they address,
\* and tabs that were not used at once show one layout, within its limits.
PageShowsCurrent ==
    /\ part = "preview" => Preview!UiShowsCurrent /\ Preview!ShownHasSession
    /\ part = "layout" => Layout!HeightsInRange /\ Layout!TabsAgree

MCAssets == [sha256 : Contents, sized : BOOLEAN]
=============================================================================
