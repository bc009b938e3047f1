------------------------------ MODULE PartsDesk ------------------------------
(***************************************************************************)
(* The Parts desk: the shopping store (store/useShoppingStore.ts), the     *)
(* page that looks up the parts of the design                              *)
(* (components/shopping/ShoppingWorkspace.tsx) and the agent's shopping    *)
(* tools (webmcp/tools.ts).  One tab is modelled; another tab of the same  *)
(* origin is the messages it sends.                                        *)
(*                                                                         *)
(* A listing is an id with a catalog part and alternatives; prices, offers *)
(* and texts are left out.  The lines of the cart are in slots: which      *)
(* comes first is not told apart.  Candidates of a lookup are represented  *)
(* by what was looked up.                                                  *)
(***************************************************************************)
EXTENDS Naturals, Sequences, FiniteSets

CONSTANTS
    None, Rooms, Queries,
    Listings,       \* listing id -> [part, alternatives]
    Designs,        \* what a design needs: sets of parts
    MaxQuantity,    \* 999 in the source
    MaxUndo,        \* 20 in the source
    MaxLease, MaxLookups, MaxCart   \* bounds: account changes, lookups of page and tool, cart lines

VARIABLES
    room, lease, hydrated,
    desk,       \* the store: query, results, cart, undo, status, discovery, handoff; of: the room it is of,
                \* loose: ghost, how the cart got lines that are not listed or not distinct
    stored,     \* localStorage, per room: results, cart, of, loose
    design,     \* the parts the active design needs
    page,       \* mounted, looked (autoLookupFingerprint), seq, active, candidates
    lookups,    \* lookups awaiting the gateway
    answered,   \* the last answer of shopping.search: the query and what its candidates were found for
    abandoned   \* ghost: the search that set the status "searching" was given up without an answer

deskVars == <<room, lease, hydrated, desk, stored, design, page, lookups, answered, abandoned>>
session == <<room, lease, hydrated>>
Ids == DOMAIN Listings
Slots == 1..MaxCart
NoLines == [n \in Slots |-> None]

(***************************************************************************)
(* The store.  Everything that is persisted passes normalizePersistedState. *)
(***************************************************************************)
Holds(cart, n, ids) == cart[n] # None /\ cart[n].id \in ids
Listed(results, cart) == [n \in Slots |-> IF Holds(cart, n, results) THEN cart[n] ELSE None]
Saved(d, cart) == [results |-> d.results, cart |-> cart, of |-> d.of, loose |-> d.loose \ {"undone"}]
Persist_Raw(d) == stored' = [stored EXCEPT ![room] = Saved(d, d.cart)]
Persist(d) == stored' = [stored EXCEPT ![room] = Saved(d, Listed(d.results, d.cart))]

FromStorage(s) ==
    [query |-> None, results |-> s.results, cart |-> Listed(s.results, s.cart), undo |-> <<>>, status |-> "idle",
     discovery |-> None, handoff |-> None, of |-> s.of, loose |-> s.loose]

Clamp(n) == IF n > MaxQuantity THEN MaxQuantity ELSE IF n < 1 THEN 1 ELSE n
Remembered(d) == LET s == Append(d.undo, [cart |-> d.cart, loose |-> d.loose])
                 IN  IF Len(s) > MaxUndo THEN Tail(s) ELSE s
WithCart(cart) == /\ desk' = [desk EXCEPT !.cart = cart, !.undo = Remembered(desk)]
                  /\ Persist(desk')
HasLine(id) == \E n \in Slots : Holds(desk.cart, n, {id})
Line(id, quantity) == [id |-> id, quantity |-> quantity]
Added(id, n) == {[desk.cart EXCEPT ![slot] = Line(id, Clamp(n))] : slot \in {m \in Slots : desk.cart[m] = None}}
Relined(id, line) == [n \in Slots |-> IF Holds(desk.cart, n, {id}) THEN line ELSE desk.cart[n]]
Requantified(id, Quantity(_)) ==
    [n \in Slots |-> IF Holds(desk.cart, n, {id}) THEN Line(id, Quantity(desk.cart[n].quantity)) ELSE desk.cart[n]]

AddToCart_AlwaysAppends(id, n) == \E cart \in Added(id, n) : WithCart(cart)
AddToCart(id, n) ==
    IF HasLine(id) THEN WithCart(Requantified(id, LAMBDA q : Clamp(q + Clamp(n))))
                   ELSE \E cart \in Added(id, n) : WithCart(cart)

Remove(id) == WithCart(Relined(id, None))
SetQuantity(id, n) == WithCart(IF n = 0 THEN Relined(id, None) ELSE Relined(id, Line(id, Clamp(n))))

\* the line keeps its place and quantity; a line of the replacement may be there already
ChooseAlternative(id, part) ==
    LET found == { r \in desk.results : Listings[r].part = part }
    IN  /\ id \in desk.results /\ part \in Listings[id].alternatives
        /\ \E r \in found :
             /\ desk' = [desk EXCEPT !.cart = [n \in Slots |-> IF Holds(@, n, {id}) THEN [@[n] EXCEPT !.id = r] ELSE @[n]],
                                     !.undo = Remembered(desk), !.loose = @ \cup {"duplicate"}]
             /\ Persist(desk')

\* one of each part that is listed
ResetCart(parts) ==
    LET wanted == { p \in parts : \E r \in desk.results : Listings[r].part = p }
        first(p) == Line(CHOOSE r \in desk.results : Listings[r].part = p, 1)
        lines == { first(p) : p \in wanted }
    IN  \E cart \in [Slots -> lines \cup {None}] :
            /\ \A line \in lines : \E n \in Slots : cart[n] = line
            /\ \A m, n \in Slots : cart[m] = cart[n] /\ cart[m] # None => m = n
            /\ WithCart(cart)

\* undoCart: the carts remembered before a publication are still there after it
UndoCart ==
    IF desk.undo = <<>> THEN UNCHANGED <<desk, stored>>
    ELSE LET n == Len(desk.undo)
         IN  /\ desk' = [desk EXCEPT !.cart = desk.undo[n].cart, !.undo = SubSeq(@, 1, n - 1),
                                     !.loose = desk.undo[n].loose \cup {"undone"}]
             /\ Persist(desk')

PublishAgentResults_KeepsCart(results, rejected) ==
    /\ desk' = [desk EXCEPT !.results = results, !.of = room, !.discovery = None, !.handoff = None,
                            !.status = IF rejected THEN "partial" ELSE "ready"]
    /\ Persist(desk')

PublishAgentResults(results, rejected) ==
    /\ desk' = [desk EXCEPT !.results = results, !.cart = NoLines, !.of = room, !.discovery = None, !.handoff = None,
                            !.loose = {}, !.status = IF rejected THEN "partial" ELSE "ready"]
    /\ Persist(desk')

(***************************************************************************)
(* The agent's tools.  A tool that changes the room runs only in its       *)
(* hydrated lease (executeToolWithActivity).                               *)
(***************************************************************************)
Quiet == UNCHANGED <<session, design, page, lookups, answered, abandoned>>
CartTool ==
    /\ hydrated
    /\ \/ \E id \in desk.results, n \in 1..MaxQuantity : AddToCart(id, n)
       \/ \E id \in Ids : HasLine(id) /\ (Remove(id) \/ \E n \in 0..MaxQuantity : SetQuantity(id, n))
       \/ \E id \in Ids, part \in { Listings[r].part : r \in Ids } : ChooseAlternative(id, part)
       \/ ResetCart(design)
       \/ UndoCart
    /\ Quiet

\* every listing malformed or not the agent's own: what is shown stays
PublishRejected == desk' = [desk EXCEPT !.status = "failed"] /\ Persist(desk')

PublishTool ==
    /\ hydrated
    /\ PublishRejected \/ \E results \in SUBSET Ids \ {{}}, rejected \in BOOLEAN : PublishAgentResults(results, rejected)
    /\ UNCHANGED <<session, design, page, lookups, answered>> /\ abandoned' = FALSE

\* shopping.search without listings, up to the await of the lookup
SearchTool(q) ==
    /\ hydrated /\ Cardinality(lookups) < MaxLookups
    /\ ~ \E l \in lookups : l.by = "tool" /\ l.for = q
    /\ desk' = [desk EXCEPT !.query = q, !.discovery = None, !.handoff = q, !.status = "searching"]
    /\ lookups' = lookups \cup {[by |-> "tool", for |-> q, seq |-> lease, before |-> desk.discovery]}
    /\ Persist(desk')
    /\ UNCHANGED <<session, design, page, answered>> /\ abandoned' = FALSE

\* without a session there is no lookup: the handoff is the answer
SearchToolSignedOut(q) ==
    /\ desk' = [desk EXCEPT !.query = q, !.discovery = None, !.handoff = q, !.status = "agent-required"]
    /\ answered' = [query |-> q, candidates |-> desk.discovery]
    /\ Persist(desk') /\ abandoned' = FALSE
    /\ UNCHANGED <<session, design, page, lookups>>

\* activeDiscovery is read from the state captured before the lookup
SearchToolAnswers(l, outcome) ==
    /\ l.by = "tool" /\ lookups' = lookups \ {l}
    /\ IF l.seq # lease \/ ~hydrated THEN UNCHANGED <<desk, stored, answered, abandoned>>
       ELSE LET found == IF outcome = "found" THEN l.for ELSE None
                active == IF l.before # None THEN l.before ELSE found
            IN  /\ desk' = [desk EXCEPT !.query = l.for, !.handoff = l.for,
                                        !.discovery = IF found # None THEN found ELSE @,
                                        !.status = IF outcome = "limited" THEN "rate-limited"
                                                   ELSE IF outcome = "failed" /\ active = None THEN "failed"
                                                   ELSE "agent-required"]
                /\ answered' = [query |-> l.for, candidates |-> active]
                /\ Persist(desk') /\ abandoned' = FALSE
    /\ UNCHANGED <<session, design, page>>

\* the agent aborts the call: nothing takes the status back
SearchToolAborted(l) ==
    /\ l.by = "tool" /\ lookups' = lookups \ {l}
    /\ abandoned' = TRUE
    /\ UNCHANGED <<session, desk, stored, design, page, answered>>

(***************************************************************************)
(* The page.  An effect runs after the render that follows a change, so    *)
(* an answer may come in between.  A lookup that is aborted may have       *)
(* settled already: its continuation runs, and finds it is not the active. *)
(***************************************************************************)
ActiveLookup == { l \in lookups : l.by = "page" /\ l.seq = page.active }
StageDesign ==
    /\ page' = [page EXCEPT !.looked = design, !.seq = @ + 1, !.active = page.seq + 1, !.candidates = None]
    /\ lookups' = lookups \cup {[by |-> "page", for |-> design, seq |-> page.seq + 1, before |-> None]}
    /\ desk' = [desk EXCEPT !.query = None, !.handoff = "design", !.discovery = None, !.status = "searching"]
    /\ Persist(desk') /\ abandoned' = FALSE
    /\ UNCHANGED <<session, design, answered>>

\* the effect of a design with nothing to look up aborts, and leaves the store as it is
EmptyDesign ==
    /\ page' = [page EXCEPT !.looked = None, !.active = None, !.candidates = None]
    /\ abandoned' = (abandoned \/ (ActiveLookup # {} /\ desk.status = "searching"))
    /\ UNCHANGED <<session, desk, stored, design, lookups, answered>>

LookupEffect ==
    /\ page.mounted /\ page.looked # (IF design = {} THEN None ELSE design)
    /\ IF design = {} THEN EmptyDesign ELSE page.seq < MaxLookups /\ StageDesign
RetryLookup == page.mounted /\ design # {} /\ page.seq < MaxLookups /\ StageDesign

Unmount ==
    /\ page.mounted
    /\ page' = [page EXCEPT !.mounted = FALSE, !.looked = None, !.active = None, !.candidates = None]
    /\ abandoned' = (abandoned \/ (ActiveLookup # {} /\ desk.status = "searching"))
    /\ UNCHANGED <<session, desk, stored, design, lookups, answered>>
Mount == ~page.mounted /\ page' = [page EXCEPT !.mounted = TRUE] /\ UNCHANGED <<session, desk, stored, design, lookups, answered, abandoned>>

StillActive_Any(l) == TRUE
StillActive(l) == page.active = l.seq

\* the workers are done: the answer counts only for the newest request
LookupSettles(l, outcome) ==
    /\ l.by = "page" /\ lookups' = lookups \ {l}
    /\ IF ~StillActive(l) THEN UNCHANGED <<desk, stored, page, abandoned>>
       ELSE /\ desk' = [desk EXCEPT !.discovery = l.for,
                                    !.status = IF outcome = "found" THEN "staged"
                                               ELSE IF outcome = "limited" THEN "rate-limited" ELSE "failed"]
            /\ page' = [page EXCEPT !.active = None, !.candidates = IF outcome = "found" THEN l.for ELSE None]
            /\ Persist(desk') /\ abandoned' = FALSE
    /\ UNCHANGED <<session, design, answered>>

\* a lookup may throw: the status says so
LookupThrows_Silent(l) ==
    /\ l.by = "page" /\ StillActive(l) /\ lookups' = lookups \ {l}
    /\ page' = [page EXCEPT !.active = None]
    /\ UNCHANGED <<session, desk, design, stored, answered, abandoned>>
LookupThrows(l) ==
    /\ l.by = "page" /\ StillActive(l) /\ lookups' = lookups \ {l}
    /\ desk' = [desk EXCEPT !.status = "failed"]
    /\ page' = [page EXCEPT !.active = None]
    /\ abandoned' = FALSE
    /\ UNCHANGED <<session, design, stored, answered>>

\* the effect that drops the page's list once a publication replaced it
DropMirror ==
    /\ page.mounted /\ page.candidates # None
    /\ desk.status \in {"ready", "partial"} /\ desk.discovery = None /\ desk.results # {}
    /\ page' = [page EXCEPT !.candidates = None]
    /\ UNCHANGED <<session, desk, stored, design, lookups, answered, abandoned>>

(***************************************************************************)
(* The project, another tab and the account.                               *)
(***************************************************************************)
EditDesign ==
    /\ design' \in Designs \ {design}
    /\ UNCHANGED <<session, desk, stored, page, lookups, answered, abandoned>>

\* another tab of room r saved; its message is heard by tabs of that room only
HearsOf_Any(r) == TRUE
HearsOf(r) == r = room
OtherTabSaves(r) ==
    \E results \in SUBSET Ids, line \in Ids :
        LET s == [results |-> results, cart |-> Listed(results, [n \in Slots |-> IF n = 1 THEN Line(line, 1) ELSE None]), of |-> r, loose |-> {}]
        IN  /\ stored' = [stored EXCEPT ![r] = s]
            /\ desk' = IF HearsOf(r) THEN FromStorage(s) ELSE desk
            /\ abandoned' = (abandoned /\ ~HearsOf(r))
            /\ UNCHANGED <<session, design, page, lookups, answered>>

\* the session event: reloadShoppingForCurrentUser; the project follows when the room is hydrated
SwitchRoom ==
    /\ lease < MaxLease /\ lease' = lease + 1 /\ hydrated' = FALSE
    /\ room' \in Rooms
    /\ desk' = FromStorage(stored[room'])
    /\ abandoned' = FALSE
    /\ UNCHANGED <<stored, design, page, lookups, answered>>
RoomHydrated ==
    /\ ~hydrated /\ hydrated' = TRUE /\ design' \in Designs
    /\ UNCHANGED <<room, lease, desk, stored, page, lookups, answered, abandoned>>

Empty(r) == [results |-> {}, cart |-> NoLines, of |-> r, loose |-> {}]
DeskInit ==
    /\ room = CHOOSE r \in Rooms : TRUE
    /\ lease = 1 /\ hydrated = TRUE
    /\ stored = [r \in Rooms |-> Empty(r)] /\ desk = FromStorage(Empty(room))
    /\ design = {} /\ lookups = {} /\ abandoned = FALSE
    /\ page = [mounted |-> TRUE, looked |-> None, seq |-> 0, active |-> None, candidates |-> None]
    /\ answered = [query |-> None, candidates |-> None]

DeskNext ==
    \/ CartTool \/ PublishTool
    \/ \E q \in Queries : SearchTool(q) \/ (hydrated /\ SearchToolSignedOut(q))
    \/ \E l \in lookups : \/ \E o \in {"found", "empty", "limited", "failed"} : SearchToolAnswers(l, o) \/ LookupSettles(l, o)
                          \/ SearchToolAborted(l) \/ LookupThrows(l)
    \/ LookupEffect \/ RetryLookup \/ Unmount \/ Mount \/ DropMirror
    \/ EditDesign \/ (\E r \in Rooms : OtherTabSaves(r)) \/ SwitchRoom \/ RoomHydrated

DeskSpec == DeskInit /\ [][DeskNext]_deskVars

-----------------------------------------------------------------------------
\* The listings and cart on screen, and those of every room in storage, were
\* published or saved in that room, across account changes and other tabs.
DeskIsOfRoom == desk.of = room /\ \A r \in Rooms : stored[r].of = r

\* no listing has two lines
OneLineEach(cart) == \A m, n \in Slots : Holds(cart, m, Ids) /\ Holds(cart, n, {cart[m].id}) => m = n

\* A cart line names a listing that is there and no listing has two lines; only
\* an undo back over a publication and a chosen alternative that was in the cart
\* already break this on screen, and no reload finds a line without its listing.
CartIsListed ==
    /\ desk.loose = {} => Listed(desk.results, desk.cart) = desk.cart /\ OneLineEach(desk.cart)
    /\ \A r \in Rooms : Listed(stored[r].results, stored[r].cart) = stored[r].cart

\* The candidates the page shows were found for the design it last looked up,
\* however lookups, edits, retries and a remount overlap.
CandidatesOfDesign == page.candidates # None => page.candidates = page.looked

\* While the status is "searching" a lookup is running that will change it,
\* unless the running one was abandoned with its page, its design or its call.
SearchingIsAlive ==
    desk.status = "searching" /\ ~abandoned => ActiveLookup \cup { l \in lookups : l.by = "tool" } # {}

\* (violated) An answer of shopping.search holds candidates of the query it
\* answers: the candidates of an earlier lookup are cleared first.
AnswerIsOfQuery == answered.candidates # None => answered.candidates = answered.query
=============================================================================
