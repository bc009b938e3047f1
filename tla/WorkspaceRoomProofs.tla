------------------------ MODULE WorkspaceRoomProofs ------------------------
(***************************************************************************)
(* Proofs about the project list of a room (ProjectStore as the parts      *)
(* links and rooms of MCWorkspace): its ids and names stay distinct, it    *)
(* stays within its limits or the baseline of its recovery, and a room     *)
(* over its limits only shrinks.                                           *)
(***************************************************************************)
EXTENDS WorkspaceStoreProofs, FiniteSetTheorems, WellFoundedInduction

(***************************************************************************)
(* The size of a list of projects.                                         *)
(***************************************************************************)
Sized(p) == IsFiniteSet(p.comps) /\ IsFiniteSet(DOMAIN p.docs)
Items(ps) == UNION {{i} \X Parts(ps[i]) : i \in DOMAIN ps}

LEMMA InItems ==
    ASSUME NEW ps, NEW z
    PROVE  z \in Items(ps) <=> \E i \in DOMAIN ps : \E t \in Parts(ps[i]) : z = <<i, t>>
<1>1. \A i, P : z \in {i} \X P <=> \E t \in P : z = <<i, t>>
  OBVIOUS
<1>2. z \in Items(ps) <=> \E i \in DOMAIN ps : z \in {i} \X Parts(ps[i])
  BY Zenon DEF Items
<1> QED
  BY <1>1, <1>2, Zenon

LEMMA PartsFinite == ASSUME NEW p, Sized(p) PROVE IsFiniteSet(Parts(p))
<1>1. IsFiniteSet({<<"project", None>>}) /\ IsFiniteSet({"component"}) /\ IsFiniteSet({"document"})
  BY FS_Singleton, Zenon
<1>2. IsFiniteSet({"component"} \X p.comps) /\ IsFiniteSet({"document"} \X DOMAIN p.docs)
  BY <1>1, FS_Product, Zenon DEF Sized
<1>3. IsFiniteSet({<<"project", None>>} \cup ({"component"} \X p.comps))
  BY <1>1, <1>2, FS_Union, Zenon
<1> QED
  BY <1>2, <1>3, FS_Union, Zenon DEF Parts

LEMMA ItemsFinite ==
    ASSUME NEW ps, IsList(ps), \A p \in Entries(ps) : Sized(p)
    PROVE  IsFiniteSet(Items(ps)) /\ Bytes(ps) \in Nat
<1> DEFINE block(i) == {i} \X Parts(ps[i])
           S == {block(i) : i \in DOMAIN ps}
           f == [i \in DOMAIN ps |-> block(i)]
<1>1. IsFiniteSet(DOMAIN ps)
  BY ListLength, FS_Interval
<1>2. f \in Surjection(DOMAIN ps, S)
  BY DEF Surjection
<1>3. IsFiniteSet(S)
  <2> HIDE DEF S, f
  <2> QED
    BY <1>1, <1>2, FS_Surjection
<1>4. ASSUME NEW i \in DOMAIN ps PROVE IsFiniteSet(block(i))
  <2>1. IsFiniteSet(Parts(ps[i]))
    BY PartsFinite DEF Entries
  <2> QED
    BY <2>1, FS_Singleton, FS_Product, Zenon
<1>5. \A B \in S : IsFiniteSet(B)
  BY <1>4
<1>6. IsFiniteSet(UNION S)
  <2> HIDE DEF S
  <2> QED
    BY <1>3, <1>5, FS_UNION
<1>7. UNION S = Items(ps) /\ Bytes(ps) = Cardinality(Items(ps))
  BY Zenon DEF Items, Bytes
<1> QED
  BY <1>6, <1>7, FS_CardinalityType

\* A list is no larger than one into which its projects can be put one to one, none of
\* them made larger.
LEMMA BytesMonotone ==
    ASSUME NEW ps, NEW qs, IsFiniteSet(Items(qs)),
           NEW h \in [DOMAIN ps -> DOMAIN qs], \A i, j \in DOMAIN ps : h[i] = h[j] => i = j,
           \A i \in DOMAIN ps : Parts(ps[i]) \subseteq Parts(qs[h[i]])
    PROVE  IsFiniteSet(Items(ps)) /\ Bytes(ps) \in Nat /\ Bytes(qs) \in Nat /\ Bytes(ps) <= Bytes(qs)
<1> DEFINE g == [z \in Items(ps) |-> <<h[z[1]], z[2]>>]
<1>1. ASSUME NEW z \in Items(ps)
      PROVE  z = <<z[1], z[2]>> /\ z[1] \in DOMAIN ps /\ z[2] \in Parts(ps[z[1]])
  <2>1. PICK i \in DOMAIN ps : \E t \in Parts(ps[i]) : z = <<i, t>>
    BY InItems
  <2>2. PICK t \in Parts(ps[i]) : z = <<i, t>>
    BY <2>1
  <2>3. z[1] = i /\ z[2] = t
    BY <2>2
  <2> QED
    BY <2>2, <2>3
<1>2. ASSUME NEW z \in Items(ps) PROVE g[z] \in Items(qs)
  <2>1. z[2] \in Parts(qs[h[z[1]]]) /\ h[z[1]] \in DOMAIN qs
    BY <1>1
  <2>2. <<h[z[1]], z[2]>> \in Items(qs)
    BY <2>1, InItems
  <2> QED
    BY <2>2
<1>3. ASSUME NEW z \in Items(ps), NEW w \in Items(ps), g[z] = g[w] PROVE z = w
  <2>1. <<h[z[1]], z[2]>> = <<h[w[1]], w[2]>>
    BY <1>3, Zenon
  <2>2. z[1] = w[1]
    BY <1>1, <2>1
  <2>3. z = <<z[1], z[2]>> /\ w = <<w[1], w[2]>> /\ z[2] = w[2]
    BY <1>1, <2>1
  <2> QED
    BY <2>2, <2>3, Zenon
<1>4. g \in Injection(Items(ps), Items(qs))
  <2>1. g \in [Items(ps) -> Items(qs)]
    BY <1>2
  <2> HIDE DEF g
  <2> QED
    BY <1>3, <2>1 DEF Injection, IsInjective
<1>5. IsFiniteSet(Items(ps)) /\ Cardinality(Items(ps)) <= Cardinality(Items(qs))
  <2> HIDE DEF g
  <2> QED
    BY <1>4, FS_Injection
<1>6. Bytes(ps) = Cardinality(Items(ps)) /\ Bytes(qs) = Cardinality(Items(qs))
  BY Zenon DEF Items, Bytes
<1> QED
  BY <1>5, <1>6, FS_CardinalityType

LEMMA RemovedBytes ==
    ASSUME NEW ps, IsList(ps), NEW i \in DOMAIN ps, IsFiniteSet(Items(ps))
    PROVE  Bytes(RemoveAt(ps, i)) <= Bytes(ps) /\ Bytes(RemoveAt(ps, i)) \in Nat /\ Bytes(ps) \in Nat
<1> DEFINE qs == RemoveAt(ps, i)
           h == [k \in DOMAIN qs |-> IF k < i THEN k ELSE k + 1]
<1>1. /\ DOMAIN ps = 1..Len(ps) /\ Len(ps) \in Nat /\ DOMAIN qs = 1..(Len(ps) - 1)
      /\ \A k \in DOMAIN qs : qs[k] = ps[IF k < i THEN k ELSE k + 1]
  <2>1. IsList(qs) /\ Len(qs) = Len(ps) - 1
    BY ListRemoveAt
  <2> QED
    BY <2>1, ListLength, ListRemoveAt
<1> HIDE DEF qs
<1>2. h \in [DOMAIN qs -> DOMAIN ps]
  BY <1>1
<1>3. \A k, m \in DOMAIN qs : h[k] = h[m] => k = m
  BY <1>1
<1>4. \A k \in DOMAIN qs : Parts(qs[k]) \subseteq Parts(ps[h[k]])
  BY <1>1
<1> HIDE DEF h
<1>5. Bytes(qs) <= Bytes(ps) /\ Bytes(qs) \in Nat /\ Bytes(ps) \in Nat
  BY <1>2, <1>3, <1>4, BytesMonotone
<1> QED
  BY <1>5 DEF qs

(***************************************************************************)
(* Names: among Len + 1 suffixes one is free.                              *)
(***************************************************************************)
LEMMA LeastOf == ASSUME NEW T \in SUBSET Nat, T # {} PROVE \E n \in T : \A m \in T : n <= m
<1> DEFINE R == OpToRel(<, Nat)
<1>1. \A m, n \in Nat : <<m, n>> \in R <=> m < n
  BY DEF OpToRel
<1>2. \E n \in T : \A m \in T : ~(<<m, n>> \in R)
  <2>1. IsWellFoundedOn(R, Nat) /\ T \subseteq Nat
    BY NatLessThanWellFounded
  <2> HIDE DEF R
  <2> QED
    BY <2>1, WFMin
<1> HIDE DEF R
<1>3. PICK n \in T : \A m \in T : ~(<<m, n>> \in R)
  BY <1>2
<1>4. \A m \in T : n <= m
  <2> SUFFICES ASSUME NEW m \in T PROVE n <= m
    OBVIOUS
  <2>1. m \in Nat /\ n \in Nat /\ ~(m < n)
    BY <1>1, <1>3
  <2> QED
    BY <2>1
<1> QED
  BY <1>4

LEMMA Suffix ==
    ASSUME NEW base \in Seq(Nat), NEW n \in Nat
    PROVE  base \o <<n>> \in Seq(Nat) /\ (base \o <<n>>)[Len(base) + 1] = n
<1>1. <<n>> \in Seq(Nat) /\ Len(<<n>>) = 1 /\ <<n>>[1] = n /\ Len(base) \in Nat
  BY LenProperties
<1> DEFINE s == <<n>>
<1> HIDE DEF s
<1>2. base \o s \in Seq(Nat) /\ \A k \in 1..(Len(base) + Len(s)) : (base \o s)[k] = IF k <= Len(base) THEN base[k] ELSE s[k - Len(base)]
  BY <1>1, ConcatProperties DEF s
<1>3. Len(base) + 1 \in 1..(Len(base) + Len(s)) /\ ~(Len(base) + 1 <= Len(base)) /\ (Len(base) + 1) - Len(base) = 1
  BY <1>1 DEF s
<1>4. (base \o s)[Len(base) + 1] = s[1]
  BY <1>2, <1>3
<1> QED
  BY <1>1, <1>2, <1>4 DEF s

LEMMA FreeName ==
    ASSUME IsList(projects), NEW base \in Seq(Nat), NEW except
    PROVE  \E n \in 2..(Len(projects) + 2) : base \o <<n>> \notin NamesUsed(except)
<1> DEFINE L == Len(projects)
           owner(n) == CHOOSE j \in 1..L : projects[j].name = base \o <<n>>
           f == [n \in 2..(L + 2) |-> owner(n)]
<1>1. L \in Nat /\ DOMAIN projects = 1..L
  BY ListLength
<1> SUFFICES ASSUME \A n \in 2..(L + 2) : base \o <<n>> \in NamesUsed(except) PROVE FALSE
  OBVIOUS
<1>2. ASSUME NEW n \in 2..(L + 2) PROVE owner(n) \in 1..L /\ projects[owner(n)].name = base \o <<n>>
  <2>1. \E j \in 1..L : projects[j].name = base \o <<n>>
    BY <1>1 DEF NamesUsed
  <2> QED
    BY <2>1
<1>3. f \in [2..(L + 2) -> 1..L]
  BY <1>2
<1>4. /\ IsFiniteSet(2..(L + 2)) /\ Cardinality(2..(L + 2)) = L + 1
      /\ IsFiniteSet(1..L) /\ Cardinality(1..L) = L
  <2> HIDE DEF L
  <2>1. 1 \in Int /\ 2 \in Int /\ L \in Int /\ L + 2 \in Int /\ ~(2 > L + 2) /\ (L + 2) - 2 + 1 = L + 1
        /\ (1 > L => L = 0) /\ L - 1 + 1 = L
    BY <1>1
  <2>2. IsFiniteSet(2..(L + 2)) /\ Cardinality(2..(L + 2)) = (L + 2) - 2 + 1
    BY <2>1, FS_Interval
  <2>3. IsFiniteSet(1..L) /\ Cardinality(1..L) = IF 1 > L THEN 0 ELSE L - 1 + 1
    BY <2>1, FS_Interval
  <2> QED
    BY <2>1, <2>2, <2>3
<1>5. \E m, n \in 2..(L + 2) : m # n /\ f[m] = f[n]
  <2> DEFINE S == 2..(L + 2)
             T == 1..L
  <2> HIDE DEF f, L
  <2>0. L < L + 1
    BY <1>1
  <2>1. IsFiniteSet(S) /\ IsFiniteSet(T) /\ Cardinality(T) < Cardinality(S) /\ f \in [S -> T]
    BY <2>0, <1>3, <1>4
  <2> HIDE DEF S, T
  <2>2. \E m, n \in S : m # n /\ f[m] = f[n]
    BY <2>1, FS_PigeonHole
  <2> QED
    BY <2>2 DEF S
<1>6. PICK m \in 2..(L + 2), n \in 2..(L + 2) : m # n /\ f[m] = f[n]
  BY <1>5
<1>7. base \o <<m>> = base \o <<n>>
  <2>1. owner(m) = owner(n)
    BY <1>6
  <2> HIDE DEF owner
  <2> QED
    BY <1>2, <2>1
<1>8. m \in Nat /\ n \in Nat
  BY <1>1
<1> QED
  BY <1>6, <1>7, <1>8, Suffix

LEMMA UniqueNameIsFree ==
    ASSUME IsList(projects), NEW base \in Seq(Nat), NEW except
    PROVE  UniqueName(base, except) \in Seq(Nat) /\ UniqueName(base, except) \notin NamesUsed(except)
<1>1. CASE base \notin NamesUsed(except)
  BY <1>1 DEF UniqueName
<1>2. CASE base \in NamesUsed(except)
  <2> DEFINE Free == {n \in 2..(Len(projects) + 2) : base \o <<n>> \notin NamesUsed(except)}
             least == CHOOSE n \in Free : \A m \in Free : n <= m
  <2>1. Len(projects) \in Nat
    BY ListLength
  <2>2. Free \in SUBSET Nat /\ Free # {}
    <3>1. \E n \in 2..(Len(projects) + 2) : base \o <<n>> \notin NamesUsed(except)
      BY FreeName
    <3>2. Free \in SUBSET Nat
      BY <2>1
    <3> QED
      BY <3>1, <3>2
  <2>3. \E n \in Free : \A m \in Free : n <= m
    <3> HIDE DEF Free
    <3> QED
      BY <2>2, LeastOf
  <2>4. least \in Free
    <3> HIDE DEF Free
    <3> QED
      BY <2>3
  <2>5. UniqueName(base, except) = base \o <<least>>
    BY <1>2 DEF UniqueName
  <2>6. least \in Nat /\ base \o <<least>> \notin NamesUsed(except)
    <3> HIDE DEF least
    <3> QED
      BY <2>2, <2>4
  <2> HIDE DEF least
  <2> QED
    BY <2>5, <2>6, Suffix
<1> QED
  BY <1>1, <1>2

(***************************************************************************)
(* The room.                                                               *)
(***************************************************************************)
RoomEntry(p, n) == DOMAIN p = Fields /\ p.id \in 1..n /\ p.name \in Seq(Nat) /\ Sized(p)
RoomList(ps, n) == IsList(ps) /\ Len(ps) # 0 /\ \A p \in Entries(ps) : RoomEntry(p, n)
Distinct(ps) == \A i, j \in DOMAIN ps : ps[i].id = ps[j].id \/ ps[i].name = ps[j].name => i = j

RoomFits(ps) == Len(ps) <= MaxProjects /\ Bytes(ps) <= RoomBytes

RecoveryShape ==
    /\ DOMAIN recovery = {"failed", "baseline"} /\ recovery.failed \in BOOLEAN
    /\ ~recovery.failed => recovery.baseline = None

Bounded ==
    /\ ~recovery.failed => RoomFits(projects)
    /\ recovery.baseline # None =>
           Len(projects) <= recovery.baseline.count /\ Bytes(projects) <= recovery.baseline.bytes

BaselineIsSize ==
    recovery.baseline # None => recovery.baseline.count \in Nat /\ recovery.baseline.bytes \in Nat

RoomInv ==
    /\ minted \in Nat /\ RoomList(projects, minted) /\ Distinct(projects) /\ ProjectIsListed
    /\ RecoveryShape /\ BaselineIsSize /\ Bounded

\* what a step in recovery must do
Shrinks ==
    recovery.failed =>
        /\ RoomFits(projects') \/ (Len(projects') <= Len(projects) /\ Bytes(projects') <= Bytes(projects))
        /\ ~recovery'.failed => RoomFits(projects')

RoomKept == RoomInv' /\ Shrinks

LEMMA RoomListIsFinite ==
    ASSUME NEW ps, NEW n, RoomList(ps, n)
    PROVE  IsFiniteSet(Items(ps)) /\ Bytes(ps) \in Nat /\ Len(ps) \in Nat /\ DOMAIN ps = 1..Len(ps)
BY ItemsFinite, ListLength DEF RoomList, RoomEntry

\* a project of the room that is as the active one, is the active one
LEMMA ActiveIsOnce ==
    ASSUME RoomInv
    PROVE  /\ \E k \in DOMAIN projects : projects[k] = project /\ project.id = active
           /\ \A j \in DOMAIN projects : projects[j].id = project.id => projects[j] = project
           /\ RoomEntry(project, minted)
BY DEF RoomInv, ProjectIsListed, Distinct, RoomList, Entries

\* One entry is replaced by a project of its id, whose name is its own or free.
LEMMA ReplaceKeepsRoom ==
    ASSUME RoomInv, NEW p, RoomEntry(p, minted), NEW m \in DOMAIN projects, projects[m].id = p.id,
           p.name = projects[m].name \/ p.name \notin NamesUsed(p.id),
           ~recovery.failed, RoomFits(WithProject(p)),
           projects' = WithProject(p), project' = (IF active = p.id THEN p ELSE project),
           active' = active, minted' = minted, recovery' = recovery
    PROVE  RoomKept
<1>1. /\ IsList(WithProject(p)) /\ DOMAIN WithProject(p) = DOMAIN projects
      /\ \A q \in Entries(WithProject(p)) : q = p \/ q \in Entries(projects)
      /\ Len(projects) # 0
  BY WithProjectSound DEF RoomInv, RoomList
<1>2. RoomList(projects', minted')
  <2>1. Len(WithProject(p)) # 0
    BY <1>1, ListLength DEF RoomInv, RoomList
  <2> QED
    BY <1>1, <2>1 DEF RoomInv, RoomList
<1>3. \A j \in DOMAIN projects : WithProject(p)[j] = IF projects[j].id = p.id THEN p ELSE projects[j]
  BY DEF WithProject
<1>4. Distinct(projects')
  <2> SUFFICES ASSUME NEW i \in DOMAIN projects, NEW j \in DOMAIN projects,
                      \/ WithProject(p)[i].id = WithProject(p)[j].id
                      \/ WithProject(p)[i].name = WithProject(p)[j].name
               PROVE  i = j
    BY <1>1 DEF Distinct
  <2>1. \A k \in DOMAIN projects : WithProject(p)[k].id = projects[k].id
    BY <1>3
  <2>2. \A k, l \in DOMAIN projects : projects[k].id = projects[l].id \/ projects[k].name = projects[l].name => k = l
    BY DEF RoomInv, Distinct
  <2>3. \A k \in DOMAIN projects : projects[k].id # p.id /\ projects[k].name = p.name => FALSE
    BY <2>2 DEF NamesUsed
  <2> QED
    BY <1>3, <2>1, <2>2, <2>3
<1>5. ProjectIsListed'
  <2>1. PICK k \in DOMAIN projects : projects[k] = project /\ project.id = active
    BY DEF RoomInv, ProjectIsListed
  <2>2. WithProject(p)[k] = project' /\ project'.id = active
    BY <1>3, <2>1
  <2> QED
    BY <1>1, <2>1, <2>2 DEF ProjectIsListed
<1>6. (RecoveryShape /\ BaselineIsSize /\ Bounded)'
  BY DEF RoomInv, RecoveryShape, BaselineIsSize, Bounded, RoomFits
<1> QED
  BY <1>2, <1>4, <1>5, <1>6 DEF RoomInv, RoomKept, Shrinks

\* A new project: the next id, a free name.
LEMMA AppendKeepsRoom ==
    ASSUME RoomInv, NEW p, RoomEntry(p, minted + 1), p.id = minted + 1, p.name \notin NamesUsed(None),
           ~recovery.failed, RoomFits(Append(projects, p)),
           projects' = Append(projects, p), active' = p.id, project' = p, minted' = minted + 1, recovery' = recovery
    PROVE  RoomKept
<1>1. /\ IsList(projects') /\ Entries(projects') = Entries(projects) \cup {p} /\ p \in Entries(projects')
      /\ Len(projects') = Len(projects) + 1 /\ Len(projects) \in Nat /\ DOMAIN projects = 1..Len(projects)
  BY ListAppend, ListLength DEF RoomInv, RoomList
<1>2. \A q \in Entries(projects) : RoomEntry(q, minted')
  BY DEF RoomInv, RoomList, RoomEntry
<1>3. RoomList(projects', minted')
  BY <1>1, <1>2 DEF RoomList
<1>4. DOMAIN projects' = 1..(Len(projects) + 1) /\ \A j \in 1..(Len(projects) + 1) :
          projects'[j] = IF j <= Len(projects) THEN projects[j] ELSE p
  <2> DEFINE S == Entries(projects) \cup {p}
  <2>1. projects \in Seq(S) /\ p \in S
    BY SeqMonotonic DEF RoomInv, RoomList, IsList
  <2> HIDE DEF S
  <2>2. /\ Append(projects, p)[Len(projects) + 1] = p
        /\ \A j \in 1..Len(projects) : Append(projects, p)[j] = projects[j]
    BY <2>1, AppendProperties
  <2>3. DOMAIN projects' = 1..Len(projects')
    BY <1>1, ListLength
  <2> QED
    BY <1>1, <2>2, <2>3
<1>5. \A j \in DOMAIN projects : projects[j].id # p.id /\ projects[j].name # p.name
  <2> SUFFICES ASSUME NEW j \in DOMAIN projects PROVE projects[j].id # p.id /\ projects[j].name # p.name
    OBVIOUS
  <2>1. projects[j].id \in 1..minted /\ minted \in Nat
    BY DEF RoomInv, RoomList, RoomEntry, Entries
  <2>2. projects[j].id # None /\ projects[j].id # p.id
    BY <2>1, StoreAssumption
  <2> QED
    BY <2>2 DEF NamesUsed
<1>6. Distinct(projects')
  BY <1>1, <1>4, <1>5 DEF RoomInv, Distinct
<1>7. ProjectIsListed'
  BY <1>1 DEF ProjectIsListed, Entries
<1>8. (RecoveryShape /\ BaselineIsSize /\ Bounded)'
  BY DEF RoomInv, RecoveryShape, BaselineIsSize, Bounded, RoomFits
<1> QED
  BY <1>3, <1>6, <1>7, <1>8 DEF RoomInv, RoomKept, Shrinks

(***************************************************************************)
(* Steps that make the room no larger.                                     *)
(***************************************************************************)
NoLarger(ps) ==
    /\ RoomList(ps, minted) /\ Distinct(ps)
    /\ Len(ps) <= Len(projects) /\ Bytes(ps) <= Bytes(projects) /\ Bytes(ps) \in Nat /\ Bytes(projects) \in Nat

LEMMA SameIsNoLarger == RoomInv => NoLarger(projects)
BY RoomListIsFinite DEF RoomInv, NoLarger

\* some projects are emptied
LEMMA ClearedIsNoLarger ==
    ASSUME RoomInv, NEW ps, IsList(ps), DOMAIN ps = DOMAIN projects,
           \A j \in DOMAIN projects : ps[j] = projects[j] \/ ps[j] = EmptyProject(projects[j].id, projects[j].name)
    PROVE  NoLarger(ps)
<1>1. Len(ps) \in Nat /\ Len(projects) \in Nat /\ DOMAIN ps = 1..Len(ps) /\ DOMAIN projects = 1..Len(projects) /\ Len(projects) # 0
  BY ListLength DEF RoomInv, RoomList
<1>2. Len(ps) = Len(projects)
  <2> DEFINE a == Len(ps)
             b == Len(projects)
  <2>1. a \in Nat /\ b \in Nat /\ 1..a = 1..b /\ b # 0
    BY <1>1
  <2> HIDE DEF a, b
  <2>2. b \in 1..b /\ (a # 0 => a \in 1..a)
    BY <2>1
  <2>3. b <= a /\ (a # 0 => a <= b)
    BY <2>1, <2>2
  <2>4. a = b
    BY <2>1, <2>3
  <2> QED
    BY <2>4 DEF a, b
<1>3. ASSUME NEW j \in DOMAIN projects
      PROVE  /\ RoomEntry(ps[j], minted) /\ ps[j].id = projects[j].id /\ ps[j].name = projects[j].name
             /\ Parts(ps[j]) \subseteq Parts(projects[j])
  <2>1. RoomEntry(projects[j], minted)
    BY DEF RoomInv, RoomList, Entries
  <2>2. CASE ps[j] = projects[j]
    BY <2>1, <2>2
  <2>3. CASE ps[j] = EmptyProject(projects[j].id, projects[j].name)
    <3>1. /\ DOMAIN ps[j] = Fields /\ ps[j].id = projects[j].id /\ ps[j].name = projects[j].name
          /\ ps[j].comps = {} /\ ps[j].docs = <<>>
      BY <2>3 DEF EmptyProject, Fields
    <3>2. DOMAIN ps[j].docs = {}
      BY <3>1, EmptySeq
    <3>3. Sized(ps[j])
      BY <3>1, <3>2, FS_EmptySet DEF Sized
    <3>4. Parts(ps[j]) \subseteq Parts(projects[j])
      BY <3>1, <3>2 DEF Parts
    <3> QED
      BY <2>1, <3>1, <3>3, <3>4 DEF RoomEntry
  <2> QED
    BY <2>2, <2>3
<1>4. RoomList(ps, minted) /\ Distinct(ps)
  BY <1>1, <1>2, <1>3 DEF RoomList, Distinct, RoomInv, Entries
<1>5. Bytes(ps) <= Bytes(projects) /\ Bytes(ps) \in Nat /\ Bytes(projects) \in Nat
  <2> DEFINE h == [j \in DOMAIN ps |-> j]
  <2>1. h \in [DOMAIN ps -> DOMAIN projects] /\ \A i, j \in DOMAIN ps : h[i] = h[j] => i = j
    OBVIOUS
  <2>2. \A j \in DOMAIN ps : Parts(ps[j]) \subseteq Parts(projects[h[j]])
    BY <1>3
  <2>3. IsFiniteSet(Items(projects))
    BY RoomListIsFinite DEF RoomInv
  <2> HIDE DEF h
  <2> QED
    BY <2>1, <2>2, <2>3, BytesMonotone
<1> QED
  BY <1>1, <1>2, <1>4, <1>5 DEF NoLarger

LEMMA RemovedIsNoLarger ==
    ASSUME RoomInv, NEW i \in DOMAIN projects, Len(projects) > 1
    PROVE  NoLarger(RemoveAt(projects, i))
<1> DEFINE ps == RemoveAt(projects, i)
<1>1. /\ IsList(ps) /\ Len(ps) = Len(projects) - 1 /\ Entries(ps) \subseteq Entries(projects)
      /\ \A k \in DOMAIN ps : ps[k] = projects[IF k < i THEN k ELSE k + 1]
      /\ Len(projects) \in Nat /\ DOMAIN projects = 1..Len(projects)
  BY ListRemoveAt, ListLength DEF RoomInv, RoomList
<1>2. Bytes(ps) <= Bytes(projects) /\ Bytes(ps) \in Nat /\ Bytes(projects) \in Nat
  BY RemovedBytes, RoomListIsFinite DEF RoomInv, RoomList
<1> HIDE DEF ps
<1>3. RoomList(ps, minted) /\ Len(ps) <= Len(projects)
  BY <1>1 DEF RoomInv, RoomList
<1>4. Distinct(ps)
  <2>1. DOMAIN ps = 1..(Len(projects) - 1)
    BY <1>1, ListLength
  <2> QED
    BY <1>1, <2>1 DEF RoomInv, Distinct
<1>5. NoLarger(ps)
  BY <1>2, <1>3, <1>4 DEF NoLarger
<1> QED
  BY <1>5 DEF ps

\* A broadcast that is no larger than the room keeps it, with or without a baseline.
LEMMA RemoteKeepsRoom ==
    ASSUME RoomInv, NEW ps, NoLarger(ps), NEW id, RoomFits(ps),
           projects' = ps, project' = Shown(ps, id), active' = Shown(ps, id).id, minted' = minted, recovery' = recovery
    PROVE  RoomKept
<1>1. project' \in Entries(ps)
  BY ShownIsListed DEF NoLarger, RoomList
<1>2. ProjectIsListed'
  BY <1>1 DEF ProjectIsListed, Entries
<1>3. Len(ps) \in Nat /\ Len(projects) \in Nat
  BY ListLength DEF NoLarger, RoomInv, RoomList
<1>4. (RecoveryShape /\ BaselineIsSize /\ Bounded)'
  BY <1>3 DEF RoomInv, RecoveryShape, BaselineIsSize, Bounded, RoomFits, NoLarger
<1> QED
  BY <1>2, <1>4 DEF RoomInv, RoomKept, Shrinks, NoLarger

(***************************************************************************)
(* The operators of the part that model-checks rooms, with its own limits. *)
(***************************************************************************)
LEMMA RoomsOperators ==
    /\ \A ps : Rooms!Bytes(ps) = Bytes(ps)
    /\ \A ps : Rooms!Fits(ps) <=> RoomFits(ps)
    /\ \A ps : Rooms!Persists(ps) <=> ~recovery.failed /\ RoomFits(ps)
    /\ \A p : Rooms!WithProject(p) = WithProject(p)
    /\ \A docs, why : Rooms!MarkDocsStale(docs, why) = MarkDocsStale(docs, why)
    /\ \A name, except : Rooms!UniqueName(name, except) = UniqueName(name, except)
    /\ \A ps, i : Rooms!RemoveAt(ps, i) = RemoveAt(ps, i)
    /\ \A ps, id : Rooms!Shown(ps, id) = Shown(ps, id)
    /\ \A id, name : Rooms!EmptyProject(id, name) = EmptyProject(id, name)
<1>1. \A p : Rooms!Parts(p) = Parts(p)
  BY Zenon DEF Rooms!Parts, Parts
<1>2. \A S : Rooms!Cardinality(S) = Cardinality(S)
  BY DEF Rooms!Cardinality, Cardinality
<1>3. ASSUME NEW ps PROVE Rooms!Bytes(ps) = Bytes(ps)
  <2>1. {{i} \X Rooms!Parts(ps[i]) : i \in DOMAIN ps} = {{i} \X Parts(ps[i]) : i \in DOMAIN ps}
    BY <1>1
  <2> QED
    BY <1>2, <2>1, Zenon DEF Rooms!Bytes, Bytes
<1>4. \A ps : Rooms!Fits(ps) <=> RoomFits(ps)
  BY <1>3 DEF Rooms!Fits, RoomFits
<1>5. \A ps : Rooms!Persists(ps) <=> ~recovery.failed /\ RoomFits(ps)
  BY <1>4 DEF Rooms!Persists
<1>6. \A p : Rooms!WithProject(p) = WithProject(p)
  BY DEF Rooms!WithProject, WithProject
<1>7. \A doc, why : Rooms!MarkStale(doc, why) = MarkStale(doc, why)
  BY DEF Rooms!MarkStale, MarkStale
<1>8. \A docs, why : Rooms!MarkDocsStale(docs, why) = MarkDocsStale(docs, why)
  BY <1>7 DEF Rooms!MarkDocsStale, MarkDocsStale
<1>9. \A name, except : Rooms!UniqueName(name, except) = UniqueName(name, except)
  BY DEF Rooms!UniqueName, UniqueName, Rooms!NamesUsed, NamesUsed
<1>10. \A ps, i : Rooms!RemoveAt(ps, i) = RemoveAt(ps, i)
  BY DEF Rooms!RemoveAt, RemoveAt
<1>11. \A ps, id : Rooms!Shown(ps, id) = Shown(ps, id)
  BY DEF Rooms!Shown, Shown
<1>12. \A id, name : Rooms!EmptyProject(id, name) = EmptyProject(id, name)
  BY DEF Rooms!EmptyProject, EmptyProject
<1> QED
  BY <1>3, <1>4, <1>5, <1>6, <1>8, <1>9, <1>10, <1>11, <1>12

\* persistRecoveryReduction: each reduction is the next baseline, or ends the recovery.
LEMMA ReduceKeepsRoom ==
    ASSUME RoomInv, NEW ps, NoLarger(ps), Rooms!PersistReduction(ps),
           projects' = ps, minted' = minted, ProjectIsListed'
    PROVE  RoomKept
<1>1. Len(ps) \in Nat /\ Len(projects) \in Nat /\ Bytes(ps) \in Nat
  BY ListLength DEF NoLarger, RoomInv, RoomList
<1>2. RoomList(projects', minted') /\ Distinct(projects')
  BY DEF NoLarger
<1>3. (RecoveryShape /\ BaselineIsSize /\ Bounded)' /\ Shrinks
  <2>1. CASE recovery.failed /\ recovery.baseline # None
    <3>1. recovery' = IF RoomFits(ps) THEN Rooms!Normal ELSE [recovery EXCEPT !.baseline = Rooms!Baseline(ps)]
      BY <2>1, RoomsOperators DEF Rooms!PersistReduction
    <3>2. CASE RoomFits(ps)
      <4>1. recovery' = [failed |-> FALSE, baseline |-> None]
        BY <3>1, <3>2 DEF Rooms!Normal
      <4> QED
        BY <3>2, <4>1 DEF RecoveryShape, BaselineIsSize, Bounded, Shrinks, RoomFits
    <3>3. CASE ~RoomFits(ps)
      <4>1. DOMAIN recovery' = DOMAIN recovery /\ recovery'.failed = recovery.failed
            /\ recovery'.baseline = [count |-> Len(ps), bytes |-> Bytes(ps)]
        BY <3>1, <3>3, RoomsOperators DEF Rooms!Baseline, RoomInv, RecoveryShape
      <4> QED
        BY <1>1, <2>1, <4>1 DEF RoomInv, RecoveryShape, BaselineIsSize, Bounded, Shrinks, NoLarger
    <3> QED
      BY <3>2, <3>3
  <2>2. CASE ~(recovery.failed /\ recovery.baseline # None)
    <3>1. ~recovery.failed /\ RoomFits(ps) /\ recovery' = recovery
      BY <2>2, RoomsOperators DEF Rooms!PersistReduction
    <3> QED
      BY <3>1 DEF RoomInv, RecoveryShape, BaselineIsSize, Bounded, Shrinks, RoomFits
  <2> QED
    BY <2>1, <2>2
<1> QED
  BY <1>2, <1>3 DEF RoomInv, RoomKept

\* An edit of the active project that keeps its id and its name.
LEMMA RoomCommit ==
    ASSUME RoomInv, NEW p, Rooms!Commit(p), RoomEntry(p, minted), p.id = project.id,
           p.name = project.name \/ p.name \notin NamesUsed(p.id)
    PROVE  RoomKept
<1>1. PICK m \in DOMAIN projects : projects[m] = project /\ project.id = active
  BY ActiveIsOnce
<1>2. /\ ~recovery.failed /\ RoomFits(WithProject(p)) /\ projects' = WithProject(p) /\ project' = p
      /\ active' = active /\ minted' = minted /\ recovery' = recovery
  BY RoomsOperators DEF Rooms!Commit
<1> QED
  BY <1>1, <1>2, ReplaceKeepsRoom

LEMMA RoomEdit ==
    ASSUME RoomInv, NEW p, Rooms!CommitGraph(p), DOMAIN p = Fields, p.id = project.id, p.name = project.name,
           IsFiniteSet(p.comps), IsFiniteSet(DOMAIN p.docs)
    PROVE  RoomKept
<1> DEFINE q == [p EXCEPT !.docs = MarkDocsStale(@, "project")]
<1>1. Rooms!Commit(q)
  BY RoomsOperators DEF Rooms!CommitGraph
<1>2. DOMAIN q = Fields /\ q.id = p.id /\ q.name = p.name /\ q.comps = p.comps /\ DOMAIN q.docs = DOMAIN p.docs
  BY DEF Fields, MarkDocsStale
<1> HIDE DEF q
<1>3. RoomEntry(q, minted)
  BY <1>2, ActiveIsOnce DEF RoomEntry, Sized
<1> QED
  BY <1>1, <1>2, <1>3, RoomCommit

LEMMA RoomHardwareEdits ==
    ASSUME RoomInv, NEW c, NEW w,
           \/ Rooms!AddComponent(c) \/ Rooms!RemoveComponent(c) \/ Rooms!ConnectPorts(w) \/ Rooms!DisconnectPorts(w)
           \/ Rooms!UpdateComponentProps \/ Rooms!AutoLayout
    PROVE  RoomKept
<1> DEFINE added == [project EXCEPT !.comps = @ \cup {c}]
           docs == Rooms!RestrictDomain(project.docs, LAMBDA b : b # c)
           removed == [project EXCEPT !.comps = @ \ {c}, !.wires = {v \in @ : c \notin v}, !.docs = docs]
           wired == [project EXCEPT !.wires = @ \cup {w}]
           cut == [project EXCEPT !.wires = @ \ {w}]
           set == [project EXCEPT !.props = 1 - @]
           Edit1(p) == /\ DOMAIN p = Fields /\ p.id = project.id /\ p.name = project.name
                       /\ IsFiniteSet(p.comps) /\ IsFiniteSet(DOMAIN p.docs)
<1>1. DOMAIN project = Fields /\ IsFiniteSet(project.comps) /\ IsFiniteSet(DOMAIN project.docs)
  BY ActiveIsOnce DEF RoomEntry, Sized
<1>2. IsFiniteSet(project.comps \cup {c}) /\ IsFiniteSet(project.comps \ {c})
  BY <1>1, FS_AddElement, FS_RemoveElement
<1>3. IsFiniteSet(DOMAIN docs)
  <2>1. DOMAIN docs \in SUBSET DOMAIN project.docs
    BY DEF Rooms!RestrictDomain, Rooms!Restrict
  <2> HIDE DEF docs
  <2> QED
    BY <1>1, <2>1, FS_Subset
<1>4. Edit1(added) /\ Edit1(wired) /\ Edit1(cut) /\ Edit1(set) /\ Edit1(project)
  BY <1>1, <1>2 DEF Fields
<1>5. Edit1(removed)
  <2> HIDE DEF docs
  <2> QED
    BY <1>1, <1>2, <1>3 DEF Fields
<1>6. \/ Rooms!CommitGraph(added) \/ Rooms!CommitGraph(removed) \/ Rooms!CommitGraph(wired)
      \/ Rooms!CommitGraph(cut) \/ Rooms!CommitGraph(set) \/ Rooms!CommitGraph(project)
  BY DEF Rooms!AddComponent, Rooms!RemoveComponent, Rooms!ConnectPorts, Rooms!DisconnectPorts, Rooms!UpdateComponentProps,
         Rooms!AutoLayout
<1> HIDE DEF added, removed, wired, cut, set
<1> QED
  BY <1>4, <1>5, <1>6, RoomEdit

\* the active project is emptied
LEMMA RoomClear == ASSUME RoomInv, Rooms!Clear PROVE RoomKept
<1> DEFINE p == EmptyProject(project.id, project.name)
           ps == WithProject(p)
<1>1. Rooms!PersistReduction(ps) /\ projects' = ps /\ project' = p /\ active' = active /\ minted' = minted
  BY RoomsOperators DEF Rooms!Clear
<1>2. \A j \in DOMAIN projects : projects[j].id = project.id => projects[j] = project
  BY ActiveIsOnce
<1>3. p.id = project.id
  BY DEF EmptyProject
<1>4. /\ IsList(ps) /\ DOMAIN ps = DOMAIN projects
      /\ \A j \in DOMAIN projects : ps[j] = projects[j] \/ ps[j] = EmptyProject(projects[j].id, projects[j].name)
  <2>1. IsList(ps) /\ DOMAIN ps = DOMAIN projects
    BY WithProjectSound DEF RoomInv, RoomList
  <2>2. \A j \in DOMAIN projects : ps[j] = IF projects[j].id = p.id THEN p ELSE projects[j]
    BY DEF WithProject
  <2> QED
    BY <1>2, <1>3, <2>1, <2>2
<1>5. ProjectIsListed'
  <2>1. PICK k \in DOMAIN projects : projects[k] = project /\ project.id = active
    BY ActiveIsOnce
  <2>2. ps[k] = p
    BY <1>3, <2>1 DEF WithProject
  <2> HIDE DEF p, ps
  <2> QED
    BY <1>1, <1>3, <1>4, <2>1, <2>2 DEF ProjectIsListed
<1> HIDE DEF ps
<1> QED
  BY <1>1, <1>4, <1>5, ClearedIsNoLarger, ReduceKeepsRoom

LEMMA RoomLoad ==
    ASSUME RoomInv, NEW comps \in SUBSET (Comps \ Boards), NEW name \in Names, Rooms!LoadProject(comps, name)
    PROVE  RoomKept
<1> DEFINE new == UniqueName(name, active)
           p == [EmptyProject(project.id, new) EXCEPT !.comps = comps]
<1>1. Rooms!Commit(p)
  BY RoomsOperators DEF Rooms!LoadProject
<1>2. new \in Seq(Nat) /\ new \notin NamesUsed(active)
  BY UniqueNameIsFree, StoreAssumption DEF RoomInv, RoomList
<1>3. project.id = active /\ project.id \in 1..minted
  BY ActiveIsOnce DEF RoomEntry
<1> HIDE DEF new
<1>4. DOMAIN p = Fields /\ p.id = project.id /\ p.name = new /\ p.comps = comps /\ p.docs = <<>>
  BY DEF EmptyProject, Fields
<1>5. IsFiniteSet(comps)
  BY StoreAssumption, FS_Subset
<1>6. IsFiniteSet(DOMAIN p.docs)
  <2>1. DOMAIN p.docs = {}
    BY <1>4, EmptySeq
  <2> QED
    BY <2>1, FS_EmptySet
<1> HIDE DEF p
<1> QED
  BY <1>1, <1>2, <1>3, <1>4, <1>5, <1>6, RoomCommit DEF RoomEntry, Sized

LEMMA RoomRename ==
    ASSUME RoomInv, NEW i \in DOMAIN projects, NEW name \in Names, Rooms!RenameProject(i, name)
    PROVE  RoomKept
<1> DEFINE new == UniqueName(name, projects[i].id)
           p == [projects[i] EXCEPT !.name = new]
<1>1. /\ ~recovery.failed /\ RoomFits(WithProject(p)) /\ projects' = WithProject(p)
      /\ project' = (IF active = p.id THEN p ELSE project) /\ active' = active /\ minted' = minted /\ recovery' = recovery
  BY RoomsOperators DEF Rooms!RenameProject
<1>2. new \in Seq(Nat) /\ new \notin NamesUsed(projects[i].id)
  BY UniqueNameIsFree, StoreAssumption DEF RoomInv, RoomList
<1>3. RoomEntry(projects[i], minted)
  BY DEF RoomInv, RoomList, Entries
<1> HIDE DEF new
<1>4. p.id = projects[i].id /\ p.name = new /\ p.comps = projects[i].comps /\ p.docs = projects[i].docs /\ DOMAIN p = Fields
  BY <1>3 DEF RoomEntry, Fields
<1> HIDE DEF p
<1>5. RoomEntry(p, minted)
  BY <1>2, <1>3, <1>4 DEF RoomEntry, Sized
<1> QED
  BY <1>1, <1>2, <1>4, <1>5, ReplaceKeepsRoom

\* a project of the next id and a free name, created, copied or imported
LEMMA RoomAppend ==
    ASSUME RoomInv, NEW p, Rooms!Append1(p), DOMAIN p = Fields, p.id = minted + 1, Sized(p),
           NEW base \in Seq(Nat), p.name = UniqueName(base, None)
    PROVE  RoomKept
<1>1. /\ ~recovery.failed /\ RoomFits(Append(projects, p)) /\ projects' = Append(projects, p)
      /\ active' = p.id /\ project' = p /\ minted' = minted + 1 /\ recovery' = recovery
  BY RoomsOperators DEF Rooms!Append1
<1>2. p.name \in Seq(Nat) /\ p.name \notin NamesUsed(None)
  BY UniqueNameIsFree DEF RoomInv, RoomList
<1>3. RoomEntry(p, minted + 1)
  BY <1>2 DEF RoomEntry, RoomInv
<1> QED
  BY <1>1, <1>2, <1>3, AppendKeepsRoom

LEMMA RoomCreate ==
    ASSUME RoomInv, NEW name \in Names, Rooms!CreateProject(name)
    PROVE  RoomKept
<1> DEFINE new == UniqueName(name, None)
           p == EmptyProject(minted + 1, new)
<1>1. Rooms!Append1(p)
  BY RoomsOperators DEF Rooms!CreateProject, Rooms!NewId
<1>2. DOMAIN p = Fields /\ p.id = minted + 1 /\ p.name = new /\ p.comps = {} /\ p.docs = <<>>
  BY DEF EmptyProject, Fields
<1>3. Sized(p)
  <2>1. DOMAIN p.docs = {}
    BY <1>2, EmptySeq
  <2> QED
    BY <1>2, <2>1, FS_EmptySet DEF Sized
<1> HIDE DEF p
<1> QED
  BY <1>1, <1>2, <1>3, StoreAssumption, RoomAppend

LEMMA RoomCopy ==
    ASSUME RoomInv, NEW i \in DOMAIN projects, NEW name,
           Rooms!DuplicateProject(i) \/ (name \in Names /\ Rooms!ImportProject(i, name))
    PROVE  RoomKept
<1> DEFINE docs == MarkDocsStale(MarkDocsStale(projects[i].docs, "plan"), "project")
           base == projects[i].name \o <<Rooms!Copy>>
           p == [projects[i] EXCEPT !.id = minted + 1, !.name = UniqueName(base, None), !.docs = docs]
           imported == MarkDocsStale(projects[i].docs, "project")
           q == [projects[i] EXCEPT !.id = minted + 1, !.name = UniqueName(name, None), !.docs = imported]
<1>1. RoomEntry(projects[i], minted)
  BY DEF RoomInv, RoomList, Entries
<1>2. DOMAIN docs = DOMAIN projects[i].docs /\ DOMAIN imported = DOMAIN projects[i].docs
  BY DEF MarkDocsStale
<1>3. base \in Seq(Nat)
  BY <1>1, Suffix DEF RoomEntry, Rooms!Copy
<1>4. CASE Rooms!DuplicateProject(i)
  <2>1. Rooms!Append1(p)
    BY <1>4, RoomsOperators DEF Rooms!DuplicateProject, Rooms!NewId
  <2> HIDE DEF docs, base
  <2>2. DOMAIN p = Fields /\ p.id = minted + 1 /\ p.name = UniqueName(base, None) /\ Sized(p)
    BY <1>1, <1>2 DEF RoomEntry, Fields, Sized
  <2> HIDE DEF p
  <2> QED
    BY <1>3, <2>1, <2>2, RoomAppend
<1>5. CASE name \in Names /\ Rooms!ImportProject(i, name)
  <2>1. Rooms!Append1(q)
    BY <1>5, RoomsOperators DEF Rooms!ImportProject, Rooms!NewId
  <2> HIDE DEF imported
  <2>2. DOMAIN q = Fields /\ q.id = minted + 1 /\ q.name = UniqueName(name, None) /\ Sized(q)
    BY <1>1, <1>2 DEF RoomEntry, Fields, Sized
  <2> HIDE DEF q
  <2> QED
    BY <1>5, <2>1, <2>2, StoreAssumption, RoomAppend
<1> QED
  BY <1>4, <1>5

LEMMA RoomSwitch ==
    ASSUME RoomInv, NEW i \in DOMAIN projects, Rooms!SwitchProject(i)
    PROVE  RoomKept
<1>1. projects' = projects /\ recovery' = recovery /\ minted' = minted /\ active' = projects[i].id /\ project' = projects[i]
  BY DEF Rooms!SwitchProject
<1>2. ProjectIsListed'
  BY <1>1 DEF ProjectIsListed
<1>3. Len(projects) \in Nat /\ Bytes(projects) \in Nat
  BY RoomListIsFinite DEF RoomInv
<1> QED
  BY <1>1, <1>2, <1>3 DEF RoomKept, RoomInv, Shrinks, RecoveryShape, BaselineIsSize, Bounded, RoomFits

LEMMA RoomDelete ==
    ASSUME RoomInv, NEW i \in DOMAIN projects, Rooms!DeleteProject(i)
    PROVE  RoomKept
<1> DEFINE ps == RemoveAt(projects, i)
           next == IF active = projects[i].id THEN ps[1].id ELSE active
<1>1. /\ Len(projects) > 1 /\ Rooms!PersistReduction(ps)
      /\ projects' = ps /\ active' = next /\ project' = Shown(ps, next) /\ minted' = minted
  BY RoomsOperators DEF Rooms!DeleteProject
<1>2. NoLarger(ps)
  BY <1>1, RemovedIsNoLarger
<1>3. \A j \in DOMAIN projects : j # i => projects[j] \in Entries(ps)
  BY ListRemoveAt DEF RoomInv, RoomList
<1> HIDE DEF ps
<1>4. IsList(ps) /\ Len(ps) # 0 /\ 1 \in DOMAIN ps
  BY <1>2, ListLength DEF NoLarger, RoomList
<1>5. \E p \in Entries(ps) : p.id = next
  <2>1. CASE active = projects[i].id
    BY <1>4, <2>1 DEF Entries
  <2>2. CASE active # projects[i].id
    BY <1>3, <2>2, ActiveIsOnce
  <2> QED
    BY <2>1, <2>2
<1> HIDE DEF next
<1>6. ProjectIsListed'
  BY <1>1, <1>4, <1>5, ShownIsListed DEF ProjectIsListed, Entries
<1> QED
  BY <1>1, <1>2, <1>6, ReduceKeepsRoom

LEMMA RoomRemote == ASSUME RoomInv, Rooms!RemoteUpdate PROVE RoomKept
<1>1. PICK i \in DOMAIN projects :
        \/ Rooms!ApplyRemoteState(projects, projects[i].id)
        \/ Len(projects) > 1 /\ \E j \in 1..(Len(projects) - 1) :
               Rooms!ApplyRemoteState(Rooms!RemoveAt(projects, i), Rooms!RemoveAt(projects, i)[j].id)
        \/ Rooms!ApplyRemoteState([projects EXCEPT ![i] = Rooms!EmptyProject(@.id, @.name)], projects[i].id)
  BY DEF Rooms!RemoteUpdate
<1>2. ASSUME NEW ps, NEW id, Rooms!ApplyRemoteState(ps, id), NoLarger(ps) PROVE RoomKept
  BY <1>2, RoomsOperators, RemoteKeepsRoom DEF Rooms!ApplyRemoteState
<1>3. CASE Rooms!ApplyRemoteState(projects, projects[i].id)
  BY <1>2, <1>3, SameIsNoLarger
<1>4. ASSUME Len(projects) > 1, NEW j, Rooms!ApplyRemoteState(Rooms!RemoveAt(projects, i), Rooms!RemoveAt(projects, i)[j].id)
      PROVE  RoomKept
  BY <1>2, <1>4, RoomsOperators, RemovedIsNoLarger
<1>5. CASE Rooms!ApplyRemoteState([projects EXCEPT ![i] = Rooms!EmptyProject(@.id, @.name)], projects[i].id)
  <2> DEFINE ps == [projects EXCEPT ![i] = EmptyProject(@.id, @.name)]
  <2>1. Rooms!ApplyRemoteState(ps, projects[i].id)
    BY <1>5, RoomsOperators
  <2>2. Len(projects) \in Nat /\ DOMAIN projects = 1..Len(projects)
    BY ListLength DEF RoomInv, RoomList
  <2>3. ps = [k \in 1..Len(projects) |-> ps[k]]
    BY <2>2
  <2>4. IsList(ps) /\ DOMAIN ps = DOMAIN projects
    BY <2>2, <2>3, FunctionIsList
  <2>5. \A j \in DOMAIN projects : ps[j] = projects[j] \/ ps[j] = EmptyProject(projects[j].id, projects[j].name)
    BY <2>2
  <2> HIDE DEF ps
  <2> QED
    BY <1>2, <2>1, <2>4, <2>5, ClearedIsNoLarger
<1> QED
  BY <1>1, <1>3, <1>4, <1>5

LEMMA RoomMutationSound == ASSUME RoomInv, Rooms!Mutation PROVE RoomKept
<1>1. ASSUME NEW c, Rooms!AddComponent(c) \/ Rooms!RemoveComponent(c) PROVE RoomKept
  BY <1>1, RoomHardwareEdits
<1>2. ASSUME NEW w, Rooms!ConnectPorts(w) \/ Rooms!DisconnectPorts(w) PROVE RoomKept
  BY <1>2, RoomHardwareEdits
<1>3. ASSUME Rooms!UpdateComponentProps \/ Rooms!AutoLayout PROVE RoomKept
  BY <1>3, RoomHardwareEdits
<1>4. ASSUME NEW i \in DOMAIN projects, Rooms!DuplicateProject(i) \/ Rooms!SwitchProject(i) \/ Rooms!DeleteProject(i)
      PROVE  RoomKept
  BY <1>4, RoomCopy, RoomSwitch, RoomDelete
<1>5. ASSUME NEW i \in DOMAIN projects, NEW name \in Names, Rooms!RenameProject(i, name) \/ Rooms!ImportProject(i, name)
      PROVE  RoomKept
  BY <1>5, RoomCopy, RoomRename
<1> QED
  BY <1>1, <1>2, <1>3, <1>4, <1>5, RoomClear, RoomLoad, RoomCreate, RoomRemote DEF Rooms!Mutation

(***************************************************************************)
(* What a tab of the room begins with.                                     *)
(***************************************************************************)
LEMMA FreshIsDistinct ==
    ASSUME NEW n \in Nat \ {0}
    PROVE  RoomList(Fresh(n), n) /\ Distinct(Fresh(n)) /\ Len(Fresh(n)) = n
<1> DEFINE name(i) == IF i = 1 THEN <<Untitled>> ELSE <<Untitled, i>>
           ps == Fresh(n)
<1>1. ps = [i \in 1..n |-> EmptyProject(i, name(i))]
  BY DEF Fresh
<1>2. IsList(ps) /\ DOMAIN ps = 1..n
  BY <1>1, FunctionIsList
<1>3. \A i \in 1..n : name(i) \in Seq(Nat) /\ (\A j \in 1..n : name(i) = name(j) => i = j)
  <2> SUFFICES ASSUME NEW i \in 1..n PROVE name(i) \in Seq(Nat) /\ (\A j \in 1..n : name(i) = name(j) => i = j)
    OBVIOUS
  <2>1. name(i) \in Seq(Nat)
    BY DEF Untitled
  <2>2. ASSUME NEW j \in 1..n, name(i) = name(j) PROVE i = j
    <3>1. Len(<<Untitled>>) = 1 /\ Len(<<Untitled, i>>) = 2 /\ Len(<<Untitled, j>>) = 2 /\ <<Untitled, i>>[2] = i /\ <<Untitled, j>>[2] = j
      OBVIOUS
    <3> QED
      BY <2>2, <3>1
  <2> QED
    BY <2>1, <2>2
<1>4. Len(ps) = n
  BY <1>2, LenProperties DEF IsList
<1>5. ASSUME NEW i \in 1..n PROVE RoomEntry(ps[i], n) /\ ps[i].id = i /\ ps[i].name = name(i)
  <2>1. ps[i] = EmptyProject(i, name(i))
    BY <1>1
  <2> HIDE DEF name, ps
  <2>2. DOMAIN ps[i] = Fields /\ ps[i].id = i /\ ps[i].name = name(i) /\ ps[i].comps = {} /\ ps[i].docs = <<>>
    BY <2>1 DEF EmptyProject, Fields
  <2>3. DOMAIN ps[i].docs = {}
    BY <2>2, EmptySeq
  <2> QED
    BY <1>3, <2>2, <2>3, FS_EmptySet DEF RoomEntry, Sized
<1> HIDE DEF name, ps
<1>6. RoomList(ps, n)
  BY <1>2, <1>4, <1>5 DEF RoomList, Entries
<1>7. Distinct(ps)
  BY <1>2, <1>3, <1>5 DEF Distinct
<1> QED
  BY <1>4, <1>6, <1>7 DEF ps

LEMMA FreshIsSmall == Bytes(Fresh(1)) <= 1 /\ Len(Fresh(1)) = 1
<1> DEFINE ps == Fresh(1)
           only == <<1, <<"project", None>>>>
<1>1. Len(ps) = 1 /\ DOMAIN ps = 1..1
  <2>1. 1 \in Nat \ {0}
    OBVIOUS
  <2>2. RoomList(Fresh(1), 1) /\ Len(Fresh(1)) = 1
    BY <2>1, FreshIsDistinct
  <2> QED
    BY <2>2, ListLength DEF RoomList
<1>2. Parts(ps[1]) \subseteq {<<"project", None>>}
  <2>1. ps[1].comps = {} /\ DOMAIN ps[1].docs = {}
    BY EmptySeq DEF Fresh, EmptyProject
  <2> HIDE DEF ps
  <2> QED
    BY <2>1 DEF Parts
<1> HIDE DEF ps
<1>3. Items(ps) \in SUBSET {only}
  <2> SUFFICES ASSUME NEW z \in Items(ps) PROVE z = only
    OBVIOUS
  <2>1. PICK i \in DOMAIN ps : \E t \in Parts(ps[i]) : z = <<i, t>>
    BY InItems
  <2>2. i = 1
    BY <1>1
  <2> QED
    BY <1>2, <2>1, <2>2
<1>4. IsFiniteSet({only}) /\ Cardinality({only}) = 1
  BY FS_Singleton
<1>5. Cardinality(Items(ps)) <= 1
  <2> HIDE DEF only
  <2> QED
    BY <1>3, <1>4, FS_Subset
<1>6. Bytes(ps) = Cardinality(Items(ps))
  BY Zenon DEF Items, Bytes
<1> QED
  BY <1>1, <1>5, <1>6 DEF ps

LEMMA RoomStarts == Rooms!Init => RoomInv
<1> SUFFICES ASSUME Rooms!Init PROVE RoomInv
  OBVIOUS
<1>1. \E n \in Nat \ {0} :
         /\ projects = Rooms!Fresh(n)
         /\ \/ n = 1 /\ recovery \in {Rooms!Normal, [failed |-> TRUE, baseline |-> None]}
            \/ recovery = [failed |-> TRUE, baseline |-> Rooms!Baseline(projects)]
  BY StoreAssumption DEF Rooms!Init
<1>2. PICK n \in Nat \ {0} :
         /\ projects = Rooms!Fresh(n)
         /\ \/ n = 1 /\ recovery \in {Rooms!Normal, [failed |-> TRUE, baseline |-> None]}
            \/ recovery = [failed |-> TRUE, baseline |-> Rooms!Baseline(projects)]
  BY <1>1
<1>3. projects = Fresh(n) /\ project = projects[1] /\ active = 1 /\ minted = Len(projects)
  BY <1>2, RoomsOperators DEF Rooms!Init, Rooms!Fresh, Fresh, Rooms!Untitled, Untitled
<1>4. RoomList(projects, minted) /\ Distinct(projects) /\ ProjectIsListed /\ minted \in Nat
  BY <1>3, FreshIsDistinct, FreshSound
<1>5. Len(projects) \in Nat /\ Bytes(projects) \in Nat
  BY <1>4, RoomListIsFinite
<1>6. RecoveryShape /\ BaselineIsSize /\ Bounded
  <2>1. CASE n = 1 /\ recovery = Rooms!Normal
    <3>1. Bytes(projects) <= 1 /\ Len(projects) = 1
      BY <1>3, <2>1, FreshIsSmall
    <3>2. RoomFits(projects)
      BY <1>5, <3>1, StoreAssumption, RoomAssumption DEF RoomFits
    <3> QED
      BY <2>1, <3>2 DEF RecoveryShape, BaselineIsSize, Bounded, Rooms!Normal
  <2>2. CASE recovery = [failed |-> TRUE, baseline |-> None]
    BY <2>2 DEF RecoveryShape, BaselineIsSize, Bounded
  <2>3. CASE recovery = [failed |-> TRUE, baseline |-> Rooms!Baseline(projects)]
    BY <1>5, <2>3, RoomsOperators DEF RecoveryShape, BaselineIsSize, Bounded, Rooms!Baseline
  <2> QED
    BY <1>2, <2>1, <2>2, <2>3
<1> QED
  BY <1>4, <1>6 DEF RoomInv

\* In every reachable state a room's projects are a list with distinct ids and names,
\* the active one is among them, and the room is within its limits or its baseline.
THEOREM RoomsSound == MCSpec => [](part = "rooms" => RoomInv)
<1> DEFINE I == part = "rooms" => RoomInv
<1>1. MCInit => I
  BY RoomStarts DEF MCInit
<1>2. I /\ [MCNext]_mcVars => I'
  <2>1. CASE MCNext
    BY <2>1, RoomMutationSound DEF MCNext, Rooms!Next, RoomKept
  <2>2. CASE UNCHANGED mcVars
    BY <2>2 DEF mcVars, vars, store, RoomInv, ProjectIsListed, RecoveryShape, BaselineIsSize, Bounded
  <2> QED
    BY <2>1, <2>2
<1> QED
  BY <1>1, <1>2, PTL DEF MCSpec

\* A room over its limits only shrinks, whatever the user does and the other tabs
\* broadcast, and leaves recovery only when it fits (persistRecoveryReduction).
THEOREM RecoveryOnlyShrinksRooms == MCSpec => RecoveryShrinks
<1>1. (part = "rooms" => RoomInv) /\ [MCNext]_mcVars => [part = "rooms" => Rooms!RecoveryStep]_<<part, vars>>
  <2> SUFFICES ASSUME part = "rooms" => RoomInv, MCNext, part = "rooms" PROVE Rooms!RecoveryStep
    BY DEF mcVars
  <2>1. RoomKept
    BY RoomMutationSound DEF MCNext, Rooms!Next
  <2>2. \A ps : Rooms!Bytes(ps) = Bytes(ps)
    BY RoomsOperators
  <2>3. Rooms!Fits(projects') <=> RoomFits(projects')
    BY RoomsOperators
  <2> QED
    BY <2>1, <2>2, <2>3 DEF RoomKept, Shrinks, Rooms!RecoveryStep
<1> QED
  BY <1>1, RoomsSound, PTL DEF MCSpec, RecoveryShrinks

(***************************************************************************)
(* The types of the store in the part that model-checks links: revisions   *)
(* grow no faster than the edits, ids are those minted.                    *)
(***************************************************************************)
Reasons == {"code", "plan", "project"}
TypedDocs(docs) == DOMAIN docs \subseteq Boards /\ \A b \in DOMAIN docs : docs[b] \in Links!Doc
TypedPlans(plans, e) ==
    DOMAIN plans \subseteq {planA} /\ \A q \in DOMAIN plans : plans[q].rev \in 1..e /\ plans[q] \in Links!Plan
Typed(p, n, e) ==
    /\ p.id \in 1..n /\ p.comps \subseteq Comps /\ p.props \in 0..1 /\ p.wires \subseteq Links!Wires
    /\ TypedPlans(p.plans, e) /\ TypedDocs(p.docs)

RecoveryTyped ==
    /\ DOMAIN recovery = {"failed", "baseline"} /\ recovery.failed \in BOOLEAN
    /\ recovery.baseline = None \/ recovery.baseline \in [count : Nat, bytes : Nat]

LinksTyped ==
    /\ edits \in 0..LinkEdits /\ minted \in 1..MaxIds
    /\ \A p \in Entries(projects) : Typed(p, minted, edits)
    /\ RecoveryTyped

LEMMA TypedIsSized == ASSUME NEW p, NEW n, NEW e, Typed(p, n, e) PROVE Sized(p)
<1>1. p.comps \in SUBSET Comps /\ DOMAIN p.docs \in SUBSET Comps /\ IsFiniteSet(Comps)
  BY StoreAssumption DEF Typed, TypedDocs
<1> QED
  BY <1>1, FS_Subset DEF Sized

LEMMA MarkedIsTyped ==
    ASSUME NEW doc \in Links!Doc, NEW why \in Reasons
    PROVE  MarkStale(doc, why) \in Links!Doc
<1>1. /\ DOMAIN doc = {"rev", "body", "link"} /\ doc.rev \in Nat /\ doc.body \in {x, y}
      /\ doc.link \in Links!LinkRec \cup {Links!Unlinked} /\ doc = [rev |-> doc.rev, body |-> doc.body, link |-> doc.link]
  BY DEF Links!Doc
<1>2. CASE doc.link.status = "unlinked"
  BY <1>2 DEF MarkStale
<1>3. CASE doc.link.status # "unlinked"
  <2>1. doc.link \in Links!LinkRec
    BY <1>1, <1>3 DEF Links!Unlinked
  <2> DEFINE link == [doc.link EXCEPT !.status = "stale", !.changed = @ \cup {why}]
  <2>2. link \in Links!LinkRec
    BY <2>1 DEF Links!LinkRec, Reasons
  <2>3. MarkStale(doc, why) = [doc EXCEPT !.link = link]
    BY <1>1, <1>3, <2>1 DEF MarkStale, Links!LinkRec
  <2> HIDE DEF link
  <2> QED
    BY <1>1, <2>2, <2>3 DEF Links!Doc
<1> QED
  BY <1>2, <1>3

LEMMA MarkedDocsAreTyped ==
    ASSUME NEW docs, TypedDocs(docs), NEW why \in Reasons
    PROVE  TypedDocs(MarkDocsStale(docs, why)) /\ DOMAIN MarkDocsStale(docs, why) = DOMAIN docs
BY MarkedIsTyped DEF TypedDocs, MarkDocsStale

LEMMA EmptyIsTyped ==
    ASSUME NEW id, NEW name, NEW n, NEW e, id \in 1..n
    PROVE  Typed(EmptyProject(id, name), n, e)
<1>1. DOMAIN <<>> = {}
  BY EmptySeq
<1> QED
  BY <1>1 DEF EmptyProject, Typed, TypedPlans, TypedDocs

LEMMA TypedGrows ==
    ASSUME NEW p, NEW n \in Nat, NEW m \in Nat, NEW e \in Nat, NEW f \in Nat, Typed(p, n, e), n <= m, e <= f
    PROVE  Typed(p, m, f)
BY DEF Typed, TypedPlans

\* A step that makes typed projects only.
LEMMA TypedStep ==
    ASSUME LinksTyped, edits < LinkEdits, edits' = edits + 1, minted' = minted \/ minted' = minted + 1, minted' <= MaxIds,
           RecoveryTyped', \A p \in Entries(projects') : p \in Entries(projects) \/ Typed(p, minted', edits')
    PROVE  LinksTyped'
<1>1. edits' \in 0..LinkEdits /\ minted' \in 1..MaxIds
  BY StoreAssumption, RoomAssumption DEF LinksTyped
<1>2. \A p \in Entries(projects) : Typed(p, minted', edits')
  BY <1>1, TypedGrows, StoreAssumption, RoomAssumption DEF LinksTyped
<1> QED
  BY <1>1, <1>2 DEF LinksTyped

CommitTyped(p) ==
    /\ projects' = WithProject(p) /\ minted' = minted /\ RecoveryTyped' /\ Typed(p, minted', edits')

LEMMA CommitIsTyped ==
    ASSUME LinksTyped, StoreShape, edits < LinkEdits, edits' = edits + 1, NEW p, CommitTyped(p)
    PROVE  LinksTyped'
<1>1. \A q \in Entries(projects') : q \in Entries(projects) \/ q = p
  BY WithProjectSound DEF CommitTyped, StoreShape
<1>2. minted <= MaxIds
  BY StoreAssumption DEF LinksTyped
<1> QED
  BY <1>1, <1>2, TypedStep DEF CommitTyped

\* the active project as an edit finds it
LEMMA ActiveIsTyped ==
    ASSUME LinksTyped, StoreShape, ProjectIsListed, edits' = edits + 1
    PROVE  /\ Typed(project, minted, edits) /\ Typed(project, minted, edits') /\ project \in Entries(projects)
           /\ Shaped(project) /\ project.id = active
<1>1. project \in Entries(projects) /\ project.id = active
  BY DEF ProjectIsListed, Entries
<1>2. Typed(project, minted, edits) /\ edits \in Nat /\ minted \in Nat
  BY <1>1, StoreAssumption, RoomAssumption DEF LinksTyped
<1>3. Typed(project, minted, edits')
  BY <1>2, TypedGrows
<1> QED
  BY <1>1, <1>2, <1>3 DEF StoreShape

LEMMA CommitOfTyped ==
    ASSUME LinksTyped, StoreShape, edits < LinkEdits, edits' = edits + 1, NEW p, Links!Commit(p), Typed(p, minted, edits')
    PROVE  LinksTyped'
<1>1. projects' = WithProject(p) /\ minted' = minted /\ recovery' = recovery
  BY LinksOperators DEF Commit
<1> QED
  BY <1>1, CommitIsTyped DEF CommitTyped, LinksTyped, RecoveryTyped

\* a graph edit of the active project
LEMMA EditIsTyped ==
    ASSUME LinksTyped, StoreShape, edits < LinkEdits, edits' = edits + 1, NEW p, Links!CommitGraph(p),
           DOMAIN p = Fields, Typed(p, minted, edits')
    PROVE  LinksTyped'
<1> DEFINE q == [p EXCEPT !.docs = MarkDocsStale(@, "project")]
<1>1. Links!Commit(q)
  BY LinksOperators DEF CommitGraph
<1>2. TypedDocs(MarkDocsStale(p.docs, "project"))
  BY MarkedDocsAreTyped DEF Typed, Reasons
<1>3. Typed(q, minted, edits')
  BY <1>2 DEF Typed, Fields
<1> HIDE DEF q
<1> QED
  BY <1>1, <1>3, CommitOfTyped

LEMMA LinksComponentTyped ==
    ASSUME LinksTyped, StoreShape, ProjectIsListed, edits < LinkEdits, edits' = edits + 1, NEW c \in Comps,
           Links!AddComponent(c) \/ Links!RemoveComponent(c)
    PROVE  LinksTyped'
<1> DEFINE added == [project EXCEPT !.comps = @ \cup {c}]
           docs == Links!RestrictDomain(project.docs, LAMBDA b : b # c)
           removed == [project EXCEPT !.comps = @ \ {c}, !.wires = {v \in @ : c \notin v}, !.docs = docs]
           Good(p) == DOMAIN p = Fields /\ Typed(p, minted, edits')
<1>1. Good(project)
  BY ActiveIsTyped DEF Shaped
<1>2. TypedDocs(docs)
  BY <1>1 DEF Typed, TypedDocs, Links!RestrictDomain, Links!Restrict
<1>3. Good(added)
  BY <1>1 DEF Typed, Fields
<1>4. Good(removed)
  <2> HIDE DEF docs
  <2> QED
    BY <1>1, <1>2 DEF Typed, Fields
<1>5. Links!CommitGraph(added) \/ Links!CommitGraph(removed)
  BY DEF Links!AddComponent, Links!RemoveComponent
<1> HIDE DEF added, removed
<1> QED
  BY <1>3, <1>4, <1>5, EditIsTyped

LEMMA LinksWiresTyped ==
    ASSUME LinksTyped, StoreShape, ProjectIsListed, edits < LinkEdits, edits' = edits + 1, NEW w \in Links!Wires,
           Links!ConnectPorts(w) \/ Links!DisconnectPorts(w)
    PROVE  LinksTyped'
<1> DEFINE wired == [project EXCEPT !.wires = @ \cup {w}]
           cut == [project EXCEPT !.wires = @ \ {w}]
           Good(p) == DOMAIN p = Fields /\ Typed(p, minted, edits')
<1>1. Good(project)
  BY ActiveIsTyped DEF Shaped
<1>2. Good(wired) /\ Good(cut)
  BY <1>1 DEF Typed, Fields
<1>3. Links!CommitGraph(wired) \/ Links!CommitGraph(cut)
  BY DEF Links!ConnectPorts, Links!DisconnectPorts
<1> HIDE DEF wired, cut
<1> QED
  BY <1>2, <1>3, EditIsTyped

LEMMA LinksPropsTyped ==
    ASSUME LinksTyped, StoreShape, ProjectIsListed, edits < LinkEdits, edits' = edits + 1,
           Links!UpdateComponentProps \/ Links!AutoLayout
    PROVE  LinksTyped'
<1> DEFINE set == [project EXCEPT !.props = 1 - @]
<1>1. DOMAIN project = Fields /\ Typed(project, minted, edits')
  BY ActiveIsTyped DEF Shaped
<1>2. DOMAIN set = Fields /\ Typed(set, minted, edits')
  BY <1>1 DEF Typed, Fields
<1>3. Links!CommitGraph(set) \/ Links!CommitGraph(project)
  BY DEF Links!UpdateComponentProps, Links!AutoLayout
<1> HIDE DEF set
<1> QED
  BY <1>1, <1>2, <1>3, EditIsTyped

LEMMA LinksLoadTyped ==
    ASSUME LinksTyped, StoreShape, ProjectIsListed, edits < LinkEdits, edits' = edits + 1,
           NEW comps \in SUBSET Comps, NEW name, Links!LoadProject(comps, name)
    PROVE  LinksTyped'
<1> DEFINE e == EmptyProject(project.id, UniqueName(name, active))
           p == [e EXCEPT !.comps = comps]
<1>1. Links!Commit(p)
  BY LinksOperators DEF Links!LoadProject
<1>2. Typed(e, minted, edits')
  BY ActiveIsTyped, EmptyIsTyped DEF Typed
<1>3. DOMAIN e = Fields
  BY EmptyIsSound DEF Shaped
<1> HIDE DEF e
<1>4. Typed(p, minted, edits')
  BY <1>2, <1>3 DEF Typed, Fields
<1> HIDE DEF p
<1> QED
  BY <1>1, <1>4, CommitOfTyped

LEMMA LinksRenameTyped ==
    ASSUME LinksTyped, StoreShape, edits < LinkEdits, edits' = edits + 1, NEW i \in DOMAIN projects, NEW name,
           Links!RenameProject(i, name)
    PROVE  LinksTyped'
<1> DEFINE p == [projects[i] EXCEPT !.name = UniqueName(name, projects[i].id)]
<1>1. projects' = WithProject(p) /\ minted' = minted /\ recovery' = recovery
  BY LinksOperators DEF Links!RenameProject
<1>2. Typed(projects[i], minted, edits) /\ DOMAIN projects[i] = Fields
  BY DEF LinksTyped, StoreShape, Shaped, Entries
<1>3. Typed(projects[i], minted, edits')
  BY <1>2, TypedGrows, StoreAssumption, RoomAssumption DEF LinksTyped
<1>4. Typed(p, minted, edits')
  BY <1>2, <1>3 DEF Typed, Fields
<1> HIDE DEF p
<1> QED
  BY <1>1, <1>4, CommitIsTyped DEF CommitTyped, LinksTyped, RecoveryTyped

LEMMA LinksWritePlanTyped ==
    ASSUME LinksTyped, StoreShape, ProjectIsListed, edits < LinkEdits, edits' = edits + 1,
           NEW q \in {planA}, NEW body \in {x, y}, NEW expected, Links!WriteBehaviorPlan(q, body, expected)
    PROVE  LinksTyped'
<1> DEFINE plan == [rev |-> IF expected = None THEN 1 ELSE expected + 1, body |-> body]
           plans == [x0 \in DOMAIN project.plans \cup {q} |-> IF x0 = q THEN plan ELSE project.plans[x0]]
           docs == [b \in DOMAIN project.docs |-> Links!StaleIfLinked(project.docs[b], q)]
           p == [project EXCEPT !.plans = plans, !.docs = docs]
<1>1. Links!Commit(p) /\ expected = Links!Revision(q)
  BY DEF Links!WriteBehaviorPlan
<1>2. DOMAIN project = Fields /\ Typed(project, minted, edits) /\ edits \in 0..LinkEdits
  BY ActiveIsTyped DEF Shaped, LinksTyped
<1>3. plan.rev \in 1..edits'
  <2>1. CASE q \in DOMAIN project.plans
    <3>1. expected \in 1..edits
      BY <1>1, <1>2, <2>1 DEF Links!Revision, Typed, TypedPlans
    <3>2. expected # None
      BY <1>2, <3>1, StoreAssumption, RoomAssumption
    <3> QED
      BY <1>2, <3>1, <3>2, RoomAssumption
  <2>2. CASE q \notin DOMAIN project.plans
    <3>1. expected = None
      BY <1>1, <2>2 DEF Links!Revision
    <3> QED
      BY <1>2, <3>1, RoomAssumption
  <2> QED
    BY <2>1, <2>2
<1>4. plan \in Links!Plan /\ plan.rev \in 1..edits'
  BY <1>2, <1>3, RoomAssumption DEF Links!Plan
<1>5. \A k \in DOMAIN project.plans : k \in {planA} /\ project.plans[k] \in Links!Plan /\ project.plans[k].rev \in 1..edits'
  BY <1>2, RoomAssumption DEF Typed, TypedPlans
<1> HIDE DEF plan
<1>6. TypedPlans(plans, edits')
  BY <1>4, <1>5 DEF TypedPlans
<1>7. TypedDocs(docs)
  <2>1. \A b \in DOMAIN project.docs : project.docs[b] \in Links!Doc /\ b \in Boards
    BY <1>2 DEF Typed, TypedDocs
  <2>2. \A b \in DOMAIN project.docs : MarkStale(project.docs[b], "plan") \in Links!Doc
    BY <2>1, MarkedIsTyped DEF Reasons
  <2>3. \A b \in DOMAIN project.docs : docs[b] = project.docs[b] \/ docs[b] = MarkStale(project.docs[b], "plan")
    BY LinksOperators DEF StaleIfLinked
  <2> QED
    BY <2>1, <2>2, <2>3 DEF TypedDocs
<1> HIDE DEF plans, docs
<1>8. Typed(p, minted, edits')
  BY <1>2, <1>6, <1>7 DEF Typed, Fields
<1> HIDE DEF p
<1> QED
  BY <1>1, <1>8, CommitOfTyped

LEMMA LinksSizes == \A ps : Links!Bytes(ps) = Bytes(ps)
<1>1. \A p : Links!Parts(p) = Parts(p)
  BY Zenon DEF Links!Parts, Parts
<1>2. \A S : Links!Cardinality(S) = Cardinality(S)
  BY DEF Links!Cardinality, Cardinality
<1>3. ASSUME NEW ps PROVE Links!Bytes(ps) = Bytes(ps)
  <2>1. {{i} \X Links!Parts(ps[i]) : i \in DOMAIN ps} = {{i} \X Parts(ps[i]) : i \in DOMAIN ps}
    BY <1>1
  <2> QED
    BY <1>2, <2>1, Zenon DEF Links!Bytes, Bytes
<1> QED
  BY <1>3

LEMMA LinksMarking == \A docs, why : Links!MarkDocsStale(docs, why) = MarkDocsStale(docs, why)
BY LinksOperators DEF Links!MarkDocsStale, MarkDocsStale

LEMMA LinksWriteCodeTyped ==
    ASSUME LinksTyped, StoreShape, ProjectIsListed, edits < LinkEdits, edits' = edits + 1,
           NEW b \in Boards, NEW body \in {x, y}, NEW link, Links!WriteCodeDocument(b, body, link)
    PROVE  LinksTyped'
<1> DEFINE current == project.docs[b]
           known == b \in DOMAIN project.docs
           previewLink ==
               IF link # None THEN Links!Link(project, link, body)
               ELSE IF ~known \/ current.link.status = "unlinked" THEN Links!Unlinked
               ELSE IF current.link.content = body THEN current.link
               ELSE Links!MarkStale(current, "code").link
           doc == [rev |-> IF known THEN current.rev + 1 ELSE 1, body |-> body, link |-> previewLink]
           docs == [x0 \in DOMAIN project.docs \cup {b} |-> IF x0 = b THEN doc ELSE project.docs[x0]]
           p == [project EXCEPT !.docs = docs]
<1>1. Links!Commit(p) /\ link \in DOMAIN project.plans \cup {None}
  BY DEF Links!WriteCodeDocument
<1>2. DOMAIN project = Fields /\ Typed(project, minted, edits')
  BY ActiveIsTyped DEF Shaped
<1>3. known => current \in Links!Doc /\ current.rev \in Nat /\ current.link \in Links!LinkRec \cup {Links!Unlinked}
  BY <1>2 DEF Typed, TypedDocs, Links!Doc
<1>4. link # None => Links!Link(project, link, body) \in Links!LinkRec
  <2> SUFFICES ASSUME link # None PROVE Links!Link(project, link, body) \in Links!LinkRec
    OBVIOUS
  <2>1. link \in DOMAIN project.plans /\ link \in {planA} /\ project.plans[link] \in Links!Plan
    BY <1>1, <1>2 DEF Typed, TypedPlans
  <2>2. project.id \in Links!Ids
    <3>1. minted \in 1..MaxIds /\ project.id \in 1..minted /\ MaxIds \in Nat
      BY <1>2, StoreAssumption DEF Typed, LinksTyped
    <3> QED
      BY <3>1 DEF Links!Ids
  <2>3. Links!PlanHash(project, link) \in Links!Ids \X {planA} \X Links!Plan
    BY <2>1, <2>2 DEF Links!PlanHash
  <2>4. Links!Fingerprint(project) \in Links!Hash
    BY <1>2, <2>2 DEF Links!Fingerprint, Links!Hash, Typed
  <2> QED
    BY <2>1, <2>3, <2>4 DEF Links!Link, Links!LinkRec
<1>5. known => Links!MarkStale(current, "code").link \in Links!LinkRec \cup {Links!Unlinked}
  <2>1. known => MarkStale(current, "code") \in Links!Doc
    BY <1>3, MarkedIsTyped DEF Reasons
  <2> QED
    BY <2>1, LinksOperators DEF Links!Doc
<1>6. previewLink \in Links!LinkRec \cup {Links!Unlinked}
  <2> HIDE DEF known, current
  <2> QED
    BY <1>3, <1>4, <1>5
<1>7. (IF known THEN current.rev + 1 ELSE 1) \in Nat
  BY <1>3
<1> HIDE DEF previewLink, known
<1>8. doc \in Links!Doc
  BY <1>6, <1>7 DEF Links!Doc
<1> HIDE DEF doc
<1>9. TypedDocs(docs)
  BY <1>2, <1>8 DEF Typed, TypedDocs
<1> HIDE DEF docs
<1>10. Typed(p, minted, edits')
  BY <1>2, <1>9 DEF Typed, Fields
<1> HIDE DEF p
<1> QED
  BY <1>1, <1>10, CommitOfTyped

\* clear and deleteProject
LEMMA ReduceIsTyped ==
    ASSUME LinksTyped, edits < LinkEdits, edits' = edits + 1, NEW ps, Links!PersistReduction(ps),
           IsList(ps), \A p \in Entries(ps) : Typed(p, minted, edits'), projects' = ps, minted' = minted
    PROVE  LinksTyped'
<1>1. Len(ps) \in Nat /\ Bytes(ps) \in Nat
  BY ItemsFinite, ListLength, TypedIsSized
<1>2. recovery' = recovery \/ recovery' = Normal \/ recovery' = [recovery EXCEPT !.baseline = Baseline(ps)]
  BY LinksOperators DEF PersistReduction
<1>3. RecoveryTyped'
  <2>1. CASE recovery' = recovery
    BY <2>1 DEF RecoveryTyped, LinksTyped
  <2>2. CASE recovery' = Normal
    BY <2>2 DEF RecoveryTyped, Normal
  <2>3. CASE recovery' = [recovery EXCEPT !.baseline = Baseline(ps)]
    <3>1. Baseline(ps) \in [count : Nat, bytes : Nat]
      BY <1>1 DEF Baseline
    <3>2. DOMAIN recovery' = DOMAIN recovery /\ recovery'.failed = recovery.failed /\ recovery'.baseline = Baseline(ps)
      BY <2>3 DEF LinksTyped, RecoveryTyped
    <3> QED
      BY <3>1, <3>2 DEF LinksTyped, RecoveryTyped
  <2> QED
    BY <1>2, <2>1, <2>2, <2>3
<1>4. minted <= MaxIds
  BY StoreAssumption DEF LinksTyped
<1> QED
  BY <1>3, <1>4, TypedStep

LEMMA EntriesAreTyped ==
    ASSUME LinksTyped, edits' = edits + 1
    PROVE  \A p \in Entries(projects) : Typed(p, minted, edits')
<1>1. minted \in Nat /\ edits \in Nat /\ edits' \in Nat /\ edits <= edits' /\ minted <= minted
  BY StoreAssumption, RoomAssumption DEF LinksTyped
<1> QED
  BY <1>1, TypedGrows DEF LinksTyped

LEMMA LinksReduceTyped ==
    ASSUME LinksTyped, StoreShape, ProjectIsListed, edits < LinkEdits, edits' = edits + 1, NEW i \in DOMAIN projects,
           Links!Clear \/ Links!DeleteProject(i)
    PROVE  LinksTyped'
<1>1. CASE Links!Clear
  <2> DEFINE p == EmptyProject(project.id, project.name)
             ps == WithProject(p)
  <2>1. Links!PersistReduction(ps) /\ projects' = ps /\ minted' = minted
    BY <1>1, LinksOperators DEF Links!Clear
  <2>2. Typed(p, minted, edits')
    BY ActiveIsTyped, EmptyIsTyped DEF Typed
  <2> HIDE DEF p
  <2>3. IsList(ps) /\ \A q \in Entries(ps) : Typed(q, minted, edits')
    BY <2>2, WithProjectSound, EntriesAreTyped DEF StoreShape
  <2> HIDE DEF ps
  <2> QED
    BY <2>1, <2>3, ReduceIsTyped
<1>2. CASE Links!DeleteProject(i)
  <2> DEFINE ps == RemoveAt(projects, i)
  <2>1. Links!PersistReduction(ps) /\ projects' = ps /\ minted' = minted
    BY <1>2, LinksOperators DEF Links!DeleteProject
  <2>2. IsList(ps) /\ \A q \in Entries(ps) : Typed(q, minted, edits')
    BY ListRemoveAt, EntriesAreTyped DEF StoreShape
  <2> HIDE DEF ps
  <2> QED
    BY <2>1, <2>2, ReduceIsTyped
<1> QED
  BY <1>1, <1>2

LEMMA AppendIsTyped ==
    ASSUME LinksTyped, StoreShape, edits < LinkEdits, edits' = edits + 1, NEW p, Links!Append1(p), minted < MaxIds,
           Typed(p, minted + 1, edits')
    PROVE  LinksTyped'
<1>1. projects' = Append(projects, p) /\ minted' = minted + 1 /\ recovery' = recovery
  BY LinksOperators DEF Append1
<1>2. Entries(projects') = Entries(projects) \cup {p}
  BY <1>1, ListAppend DEF StoreShape
<1>3. minted' <= MaxIds /\ RecoveryTyped'
  BY <1>1, StoreAssumption DEF LinksTyped, RecoveryTyped
<1> QED
  BY <1>1, <1>2, <1>3, TypedStep

LEMMA LinksAppendTyped ==
    ASSUME LinksTyped, StoreShape, ProjectIsListed, edits < LinkEdits, edits' = edits + 1, NEW i \in DOMAIN projects, NEW name,
           Links!CreateProject(name) \/ Links!DuplicateProject(i) \/ Links!ImportProject(i, name)
    PROVE  LinksTyped'
<1> DEFINE new == Links!UniqueName(name, None)
           copied == Links!UniqueName(projects[i].name \o <<Links!Copy>>, None)
           created == Links!EmptyProject(minted + 1, new)
           stale == Links!MarkDocsStale(Links!MarkDocsStale(projects[i].docs, "plan"), "project")
           old == Links!MarkDocsStale(projects[i].docs, "project")
           copy == [projects[i] EXCEPT !.id = minted + 1, !.name = copied, !.docs = stale]
           imported == [projects[i] EXCEPT !.id = minted + 1, !.name = new, !.docs = old]
<1>1. /\ minted < MaxIds
      /\ Links!Append1(created) \/ Links!Append1(copy) \/ Links!Append1(imported)
  BY DEF Links!CreateProject, Links!DuplicateProject, Links!ImportProject, Links!NewId
<1>2. Typed(projects[i], minted, edits') /\ DOMAIN projects[i] = Fields
  BY EntriesAreTyped DEF StoreShape, Shaped, Entries
<1>3. minted + 1 \in 1..(minted + 1) /\ minted \in Nat /\ minted + 1 \in Nat
  BY StoreAssumption DEF LinksTyped
<1>4. TypedDocs(stale) /\ TypedDocs(old)
  <2>1. TypedDocs(projects[i].docs)
    BY <1>2 DEF Typed
  <2>2. TypedDocs(MarkDocsStale(projects[i].docs, "project")) /\ TypedDocs(MarkDocsStale(projects[i].docs, "plan"))
    BY <2>1, MarkedDocsAreTyped DEF Reasons
  <2>3. TypedDocs(MarkDocsStale(MarkDocsStale(projects[i].docs, "plan"), "project"))
    BY <2>2, MarkedDocsAreTyped DEF Reasons
  <2> QED
    BY <2>2, <2>3, LinksMarking
<1> HIDE DEF new, copied, stale, old
<1>5. Typed(copy, minted + 1, edits') /\ Typed(imported, minted + 1, edits')
  BY <1>2, <1>3, <1>4 DEF Typed, Fields
<1>6. Typed(created, minted + 1, edits')
  BY <1>3, EmptyIsTyped, LinksOperators
<1> HIDE DEF created, copy, imported
<1> QED
  BY <1>1, <1>5, <1>6, AppendIsTyped

LEMMA LinksSameTyped ==
    ASSUME LinksTyped, StoreShape, ProjectIsListed, edits < LinkEdits, edits' = edits + 1, NEW i \in DOMAIN projects,
           Links!SwitchProject(i) \/ Links!RemoteUpdate
    PROVE  LinksTyped'
<1>1. minted <= MaxIds
  BY StoreAssumption DEF LinksTyped
<1>2. ASSUME NEW ps, NEW id, ApplyRemoteState(ps, id), \A p \in Entries(ps) : Typed(p, minted, edits') PROVE LinksTyped'
  <2>1. projects' = ps /\ recovery' = recovery /\ minted' = minted
    BY <1>2 DEF ApplyRemoteState
  <2>2. RecoveryTyped'
    BY <2>1 DEF LinksTyped, RecoveryTyped
  <2> QED
    BY <1>1, <1>2, <2>1, <2>2, TypedStep
<1>3. CASE Links!SwitchProject(i)
  <2>1. projects' = projects /\ recovery' = recovery /\ minted' = minted
    BY <1>3 DEF Links!SwitchProject
  <2>2. RecoveryTyped'
    BY <2>1 DEF LinksTyped, RecoveryTyped
  <2> QED
    BY <1>1, <2>1, <2>2, TypedStep
<1>4. CASE Links!RemoteUpdate
  <2>1. PICK k \in DOMAIN projects :
          \/ ApplyRemoteState(projects, projects[k].id)
          \/ \E j \in 1..(Len(projects) - 1) : ApplyRemoteState(RemoveAt(projects, k), RemoveAt(projects, k)[j].id)
          \/ ApplyRemoteState([projects EXCEPT ![k] = EmptyProject(@.id, @.name)], projects[k].id)
    BY <1>4, LinksOperators DEF Links!RemoteUpdate
  <2> DEFINE ps == [projects EXCEPT ![k] = EmptyProject(@.id, @.name)]
             e == EmptyProject(projects[k].id, projects[k].name)
  <2>2. \A p \in Entries(RemoveAt(projects, k)) : Typed(p, minted, edits')
    BY ListRemoveAt, EntriesAreTyped DEF StoreShape
  <2>3. Typed(e, minted, edits')
    BY EntriesAreTyped, EmptyIsTyped DEF Entries, Typed
  <2>4. \A p \in Entries(ps) : p \in Entries(projects) \/ p = e
    BY DEF Entries
  <2> HIDE DEF e
  <2>5. \A p \in Entries(ps) : Typed(p, minted, edits')
    BY <2>3, <2>4, EntriesAreTyped
  <2> HIDE DEF ps
  <2> QED
    BY <1>2, <2>1, <2>2, <2>5, EntriesAreTyped DEF ps
<1> QED
  BY <1>3, <1>4

LEMMA LinksMutationTyped ==
    ASSUME LinksTyped, StoreShape, ProjectIsListed, edits < LinkEdits, edits' = edits + 1, Links!Mutation
    PROVE  LinksTyped'
<1>1. \E i \in DOMAIN projects : TRUE
  BY DEF ProjectIsListed
<1>2. ASSUME NEW c \in Comps, Links!AddComponent(c) \/ Links!RemoveComponent(c) PROVE LinksTyped'
  BY <1>2, LinksComponentTyped
<1>3. ASSUME NEW w \in Links!Wires, Links!ConnectPorts(w) \/ Links!DisconnectPorts(w) PROVE LinksTyped'
  BY <1>3, LinksWiresTyped
<1>4. ASSUME Links!Clear PROVE LinksTyped'
  BY <1>1, <1>4, LinksReduceTyped
<1>5. ASSUME NEW name, Links!CreateProject(name) PROVE LinksTyped'
  BY <1>1, <1>5, LinksAppendTyped
<1>6. ASSUME Links!RemoteUpdate PROVE LinksTyped'
  BY <1>1, <1>6, LinksSameTyped
<1>7. ASSUME NEW i \in DOMAIN projects, Links!DuplicateProject(i) \/ Links!SwitchProject(i) \/ Links!DeleteProject(i)
      PROVE  LinksTyped'
  BY <1>7, LinksReduceTyped, LinksAppendTyped, LinksSameTyped
<1>8. ASSUME NEW i \in DOMAIN projects, NEW name, Links!RenameProject(i, name) \/ Links!ImportProject(i, name) PROVE LinksTyped'
  BY <1>8, LinksRenameTyped, LinksAppendTyped
<1>9. ASSUME NEW comps \in SUBSET Comps, NEW name, Links!LoadProject(comps, name) PROVE LinksTyped'
  BY <1>9, LinksLoadTyped
<1>10. ASSUME NEW q \in {planA}, NEW body \in {x, y}, NEW expected, Links!WriteBehaviorPlan(q, body, expected) PROVE LinksTyped'
  BY <1>10, LinksWritePlanTyped
<1>11. ASSUME NEW b \in Boards, NEW body \in {x, y}, NEW link, Links!WriteCodeDocument(b, body, link) PROVE LinksTyped'
  BY <1>11, LinksWriteCodeTyped
<1>12. ASSUME Links!UpdateComponentProps \/ Links!AutoLayout PROVE LinksTyped'
  BY <1>12, LinksPropsTyped
<1> QED
  BY <1>2, <1>3, <1>4, <1>5, <1>6, <1>7, <1>8, <1>9, <1>10, <1>11, <1>12 DEF Links!Mutation

LEMMA LinksInitTyped == Links!Init => LinksTyped
<1> SUFFICES ASSUME Links!Init PROVE LinksTyped
  OBVIOUS
<1>1. \E n \in Nat \ {0} :
         /\ projects = Links!Fresh(n) /\ n <= MaxIds
         /\ recovery \in {Links!Normal, [failed |-> TRUE, baseline |-> None], [failed |-> TRUE, baseline |-> Links!Baseline(projects)]}
  BY StoreAssumption DEF Links!Init
<1>2. PICK n \in Nat \ {0} :
         /\ projects = Links!Fresh(n) /\ n <= MaxIds
         /\ recovery \in {Links!Normal, [failed |-> TRUE, baseline |-> None], [failed |-> TRUE, baseline |-> Links!Baseline(projects)]}
  BY <1>1
<1>3. projects = Fresh(n) /\ minted = Len(projects) /\ edits = 0
  BY <1>2, LinksOperators DEF Links!Init, Links!Fresh, Fresh, Links!Untitled, Untitled
<1>4. minted = n /\ IsList(projects)
  BY <1>3, FreshIsDistinct DEF RoomList
<1>5. \A p \in Entries(projects) : Typed(p, minted, edits)
  <2> SUFFICES ASSUME NEW i \in DOMAIN projects PROVE Typed(projects[i], minted, edits)
    BY DEF Entries
  <2>1. i \in 1..n /\ \E name : projects[i] = EmptyProject(i, name)
    BY <1>3 DEF Fresh
  <2> QED
    BY <1>4, <2>1, EmptyIsTyped
<1>6. Len(projects) \in Nat /\ Bytes(projects) \in Nat
  BY <1>4, <1>5, ItemsFinite, ListLength, TypedIsSized
<1>7. RecoveryTyped
  <2>1. Links!Bytes(projects) \in Nat
    BY <1>6, LinksSizes
  <2>2. Links!Baseline(projects) \in [count : Nat, bytes : Nat]
    BY <1>6, <2>1 DEF Links!Baseline
  <2>3. CASE recovery = Links!Normal
    BY <2>3 DEF RecoveryTyped, Links!Normal
  <2>4. CASE recovery = [failed |-> TRUE, baseline |-> None]
    BY <2>4 DEF RecoveryTyped
  <2>5. CASE recovery = [failed |-> TRUE, baseline |-> Links!Baseline(projects)]
    <3> DEFINE b == Links!Baseline(projects)
    <3>1. b \in [count : Nat, bytes : Nat] /\ recovery = [failed |-> TRUE, baseline |-> b]
      BY <2>2, <2>5
    <3> HIDE DEF b
    <3> QED
      BY <3>1 DEF RecoveryTyped
  <2> QED
    BY <1>2, <2>3, <2>4, <2>5
<1> QED
  BY <1>2, <1>3, <1>4, <1>5, <1>7, StoreAssumption, RoomAssumption DEF LinksTyped

\* The store under its edit commands keeps its types: every project carries an
\* identifier the room has minted and a revision no later than the last edit, its
\* plans and code documents name things and bodies that exist, and the recovery
\* mode records a size or nothing.
THEOREM LinksTypeCorrect == MCSpec => [](part = "links" => LinksTyped)
<1> DEFINE I == part = "links" => LinksTyped
           J == part = "links" => StoreShape /\ StoreTruth /\ ProjectIsListed
<1>1. MCInit => I
  BY LinksInitTyped DEF MCInit
<1>2. I /\ J /\ [MCNext]_mcVars => I'
  <2>1. CASE MCNext
    BY <2>1, LinksMutationTyped DEF MCNext, Links!Next
  <2>2. CASE UNCHANGED mcVars
    BY <2>2 DEF mcVars, vars, store, LinksTyped, RecoveryTyped
  <2> QED
    BY <2>1, <2>2
<1> QED
  BY <1>1, <1>2, LinksSound, PTL DEF MCSpec

\* The store keeps its types; the active project and its entry of the list never
\* differ; a room's ids and names are distinct and it is within its limits or its
\* baseline; the history of the design tools is within its own.
THEOREM RoomStaysConsistent == MCSpec => []RoomIsConsistent
<1> DEFINE I == /\ part = "links" => LinksTyped /\ StoreShape /\ ProjectIsListed
                /\ part = "rooms" => RoomInv
                /\ part = "design" => DesignInv
<1>1. I => RoomIsConsistent
  <2> SUFFICES ASSUME I PROVE RoomIsConsistent
    OBVIOUS
  <2>1. part = "links" => Links!TypeOK
    <3> SUFFICES ASSUME LinksTyped, StoreShape, ProjectIsListed PROVE Links!TypeOK
      OBVIOUS
    <3>1. Len(projects) >= 1
      BY ListLength DEF StoreShape, ProjectIsListed
    <3>2. ASSUME NEW i \in DOMAIN projects PROVE Links!ProjectType(projects[i]) /\ projects[i].id \in Links!Ids
      <4>1. Typed(projects[i], minted, edits) /\ minted \in 1..MaxIds /\ MaxIds \in Nat
        BY StoreAssumption DEF LinksTyped, Entries
      <4> QED
        BY <4>1 DEF Links!ProjectType, Links!Ids, Typed, TypedPlans, TypedDocs
    <3>3. active \in Links!Ids
      BY <3>2 DEF ProjectIsListed
    <3> QED
      BY <3>1, <3>2, <3>3 DEF Links!TypeOK, LinksTyped, RecoveryTyped, Links!Ids
  <2>2. part \in {"links", "rooms"} => Links!ProjectIsListed
    BY DEF RoomInv, Links!ProjectIsListed, ProjectIsListed
  <2>3. part = "rooms" => Rooms!ProjectsDistinct /\ Rooms!RoomBounded
    BY RoomsOperators DEF RoomInv, Distinct, Bounded, Rooms!ProjectsDistinct, Rooms!RoomBounded
  <2>4. part = "design" => HistoryBounded
    BY DEF DesignInv
  <2> QED
    BY <2>1, <2>2, <2>3, <2>4 DEF RoomIsConsistent
<1>2. (part = "links" => LinksTyped) /\ (part = "links" => StoreShape /\ StoreTruth /\ ProjectIsListed)
          /\ (part = "rooms" => RoomInv) /\ (part = "design" => DesignInv) => I
  OBVIOUS
<1> QED
  BY <1>1, <1>2, LinksTypeCorrect, LinksSound, RoomsSound, DesignSound, PTL
=============================================================================
