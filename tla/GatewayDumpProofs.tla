------------------------- MODULE GatewayDumpProofs -------------------------
(* What a successful dump of a gateway holds, for any gateway, size of page, *)
(* number of failing requests and of changes that are made meanwhile.        *)
EXTENDS GatewayDump, FiniteSetTheorems, TLAPS

-----------------------------------------------------------------------------
(* Least and greatest numbers of a finite set.                               *)

LEMMA HasGreatest ==
  ASSUME NEW T \in SUBSET Nat, IsFiniteSet(T), T # {}
  PROVE  \E m \in T : \A t \in T : t <= m
<1> DEFINE Up(a) == {x \in T : a <= x}
           U == {Up(a) : a \in T}
<1>1. U \subseteq FiniteSubsetsOf(T) /\ U # {}
  <2>1. FiniteSubsetsOf(T) = SUBSET T
    BY FS_FiniteSubsetsOfFinite
  <2>2. \A a \in T : Up(a) \in SUBSET T
    OBVIOUS
  <2>3. PICK t \in T : TRUE
    OBVIOUS
  <2>4. Up(t) \in U
    BY <2>3
  <2> HIDE DEF Up
  <2> QED BY <2>1, <2>2, <2>4
<1>2. IsWellFoundedOn(StrictSubsetOrdering(T), FiniteSubsetsOf(T))
  BY FS_StrictSubsetOrderingWellFounded
<1>3. \E A \in U : \A B \in U : ~(<<B, A>> \in StrictSubsetOrdering(T))
  <2> HIDE DEF U
  <2> QED BY <1>1, <1>2, WFMin
<1>4. PICK m \in T : \A B \in U : ~(<<B, Up(m)>> \in StrictSubsetOrdering(T))
  BY <1>3
<1>5. ASSUME NEW t \in T, ~(t <= m) PROVE FALSE
  <2>0. t \in Nat /\ m \in Nat /\ m < t
    BY <1>5
  <2>1. Up(t) \subseteq Up(m) /\ m \in Up(m) /\ m \notin Up(t)
    <3>1. \A x \in T : t <= x => m <= x
      BY <2>0
    <3>2. Up(t) \subseteq Up(m)
      BY <3>1
    <3>3. m <= m /\ ~(t <= m)
      BY <2>0
    <3>4. m \in Up(m)
      BY <3>3
    <3>5. m \notin Up(t)
      BY <3>3
    <3> QED BY <3>2, <3>4, <3>5
  <2>2. <<Up(t), Up(m)>> \in StrictSubsetOrdering(T)
    <3>1. Up(t) \in SUBSET T /\ Up(m) \in SUBSET T /\ Up(t) # Up(m)
      BY <2>1
    <3> HIDE DEF Up
    <3> QED BY <2>1, <3>1 DEF StrictSubsetOrdering
  <2> QED
    BY <1>4, <1>5, <2>2
<1> QED
  BY <1>5

LEMMA HasLeast ==
  ASSUME NEW T \in SUBSET Nat, IsFiniteSet(T), T # {}
  PROVE  \E m \in T : \A t \in T : m <= t
<1> DEFINE Down(a) == {x \in T : x <= a}
           U == {Down(a) : a \in T}
<1>1. U \subseteq FiniteSubsetsOf(T) /\ U # {}
  <2>1. FiniteSubsetsOf(T) = SUBSET T
    BY FS_FiniteSubsetsOfFinite
  <2>2. \A a \in T : Down(a) \in SUBSET T
    OBVIOUS
  <2>3. PICK t \in T : TRUE
    OBVIOUS
  <2>4. Down(t) \in U
    BY <2>3
  <2> HIDE DEF Down
  <2> QED BY <2>1, <2>2, <2>4
<1>2. IsWellFoundedOn(StrictSubsetOrdering(T), FiniteSubsetsOf(T))
  BY FS_StrictSubsetOrderingWellFounded
<1>3. \E A \in U : \A B \in U : ~(<<B, A>> \in StrictSubsetOrdering(T))
  <2> HIDE DEF U
  <2> QED BY <1>1, <1>2, WFMin
<1>4. PICK m \in T : \A B \in U : ~(<<B, Down(m)>> \in StrictSubsetOrdering(T))
  BY <1>3
<1>5. ASSUME NEW t \in T, ~(m <= t) PROVE FALSE
  <2>0. t \in Nat /\ m \in Nat /\ t < m
    BY <1>5
  <2>1. Down(t) \subseteq Down(m) /\ m \in Down(m) /\ m \notin Down(t)
    <3>1. \A x \in T : x <= t => x <= m
      BY <2>0
    <3>2. Down(t) \subseteq Down(m)
      BY <3>1
    <3>3. m <= m /\ ~(m <= t)
      BY <2>0
    <3>4. m \in Down(m)
      BY <3>3
    <3>5. m \notin Down(t)
      BY <3>3
    <3> QED BY <3>2, <3>4, <3>5
  <2>2. <<Down(t), Down(m)>> \in StrictSubsetOrdering(T)
    <3>1. Down(t) \in SUBSET T /\ Down(m) \in SUBSET T /\ Down(t) # Down(m)
      BY <2>1
    <3> HIDE DEF Down
    <3> QED BY <2>1, <3>1 DEF StrictSubsetOrdering
  <2> QED
    BY <1>4, <1>5, <2>2
<1> QED
  BY <1>5

-----------------------------------------------------------------------------
(* Pages.                                                                    *)

\* A finite set of entities; and one where no two have the same id.
Counted(S) == IsFiniteSet(S) /\ \A e \in S : e.id \in Nat
Numbered(S) == Counted(S) /\ \A e, f \in S : e.id = f.id => e = f

LEMMA IdsAreFinite ==
  ASSUME NEW S, Counted(S)
  PROVE  /\ {e.id : e \in S} \in SUBSET Nat /\ IsFiniteSet({e.id : e \in S})
         /\ S # {} => {e.id : e \in S} # {}
<1> DEFINE f == [e \in S |-> e.id]
<1>1. f \in Surjection(S, {e.id : e \in S})
  BY DEF Surjection
<1>2. IsFiniteSet({e.id : e \in S})
  BY <1>1, FS_Surjection DEF Numbered, Counted
<1>3. \A e \in S : e.id \in {g.id : g \in S}
  OBVIOUS
<1> QED
  BY <1>2, <1>3 DEF Numbered, Counted

LEMMA SubsetIsNumbered ==
  ASSUME NEW S, Numbered(S), NEW T \in SUBSET S PROVE Numbered(T)
BY FS_Subset DEF Numbered, Counted

LEMMA LastIsGreatest ==
  ASSUME NEW S, Counted(S), S # {}
  PROVE  LastId(S) \in {e.id : e \in S} /\ \A e \in S : e.id <= LastId(S)
<1>1. PICK m \in {e.id : e \in S} : \A t \in {e.id : e \in S} : t <= m
  BY IdsAreFinite, HasGreatest
<1>2. \E id \in {e.id : e \in S} : \A e \in S : e.id <= id
  BY <1>1
<1> QED
  BY <1>2 DEF LastId

\* A page holds all that come before one of its entities.
LEMMA PageIsPrefix ==
  ASSUME NEW S, Numbered(S), NEW e \in S, NEW p \in FirstPage(S), e.id <= p.id
  PROVE  e \in FirstPage(S)
<1> DEFINE Before(x) == {f \in S : f.id <= x.id}
<1>1. p \in S /\ Cardinality(Before(p)) <= PageSize
  BY DEF FirstPage
<1>2. Before(e) \subseteq Before(p)
  BY <1>1 DEF Numbered, Counted
<1>3. IsFiniteSet(Before(p)) /\ IsFiniteSet(Before(e))
  BY FS_Subset DEF Numbered, Counted
<1>4. Cardinality(Before(e)) <= Cardinality(Before(p))
  <2> HIDE DEF Before
  <2> QED BY <1>2, <1>3, FS_Subset
<1>5. Cardinality(Before(e)) \in Nat /\ Cardinality(Before(p)) \in Nat
  <2> HIDE DEF Before
  <2> QED BY <1>3, FS_CardinalityType
<1>6. Cardinality(Before(e)) <= PageSize
  BY <1>1, <1>4, <1>5, DumpAssumption
<1> QED
  BY <1>6 DEF FirstPage

LEMMA PageIsNotEmpty ==
  ASSUME NEW S, Numbered(S), S # {} PROVE FirstPage(S) # {}
<1>1. PICK m \in {e.id : e \in S} : \A t \in {e.id : e \in S} : m <= t
  BY IdsAreFinite, HasLeast DEF Numbered
<1>2. PICK e \in S : e.id = m
  BY <1>1
<1>3. {f \in S : f.id <= e.id} = {e}
  BY <1>1, <1>2 DEF Numbered, Counted
<1>4. Cardinality({f \in S : f.id <= e.id}) = 1
  BY <1>3, FS_Singleton
<1> QED
  BY <1>4, DumpAssumption DEF FirstPage

\* What comes after the last of a page is what is not on it.
LEMMA PageEnds ==
  ASSUME NEW S, Numbered(S), S # {}
  PROVE  /\ LastId(FirstPage(S)) \in Nat
         /\ \A e \in S : e.id <= LastId(FirstPage(S)) => e \in FirstPage(S)
<1>1. FirstPage(S) \subseteq S /\ FirstPage(S) # {}
  BY PageIsNotEmpty DEF FirstPage
<1>2. Numbered(FirstPage(S))
  BY <1>1, SubsetIsNumbered
<1>3. PICK p \in FirstPage(S) : LastId(FirstPage(S)) = p.id
  BY <1>1, <1>2, LastIsGreatest DEF Numbered
<1> QED
  BY <1>1, <1>3, PageIsPrefix DEF Numbered, Counted

LEMMA SmallIsOnePage ==
  ASSUME NEW S, IsFiniteSet(S), Cardinality(S) <= PageSize PROVE FirstPage(S) = S
<1> SUFFICES ASSUME NEW e \in S PROVE Cardinality({f \in S : f.id <= e.id}) <= PageSize
  BY DEF FirstPage
<1> DEFINE B == {f \in S : f.id <= e.id}
<1>1. B \subseteq S
  OBVIOUS
<1> HIDE DEF B
<1>2. Cardinality(B) <= Cardinality(S) /\ IsFiniteSet(B)
  BY <1>1, FS_Subset
<1>3. Cardinality(B) \in Nat /\ Cardinality(S) \in Nat
  BY <1>2, FS_CardinalityType
<1> QED
  BY <1>2, <1>3, DumpAssumption DEF B

-----------------------------------------------------------------------------
(* The gateway.                                                              *)

LEMMA ListedKinds ==
  {"upstream", "target", "rbac-endpoint-permission", "consumer-group"} \subseteq Listed
<1>1. /\ {GetAllUpstreams, GetAllTargets, GetAllRBACREndpointPermissions, GetAllConsumerGroups}
             \subseteq listings
      /\ GetAllUpstreams.kind = "upstream" /\ GetAllTargets.kind = "target"
      /\ GetAllRBACREndpointPermissions.kind = "rbac-endpoint-permission"
      /\ GetAllConsumerGroups.kind = "consumer-group"
  BY DEF listings, GetAllUpstreams, GetAllTargets, GetAllRBACREndpointPermissions,
         GetAllConsumerGroups, listing
<1> HIDE DEF listings
<1> QED
  BY <1>1 DEF Listed

RefersTo(e, p) == \E r \in e.refs : r.id = p.id

WorldInv ==
  /\ kong \in Gateways /\ lasting \subseteq kong /\ kong \subseteq ever
  /\ Counted(ever) /\ WellFormed(lasting)

LEMMA KongIsNumbered ==
  ASSUME WorldInv, NEW S \in SUBSET kong PROVE Numbered(S) /\ \A e \in S : e.id # 0
<1>1. WellFormed(kong)
  BY DumpAssumption DEF WorldInv
<1>2. Numbered(kong) /\ \A e \in kong : e.id # 0
  BY <1>1 DEF WellFormed, Numbered, Counted
<1> QED
  BY <1>2, SubsetIsNumbered

\* What lasts keeps what it refers to.
Persist ==
  /\ lasting' \subseteq lasting /\ ever \subseteq ever' /\ selected' = selected
  /\ \A e \in lasting' : \A p \in lasting : RefersTo(e, p) => p \in lasting'

LEMMA ChangePersists == WorldInv /\ Change => Persist /\ WorldInv'
<1> SUFFICES ASSUME WorldInv, Change PROVE Persist /\ WorldInv'
  OBVIOUS
<1>1. PICK S \in Gateways :
        /\ Cardinality(S \ kong) + Cardinality(kong \ S) = 1
        /\ kong' = S
  BY DEF Change
<1>2. lasting' = lasting \cap S /\ ever' = ever \cup S /\ selected' = selected
  BY <1>1 DEF Change
<1>3. WellFormed(kong) /\ WellFormed(S)
  BY DumpAssumption DEF WorldInv
<1>4. S \ kong = {} \/ kong \ S = {}
  <2>1. IsFiniteSet(S \ kong) /\ IsFiniteSet(kong \ S)
    BY <1>3, FS_Difference DEF WellFormed
  <2>2. Cardinality(S \ kong) \in Nat /\ Cardinality(kong \ S) \in Nat
    BY <2>1, FS_CardinalityType
  <2>3. Cardinality(S \ kong) = 0 \/ Cardinality(kong \ S) = 0
    BY <1>1, <2>2
  <2> QED
    BY <2>1, <2>3, FS_EmptySet
<1>5. ASSUME NEW e \in lasting \cap S, NEW p \in lasting, RefersTo(e, p) PROVE p \in S
  <2>1. PICK r \in e.refs : r.id = p.id
    BY <1>5 DEF RefersTo
  <2>2. PICK q \in S : q.id = p.id
    BY <1>3, <2>1 DEF WellFormed
  <2>3. q \in kong => q = p
    BY <1>3, <2>2 DEF WellFormed, WorldInv
  <2> QED
    BY <1>4, <2>2, <2>3 DEF WorldInv
<1>6. Persist
  BY <1>2, <1>5 DEF Persist
<1>7. WellFormed(lasting')
  <2>1. IsFiniteSet(lasting') /\ \A e, f \in lasting' : e.id = f.id => e = f
    BY <1>2, FS_Subset DEF WorldInv, WellFormed
  <2>2. ASSUME NEW e \in lasting', NEW r \in e.refs
        PROVE  \E p \in lasting' : p.kind = r.kind /\ p.id = r.id
    <3>1. PICK p \in lasting : p.kind = r.kind /\ p.id = r.id
      BY <1>2, <2>2 DEF WorldInv, WellFormed
    <3> QED
      BY <1>2, <1>5, <3>1 DEF RefersTo
  <2>3. \A e \in lasting' :
          e.id \in Nat \ {0} /\ (e.kind \in Owned => \E r \in e.refs : r.kind = OwnerKind(e.kind))
    BY <1>2 DEF WorldInv, WellFormed
  <2> QED
    BY <2>1, <2>2, <2>3 DEF WellFormed
<1>8. Counted(ever')
  BY <1>2, <1>3, FS_Union DEF WorldInv, WellFormed, Counted
<1> QED
  BY <1>1, <1>2, <1>6, <1>7, <1>8 DEF WorldInv

LEMMA WorldStays == WorldInv /\ UNCHANGED <<world, selected>> => Persist /\ WorldInv'
BY DEF WorldInv, Persist, WellFormed, Counted, world

-----------------------------------------------------------------------------
(* The steps of a listing leave the other listings alone.                    *)

Same(k) == pc'[k] = pc[k] /\ offset'[k] = offset[k] /\ todo'[k] = todo[k] /\ listed'[k] = listed[k]

At(k) == ListPage(k) \/ ListOfParent(k) \/ ParentsListed(k) \/ ListingFails(k)
AtGroups == ListGroups \/ GetGroup \/ GroupsGot
Quiet == DumpFails \/ DumpSucceeds \/ UNCHANGED dumpVars

LEMMA StepSplit ==
  [DumpNext]_dumpVars =>
    \/ Change \/ AtGroups \/ StartTargets \/ StartPermissions \/ (\E k \in Listed : At(k)) \/ Quiet
BY DEF DumpNext, At, AtGroups, Quiet

LEMMA OthersSame ==
  ASSUME DumpTypeOK
  PROVE  /\ Change \/ Quiet => \A j \in Listed : Same(j)
         /\ AtGroups => \A j \in Listed \ {"consumer-group"} : Same(j)
         /\ StartTargets => \A j \in Listed \ {"target"} : Same(j)
         /\ StartPermissions => \A j \in Listed \ {"rbac-endpoint-permission"} : Same(j)
         /\ \A k \in Listed : At(k) => \A j \in Listed \ {k} : Same(j)
<1>1. Change \/ Quiet => \A j \in Listed : Same(j)
  BY DEF Change, Quiet, DumpFails, DumpSucceeds, dumpVars, Same
<1>2. AtGroups => \A j \in Listed \ {"consumer-group"} : Same(j)
  BY DEF DumpTypeOK, AtGroups, ListGroups, GetGroup, GroupsGot, Same
<1>3. StartTargets => \A j \in Listed \ {"target"} : Same(j)
  BY DEF DumpTypeOK, StartTargets, Same
<1>4. StartPermissions => \A j \in Listed \ {"rbac-endpoint-permission"} : Same(j)
  BY DEF DumpTypeOK, StartPermissions, Same
<1>5. ASSUME NEW k \in Listed, At(k), NEW j \in Listed \ {k} PROVE Same(j)
  <2>1. CASE ListPage(k)
    BY <2>1 DEF DumpTypeOK, ListPage, TakePage, Same
  <2>2. CASE ListOfParent(k)
    BY <2>2 DEF DumpTypeOK, ListOfParent, TakePage, Same
  <2>3. CASE ParentsListed(k)
    BY <2>3 DEF DumpTypeOK, ParentsListed, Same
  <2>4. CASE ListingFails(k)
    BY <2>4 DEF DumpTypeOK, ListingFails, Same
  <2> QED
    BY <1>5, <2>1, <2>2, <2>3, <2>4 DEF At
<1> QED
  BY <1>1, <1>2, <1>3, <1>4, <1>5

LEMMA WorldSteps == WorldInv /\ [DumpNext]_dumpVars => Persist /\ WorldInv'
<1> SUFFICES ASSUME WorldInv, [DumpNext]_dumpVars PROVE Persist /\ WorldInv'
  OBVIOUS
<1>1. CASE Change
  BY <1>1, ChangePersists
<1>2. CASE ~Change
  <2>1. UNCHANGED <<world, selected>>
    BY <1>2, StepSplit DEF AtGroups, At, Quiet, ListGroups, GetGroup, GroupsGot, StartTargets,
       StartPermissions, ListPage, ListOfParent, ParentsListed, ListingFails, DumpFails, DumpSucceeds,
       dumpVars
  <2> QED
    BY <2>1, WorldStays
<1> QED
  BY <1>1, <1>2

\* A listing that fails ends.
LEMMA FailureEnds ==
  ASSUME DumpTypeOK, NEW k \in Listed, ListingFails(k)
  PROVE  /\ pc'[k] \in {"error", "cut"} /\ offset'[k] = offset[k]
         /\ listed'[k] = {} \/ listed'[k] = listed[k]
BY DEF DumpTypeOK, ListingFails

-----------------------------------------------------------------------------
(* Kinds with a list of their own.                                           *)

Paged == Listed \ {"target", "rbac-endpoint-permission", "consumer-group"}

\* What lasts and is selected has been listed up to the offset.
PagedAt(k) ==
  /\ pc[k] \in {"page"} \cup Ended
  /\ \A e \in lasting :
       /\ e.kind = k /\ Selects(k, e)
       /\ pc[k] = "ok" \/ (pc[k] = "page" /\ e.id <= offset[k])
       => e \in listed[k]

PagedInv == \A k \in Paged : PagedAt(k)

LEMMA PagedKept == ASSUME NEW k \in Paged, PagedAt(k), Persist, Same(k) PROVE PagedAt(k)'
BY DEF PagedAt, Persist, Same, Selects

LEMMA ListPageKeeps ==
  ASSUME DumpTypeOK, WorldInv, NEW k \in Paged, PagedAt(k), ListPage(k) PROVE PagedAt(k)'
<1> DEFINE S == {e \in After(OfKind(k, kong), offset[k]) : Selects(k, e)}
           page == FirstPage(S)
<1>0. k \in Listed /\ S \in SUBSET kong /\ offset[k] \in Nat
  BY DEF DumpTypeOK, Paged, After, OfKind
<1>1. Numbered(S)
  BY <1>0, KongIsNumbered
<1>2. /\ listed'[k] = listed[k] \cup page
      /\ offset'[k] = IF page = S THEN offset[k] ELSE LastId(page)
      /\ pc'[k] = IF page # S THEN "page" ELSE "ok"
      /\ lasting' = lasting /\ selected' = selected /\ pc[k] = "page"
  BY <1>0 DEF ListPage, TakePage, MoreAfter, DumpTypeOK, world
<1>3. ASSUME NEW e \in lasting, e.kind = k, Selects(k, e), page = S \/ e.id <= LastId(page)
      PROVE  e \in listed[k] \cup page
  <2>1. CASE e.id <= offset[k]
    BY <1>2, <1>3, <2>1 DEF PagedAt
  <2>2. CASE ~(e.id <= offset[k])
    <3>1. e \in kong /\ e.id \in Nat
      BY DEF WorldInv, WellFormed
    <3>2. e \in S
      BY <1>0, <1>3, <2>2, <3>1 DEF After, OfKind
    <3>3. page = S \/ e \in page
      <4> HIDE DEF S
      <4> QED BY <1>1, <1>3, <3>2, PageEnds
    <3> QED
      BY <3>2, <3>3
  <2> QED
    BY <2>1, <2>2
<1> HIDE DEF S, page
<1> QED
  BY <1>2, <1>3 DEF PagedAt, Ended, Selects

LEMMA PagedStep == DumpTypeOK /\ WorldInv /\ PagedInv /\ [DumpNext]_dumpVars => PagedInv'
<1> SUFFICES ASSUME DumpTypeOK, WorldInv, PagedInv, [DumpNext]_dumpVars, NEW k \in Paged
             PROVE  PagedAt(k)'
  BY DEF PagedInv
<1>0. PagedAt(k) /\ k \in Listed /\ Persist /\ pc[k] \notin {"each", "roles"}
  BY WorldSteps DEF PagedInv, Paged, PagedAt, Ended
<1>1. CASE Same(k)
  BY <1>0, <1>1, PagedKept
<1>2. CASE ListPage(k)
  BY <1>0, <1>2, ListPageKeeps
<1>3. CASE ListingFails(k)
  BY <1>0, <1>3, FailureEnds DEF PagedAt, Ended
<1>4. ~ListOfParent(k) /\ ~ParentsListed(k)
  BY <1>0 DEF ListOfParent, ParentsListed
<1>5. CASE ~Same(k)
  <2>1. At(k)
    BY <1>0, <1>5, OthersSame, StepSplit DEF Paged
  <2> QED
    BY <1>2, <1>3, <1>4, <2>1 DEF At
<1> QED
  BY <1>1, <1>5

-----------------------------------------------------------------------------
(* Groups and their members.                                                 *)

\* What lasts and is selected has been read up to the offset, or is to be read.
GroupAt(k) ==
  /\ pc[k] \in {"page", "group"} \cup Ended
  /\ \A e \in lasting : e.kind = k /\ Selects(k, e) =>
       /\ pc[k] = "ok" \/ (pc[k] = "page" /\ e.id <= offset[k]) => e \in listed[k]
       /\ pc[k] = "group" /\ (offset[k] = 0 \/ e.id <= offset[k]) => e \in listed[k] \cup todo[k]

GroupInv == GroupAt("consumer-group")

\* With a group its members are dumped.
MemberInv ==
  \A m, g \in lasting :
    /\ m.kind \in Members /\ Wanted(lasting, m)
    /\ g.kind = "consumer-group" /\ RefersTo(m, g) /\ g \in listed["consumer-group"]
    => m \in listed["consumer-group"]

LEMMA GroupKept == GroupInv /\ Persist /\ Same("consumer-group") => GroupInv'
BY DEF GroupInv, GroupAt, Persist, Same, Selects

LEMMA ListGroupsKeeps ==
  ASSUME DumpTypeOK, WorldInv, GroupInv, ListGroups PROVE GroupInv'
<1> DEFINE k == "consumer-group"
           S == {e \in After(OfKind(k, kong), offset[k]) : Selects(k, e)}
           page == FirstPage(S)
<1>0. k \in Listed /\ S \in SUBSET kong /\ offset[k] \in Nat
  BY ListedKinds DEF DumpTypeOK, After, OfKind
<1>1. Numbered(S) /\ \A e \in S : e.id # 0
  BY <1>0, KongIsNumbered
<1>2. /\ listed' = listed /\ todo'[k] = page
      /\ offset'[k] = IF page # S THEN LastId(page) ELSE 0
      /\ pc'[k] = "group" /\ lasting' = lasting /\ selected' = selected /\ pc[k] = "page"
  BY <1>0 DEF ListGroups, MoreAfter, DumpTypeOK, world
<1>3. page # S => LastId(page) # 0
  <2> SUFFICES ASSUME page # S PROVE LastId(page) # 0
    OBVIOUS
  <2>1. page \subseteq S /\ S # {}
    BY DEF FirstPage
  <2>2. page # {} /\ Counted(page)
    <3> HIDE DEF S
    <3> QED BY <1>1, <2>1, PageIsNotEmpty, SubsetIsNumbered DEF Numbered
  <2>3. LastId(page) \in {e.id : e \in page}
    <3> HIDE DEF page
    <3> QED BY <2>2, LastIsGreatest
  <2> HIDE DEF page, S
  <2> QED
    BY <1>1, <2>1, <2>3
<1>4. ASSUME NEW e \in lasting, e.kind = k, Selects(k, e), page = S \/ e.id <= LastId(page)
      PROVE  e \in listed[k] \cup page
  <2>1. CASE e.id <= offset[k]
    BY <1>2, <1>4, <2>1 DEF GroupInv, GroupAt
  <2>2. CASE ~(e.id <= offset[k])
    <3>1. e \in kong /\ e.id \in Nat
      BY DEF WorldInv, WellFormed
    <3>2. e \in S
      BY <1>0, <1>4, <2>2, <3>1 DEF After, OfKind
    <3>3. page = S \/ e \in page
      <4> HIDE DEF S
      <4> QED BY <1>1, <1>4, <3>2, PageEnds
    <3> QED
      BY <3>2, <3>3
  <2> QED
    BY <2>1, <2>2
<1> HIDE DEF S, page
<1> QED
  BY <1>2, <1>3, <1>4 DEF GroupInv, GroupAt, Ended, Selects

LEMMA GroupStep == DumpTypeOK /\ WorldInv /\ GroupInv /\ [DumpNext]_dumpVars => GroupInv'
<1> SUFFICES ASSUME DumpTypeOK, WorldInv, GroupInv, [DumpNext]_dumpVars PROVE GroupInv'
  OBVIOUS
<1> DEFINE k == "consumer-group"
<1>0. Persist /\ k \in Listed /\ pc[k] \notin {"each", "roles"}
  BY WorldSteps, ListedKinds DEF GroupInv, GroupAt, Ended
<1>1. CASE Same(k)
  BY <1>0, <1>1, GroupKept
<1>2. CASE ListGroups
  BY <1>2, ListGroupsKeeps
<1>3. CASE GetGroup
  <2>1. lasting' = lasting /\ selected' = selected /\ offset' = offset /\ pc[k] = "group"
    BY <1>3 DEF GetGroup, world
  <2> DEFINE g == First(todo[k])
  <2>2. CASE g \in kong
    <3>1. /\ listed'[k] = listed[k] \cup {g} \cup SelectedMembers(g)
          /\ todo'[k] = todo[k] \ {g} /\ pc' = pc
      BY <1>0, <1>3, <2>2 DEF GetGroup, DumpTypeOK
    <3> HIDE DEF g
    <3> QED
      BY <2>1, <3>1 DEF GroupInv, GroupAt, Selects, Ended
  <2>3. CASE g \notin kong
    <3>1. pc'[k] = "cut"
      BY <1>0, <1>3, <2>3 DEF GetGroup, DumpTypeOK
    <3> QED
      BY <3>1 DEF GroupInv, GroupAt, Ended
  <2> QED
    BY <2>2, <2>3
<1>4. CASE GroupsGot
  <2>1. /\ lasting' = lasting /\ selected' = selected /\ offset' = offset /\ listed' = listed
        /\ pc[k] = "group" /\ todo[k] = {}
        /\ pc'[k] = IF offset[k] = 0 THEN "ok" ELSE "page"
    BY <1>0, <1>4 DEF GroupsGot, world, DumpTypeOK
  <2> QED
    BY <2>1 DEF GroupInv, GroupAt, Selects, Ended
<1>5. CASE ListingFails(k)
  BY <1>0, <1>5, FailureEnds DEF GroupInv, GroupAt, Ended
<1>6. ~ListPage(k) /\ ~ListOfParent(k) /\ ~ParentsListed(k)
  BY <1>0 DEF ListPage, ListOfParent, ParentsListed
<1>7. CASE ~Same(k)
  <2>1. At(k) \/ AtGroups
    BY <1>0, <1>7, OthersSame, StepSplit
  <2> QED
    BY <1>2, <1>3, <1>4, <1>5, <1>6, <2>1 DEF At, AtGroups
<1> QED
  BY <1>1, <1>7

\* What is wanted after a step was wanted before.
LEMMA WantedBefore ==
  ASSUME Persist, NEW m \in lasting', Wanted(lasting, m)' PROVE Wanted(lasting, m)
BY DEF Persist, Wanted, RefersTo, Selects

\* A wanted member that lasts is a selected member of its group.
LEMMA WantedIsSelected ==
  ASSUME WorldInv, NEW m \in lasting, NEW g \in lasting, m.kind \in Members,
         Wanted(lasting, m), RefersTo(m, g)
  PROVE  m \in SelectedMembers(g)
<1>1. m \in OfParent(kong, g.id)
  BY DEF WorldInv, OfParent, RefersTo
<1>2. ASSUME selected, NEW r \in m.refs, r.kind = "consumer"
      PROVE  \E c \in OfKind("consumer", kong) : c.id = r.id /\ c.tagged
  <2>1. PICK p \in lasting : p.kind = r.kind /\ p.id = r.id
    BY DEF WorldInv, WellFormed
  <2>2. p.tagged
    BY <1>2, <2>1 DEF Wanted
  <2> QED
    BY <1>2, <2>1, <2>2 DEF WorldInv, OfKind
<1> QED
  BY <1>1, <1>2 DEF SelectedMembers, Members

LEMMA MemberStep == DumpTypeOK /\ WorldInv /\ GroupInv /\ MemberInv /\ [DumpNext]_dumpVars => MemberInv'
<1> SUFFICES ASSUME DumpTypeOK, WorldInv, GroupInv, MemberInv, [DumpNext]_dumpVars,
                    NEW m \in lasting', NEW g \in lasting',
                    m.kind \in Members, Wanted(lasting, m)', g.kind = "consumer-group",
                    RefersTo(m, g), g \in listed'["consumer-group"]
             PROVE  m \in listed'["consumer-group"]
  BY DEF MemberInv, RefersTo
<1> DEFINE k == "consumer-group"
<1>0. Persist /\ k \in Listed /\ pc[k] \notin {"each", "roles"} /\ m \in lasting /\ g \in lasting
  BY WorldSteps, ListedKinds DEF GroupInv, GroupAt, Ended, Persist
<1>1. Wanted(lasting, m)
  BY <1>0, WantedBefore
<1>2. g \in listed[k] => m \in listed[k]
  BY <1>0, <1>1 DEF MemberInv
<1>3. CASE Same(k)
  BY <1>2, <1>3 DEF Same
<1>4. CASE ListGroups \/ GroupsGot
  BY <1>2, <1>4 DEF ListGroups, GroupsGot
<1>5. CASE GetGroup
  <2> DEFINE h == First(todo[k])
  <2>1. CASE h \in kong
    <3>1. listed'[k] = listed[k] \cup {h} \cup SelectedMembers(h)
      BY <1>0, <1>5, <2>1 DEF GetGroup, DumpTypeOK
    <3>2. g \notin SelectedMembers(h)
      BY DEF SelectedMembers
    <3>3. CASE g = h
      BY <1>0, <1>1, <3>1, <3>3, WantedIsSelected
    <3>4. CASE g # h
      BY <1>2, <3>1, <3>2, <3>4
    <3> QED
      BY <3>3, <3>4
  <2>2. CASE h \notin kong
    <3>1. listed'[k] = {}
      BY <1>0, <1>5, <2>2 DEF GetGroup, DumpTypeOK
    <3> QED
      BY <3>1
  <2> QED
    BY <2>1, <2>2
<1>6. CASE ListingFails(k)
  BY <1>0, <1>2, <1>6, FailureEnds
<1>7. ~ListPage(k) /\ ~ListOfParent(k) /\ ~ParentsListed(k)
  BY <1>0 DEF ListPage, ListOfParent, ParentsListed
<1>8. CASE ~Same(k)
  <2>1. At(k) \/ AtGroups
    BY <1>0, <1>8, OthersSame, StepSplit
  <2> QED
    BY <1>4, <1>5, <1>6, <1>7, <2>1 DEF At, AtGroups
<1> QED
  BY <1>3, <1>8

-----------------------------------------------------------------------------
(* Permissions and targets, which are listed parent by parent.               *)

\* What hangs on a parent whose turn is over has been listed.
OwnedAt(k) ==
  /\ pc[k] \in {"upstreams", "roles", "each"} \cup Ended /\ offset[k] = 0
  /\ \A e, p \in lasting :
       /\ e.kind = k /\ Wanted(lasting, e) /\ p.kind = OwnerKind(k) /\ RefersTo(e, p)
       /\ pc[k] = "ok" \/ (pc[k] = "each" /\ p \notin todo[k])
       => e \in listed[k]

OnePageOfTargets == Cardinality(OfKind("target", ever)) <= PageSize

PermissionInv == OwnedAt("rbac-endpoint-permission") /\ pc["rbac-endpoint-permission"] # "upstreams"
TargetInv ==
  /\ pc["target"] \in {"upstreams", "each"} \cup Ended
  /\ OnePageOfTargets => OwnedAt("target")

LEMMA OwnedKept ==
  ASSUME NEW k, OwnedAt(k), Persist, Same(k) PROVE OwnedAt(k)'
<1> SUFFICES ASSUME NEW e \in lasting', NEW p \in lasting',
                    e.kind = k, Wanted(lasting, e)', p.kind = OwnerKind(k), RefersTo(e, p),
                    pc'[k] = "ok" \/ (pc'[k] = "each" /\ p \notin todo'[k])
             PROVE  e \in listed'[k]
  BY DEF OwnedAt, Same, RefersTo
<1>1. e \in lasting /\ p \in lasting /\ Wanted(lasting, e)
  BY WantedBefore DEF Persist
<1> QED
  BY <1>1 DEF OwnedAt, Same

LEMMA ListOfParentKeeps ==
  ASSUME DumpTypeOK, WorldInv, NEW k \in {"target", "rbac-endpoint-permission"},
         OwnedAt(k), ListOfParent(k), k = "target" => OnePageOfTargets
  PROVE  OwnedAt(k)'
<1> DEFINE parent == First(todo[k])
           S == {e \in After(OfParent(OfKind(k, kong), parent.id), offset[k]) : Selects(k, e)}
           page == IF k = "target" THEN FirstPage(S) ELSE S
<1>0. k \in Listed /\ S \in SUBSET kong /\ offset[k] = 0
  BY ListedKinds DEF After, OfKind, OfParent, OwnedAt
<1>1. page = S
  <2> SUFFICES ASSUME k = "target" PROVE FirstPage(S) = S
    OBVIOUS
  <2>1. S \subseteq OfKind("target", ever)
    BY DEF DumpTypeOK, After, OfKind, OfParent
  <2> HIDE DEF S
  <2>2. IsFiniteSet(OfKind("target", ever))
    BY FS_Subset DEF WorldInv, Counted, OfKind
  <2>3. IsFiniteSet(S) /\ Cardinality(S) <= Cardinality(OfKind("target", ever))
    BY <2>1, <2>2, FS_Subset
  <2>4. Cardinality(S) \in Nat /\ Cardinality(OfKind("target", ever)) \in Nat
    BY <2>2, <2>3, FS_CardinalityType
  <2>5. Cardinality(S) <= PageSize
    BY <2>3, <2>4, DumpAssumption DEF OnePageOfTargets
  <2> QED
    BY <2>3, <2>5, SmallIsOnePage
<1>2. pc[k] = "each" /\ lasting' = lasting /\ selected' = selected
  BY DEF ListOfParent, world
<1>3. CASE parent \notin kong
  <2>1. pc'[k] = "error" /\ offset' = offset
    BY <1>0, <1>3 DEF ListOfParent, DumpTypeOK
  <2> QED
    BY <1>0, <2>1 DEF OwnedAt, Ended
<1>4. CASE parent \in kong
  <2>0. TakePage(k, page, S) /\ pc' = pc
        /\ todo' = [todo EXCEPT ![k] = IF page = S THEN @ \ {parent} ELSE @]
    BY <1>4 DEF ListOfParent
  <2>1. /\ listed'[k] = listed[k] \cup S /\ offset'[k] = 0
        /\ todo'[k] = todo[k] \ {parent} /\ pc' = pc
    <3> HIDE DEF S, page, parent
    <3> QED BY <1>0, <1>1, <2>0 DEF TakePage, DumpTypeOK
  <2>2. ASSUME NEW e \in lasting, NEW p \in lasting, e.kind = k, Wanted(lasting, e),
               p.kind = OwnerKind(k), RefersTo(e, p), p \notin todo'[k]
        PROVE  e \in listed'[k]
    <3>1. CASE p = parent
      <4>1. e \in kong /\ e.id \in Nat \ {0} /\ Selects(k, e)
        BY <1>0, <2>2 DEF WorldInv, WellFormed, Wanted
      <4>2. e \in S
        BY <1>0, <2>2, <3>1, <4>1 DEF After, OfParent, OfKind, RefersTo
      <4> QED
        BY <2>1, <4>2
    <3>2. CASE p # parent
      <4>1. p \notin todo[k]
        BY <2>1, <2>2, <3>2
      <4> QED
        BY <1>2, <2>1, <2>2, <4>1 DEF OwnedAt
    <3> QED
      BY <3>1, <3>2
  <2>3. \A e \in lasting : Wanted(lasting, e)' => Wanted(lasting, e)
    BY <1>2 DEF Wanted, Selects
  <2> HIDE DEF parent, S, page
  <2> QED
    BY <1>2, <2>1, <2>2, <2>3 DEF OwnedAt, RefersTo
<1> QED
  BY <1>3, <1>4

LEMMA PermissionStep ==
  DumpTypeOK /\ WorldInv /\ PermissionInv /\ [DumpNext]_dumpVars => PermissionInv'
<1> SUFFICES ASSUME DumpTypeOK, WorldInv, PermissionInv, [DumpNext]_dumpVars PROVE PermissionInv'
  OBVIOUS
<1> DEFINE k == "rbac-endpoint-permission"
<1>0. Persist /\ k \in Listed /\ OwnedAt(k) /\ pc[k] \in {"roles", "each"} \cup Ended
  BY WorldSteps, ListedKinds DEF PermissionInv, OwnedAt
<1>1. CASE Same(k)
  BY <1>0, <1>1, OwnedKept DEF PermissionInv, Same
<1>2. CASE StartPermissions
  <2>1. /\ pc'[k] = "each" /\ offset' = offset /\ lasting' = lasting
        /\ todo'[k] = OfKind("rbac-role", kong)
    BY <1>0, <1>2 DEF StartPermissions, DumpTypeOK, world
  <2>2. \A p \in lasting : p.kind = OwnerKind(k) => p \in todo'[k]
    BY <2>1 DEF WorldInv, OwnerKind, OfKind
  <2> QED
    BY <2>1, <2>2 DEF PermissionInv, OwnedAt
<1>3. CASE ListOfParent(k)
  <2>1. OwnedAt(k)'
    BY <1>0, <1>3, ListOfParentKeeps
  <2>2. pc'[k] # "upstreams"
    BY <1>0, <1>3 DEF ListOfParent, DumpTypeOK, Ended
  <2> QED
    BY <2>1, <2>2 DEF PermissionInv
<1>4. CASE ParentsListed(k)
  <2>1. /\ pc[k] = "each" /\ todo[k] = {} /\ pc'[k] = "ok" /\ offset' = offset /\ listed' = listed
        /\ lasting' = lasting /\ selected' = selected
    BY <1>0, <1>4 DEF ParentsListed, DumpTypeOK, world
  <2>2. \A e \in lasting : Wanted(lasting, e)' => Wanted(lasting, e)
    BY <2>1 DEF Wanted, Selects
  <2> QED
    BY <1>0, <2>1, <2>2 DEF PermissionInv, OwnedAt, RefersTo, Ended
<1>5. CASE ListingFails(k)
  BY <1>0, <1>5, FailureEnds DEF PermissionInv, OwnedAt, Ended
<1>6. ~ListPage(k)
  BY <1>0 DEF ListPage, Ended
<1>7. CASE ~Same(k)
  <2>1. At(k) \/ StartPermissions
    BY <1>0, <1>7, OthersSame, StepSplit, ListedKinds
  <2> QED
    BY <1>2, <1>3, <1>4, <1>5, <1>6, <2>1 DEF At
<1> QED
  BY <1>1, <1>7

LEMMA OnePageBefore ==
  ASSUME WorldInv', ever \subseteq ever', OnePageOfTargets' PROVE OnePageOfTargets
<1>1. IsFiniteSet(OfKind("target", ever')) /\ OfKind("target", ever) \subseteq OfKind("target", ever')
  BY FS_Subset DEF WorldInv, Counted, OfKind
<1> DEFINE n == Cardinality(OfKind("target", ever))
           m == Cardinality(OfKind("target", ever'))
<1>2. IsFiniteSet(OfKind("target", ever)) /\ n <= m
  BY <1>1, FS_Subset
<1>3. n \in Nat /\ m \in Nat
  BY <1>1, <1>2, FS_CardinalityType
<1>4. m <= PageSize
  BY DEF OnePageOfTargets, OfKind
<1>5. n <= PageSize
  <2> HIDE DEF n, m
  <2> QED BY <1>2, <1>3, <1>4, DumpAssumption
<1> QED
  BY <1>5 DEF OnePageOfTargets

\* The upstream of a wanted target is selected, so it has been listed.
LEMMA UpstreamIsListed ==
  ASSUME PagedInv, pc["upstream"] = "ok", NEW e \in lasting, NEW u \in lasting,
         e.kind = "target", Wanted(lasting, e), u.kind = "upstream", RefersTo(e, u)
  PROVE  u \in listed["upstream"]
<1>1. "upstream" \in Paged
  BY ListedKinds DEF Paged
<1>2. Selects("upstream", u)
  BY DEF Wanted, RefersTo, Selects
<1> QED
  BY <1>1, <1>2 DEF PagedInv, PagedAt

LEMMA TargetStep ==
  DumpTypeOK /\ WorldInv /\ PagedInv /\ TargetInv /\ [DumpNext]_dumpVars => TargetInv'
<1> SUFFICES ASSUME DumpTypeOK, WorldInv, PagedInv, TargetInv, [DumpNext]_dumpVars PROVE TargetInv'
  OBVIOUS
<1> DEFINE k == "target"
<1>0. Persist /\ k \in Listed /\ pc[k] \in {"upstreams", "each"} \cup Ended
  BY WorldSteps, ListedKinds DEF TargetInv
<1>8. OnePageOfTargets' => OnePageOfTargets /\ OwnedAt(k)
  BY <1>0, WorldSteps, OnePageBefore DEF Persist, TargetInv
<1>1. CASE Same(k)
  BY <1>0, <1>8, <1>1, OwnedKept DEF TargetInv, Same
<1>2. CASE StartTargets
  <2>1. /\ pc'[k] = "each" /\ offset' = offset /\ lasting' = lasting /\ selected' = selected
        /\ todo'[k] = listed["upstream"] /\ pc["upstream"] = "ok"
    BY <1>0, <1>2 DEF StartTargets, DumpTypeOK, world
  <2>2. \A e \in lasting : Wanted(lasting, e)' => Wanted(lasting, e)
    BY <2>1 DEF Wanted, Selects
  <2>3. \A e, p \in lasting :
          e.kind = k /\ Wanted(lasting, e) /\ p.kind = OwnerKind(k) /\ RefersTo(e, p) => p \in todo'[k]
    BY <2>1, UpstreamIsListed DEF OwnerKind
  <2> QED
    BY <1>8, <2>1, <2>2, <2>3 DEF TargetInv, OwnedAt, RefersTo
<1>3. CASE ListOfParent(k)
  <2>1. OnePageOfTargets' => OwnedAt(k)'
    BY <1>8, <1>3, ListOfParentKeeps
  <2>2. pc'[k] \in {"upstreams", "each"} \cup Ended
    BY <1>0, <1>3 DEF ListOfParent, DumpTypeOK, Ended
  <2> QED
    BY <2>1, <2>2 DEF TargetInv
<1>4. CASE ParentsListed(k)
  <2>1. /\ pc[k] = "each" /\ todo[k] = {} /\ pc'[k] = "ok" /\ offset' = offset /\ listed' = listed
        /\ lasting' = lasting /\ selected' = selected
    BY <1>0, <1>4 DEF ParentsListed, DumpTypeOK, world
  <2>2. \A e \in lasting : Wanted(lasting, e)' => Wanted(lasting, e)
    BY <2>1 DEF Wanted, Selects
  <2> QED
    BY <1>8, <2>1, <2>2 DEF TargetInv, OwnedAt, RefersTo, Ended
<1>5. CASE ListingFails(k)
  BY <1>0, <1>8, <1>5, FailureEnds DEF TargetInv, OwnedAt, Ended
<1>6. ~ListPage(k)
  BY <1>0 DEF ListPage, Ended
<1>7. CASE ~Same(k)
  <2>1. At(k) \/ StartTargets
    BY <1>0, <1>7, OthersSame, StepSplit, ListedKinds
  <2> QED
    BY <1>2, <1>3, <1>4, <1>5, <1>6, <2>1 DEF At
<1> QED
  BY <1>1, <1>7

-----------------------------------------------------------------------------
(* The types.                                                                *)

Control == {"page", "group", "upstreams", "roles", "each"} \cup Ended

LEMMA PcTyped == DumpTypeOK /\ [DumpNext]_dumpVars => pc' \in [Listed -> Control]
<1> SUFFICES ASSUME DumpTypeOK, [DumpNext]_dumpVars PROVE pc' \in [Listed -> Control]
  OBVIOUS
<1>0. pc \in [Listed -> Control]
  BY DEF DumpTypeOK, Control
<1>1. CASE AtGroups \/ StartTargets \/ StartPermissions
  BY <1>0, <1>1 DEF AtGroups, ListGroups, GetGroup, GroupsGot, StartTargets, StartPermissions, Control, Ended
<1>2. ASSUME NEW k \in Listed, At(k) PROVE pc' \in [Listed -> Control]
  BY <1>0, <1>2 DEF At, ListPage, ListOfParent, ParentsListed, ListingFails, Control, Ended
<1>3. CASE Change \/ Quiet
  BY <1>0, <1>3 DEF Change, Quiet, DumpFails, DumpSucceeds, dumpVars
<1> QED
  BY <1>1, <1>2, <1>3, StepSplit

LEMMA ListsTyped ==
  DumpTypeOK /\ WorldInv /\ [DumpNext]_dumpVars =>
    todo' \in [Listed -> SUBSET ever'] /\ listed' \in [Listed -> SUBSET ever']
<1> SUFFICES ASSUME DumpTypeOK, WorldInv, [DumpNext]_dumpVars
             PROVE  todo' \in [Listed -> SUBSET ever'] /\ listed' \in [Listed -> SUBSET ever']
  OBVIOUS
<1>0. /\ todo \in [Listed -> SUBSET ever] /\ listed \in [Listed -> SUBSET ever]
      /\ kong \subseteq ever /\ ever \subseteq ever'
  BY WorldSteps DEF DumpTypeOK, Persist
<1>1. CASE Change \/ Quiet
  <2>1. todo' = todo /\ listed' = listed
    BY <1>1 DEF Change, Quiet, DumpFails, DumpSucceeds, dumpVars
  <2> QED
    BY <1>0, <2>1
<1>2. ASSUME AtGroups \/ StartTargets \/ StartPermissions \/ \E k \in Listed : At(k)
      PROVE  ever' = ever
  BY <1>2 DEF AtGroups, ListGroups, GetGroup, GroupsGot, StartTargets, StartPermissions, At, ListPage,
       ListOfParent, ParentsListed, ListingFails, world
<1>3. CASE AtGroups
  <2>1. CASE ListGroups
    BY <1>0, <1>2, <1>3, <2>1 DEF ListGroups, FirstPage, After, OfKind
  <2>2. CASE GetGroup
    BY <1>0, <1>2, <1>3, <2>2 DEF GetGroup, SelectedMembers, OfParent
  <2>3. CASE GroupsGot
    BY <1>0, <1>2, <1>3, <2>3 DEF GroupsGot
  <2> QED
    BY <1>3, <2>1, <2>2, <2>3 DEF AtGroups
<1>4. CASE StartTargets \/ StartPermissions
  BY <1>0, <1>2, <1>4, ListedKinds DEF StartTargets, StartPermissions, OfKind
<1>5. ASSUME NEW k \in Listed, At(k)
      PROVE  todo' \in [Listed -> SUBSET ever'] /\ listed' \in [Listed -> SUBSET ever']
  <2>1. CASE ListPage(k)
    BY <1>0, <1>2, <1>5, <2>1 DEF ListPage, TakePage, FirstPage, After, OfKind
  <2>2. CASE ListOfParent(k)
    <3>1. PICK page \in SUBSET kong : listed' = listed \/ listed' = [listed EXCEPT ![k] = @ \cup page]
      <4> DEFINE S == {e \in After(OfParent(OfKind(k, kong), First(todo[k]).id), offset[k]) : Selects(k, e)}
      <4>1. S \in SUBSET kong /\ FirstPage(S) \in SUBSET kong
        BY DEF After, OfKind, OfParent, FirstPage
      <4>2. \/ listed' = listed \/ listed' = [listed EXCEPT ![k] = @ \cup S]
            \/ listed' = [listed EXCEPT ![k] = @ \cup FirstPage(S)]
        BY <2>2 DEF ListOfParent, TakePage
      <4> HIDE DEF S
      <4> QED BY <4>1, <4>2
    <3>2. \/ todo' = todo \/ todo' = [todo EXCEPT ![k] = @]
          \/ todo' = [todo EXCEPT ![k] = @ \ {First(todo[k])}]
      BY <2>2 DEF ListOfParent
    <3> QED
      BY <1>0, <1>2, <1>5, <3>1, <3>2
  <2>3. CASE ParentsListed(k) \/ ListingFails(k)
    BY <1>0, <1>2, <1>5, <2>3 DEF ParentsListed, ListingFails
  <2> QED
    BY <1>5, <2>1, <2>2, <2>3 DEF At
<1> QED
  BY <1>1, <1>3, <1>4, <1>5, StepSplit

\* The last id of the first page of what is not all of one.
LEMMA OffsetIsNat ==
  ASSUME WorldInv, NEW S \in SUBSET kong, FirstPage(S) # S PROVE LastId(FirstPage(S)) \in Nat
<1>1. Numbered(S) /\ S # {}
  BY KongIsNumbered DEF FirstPage
<1> QED
  BY <1>1, PageEnds

LEMMA OffsetTyped == DumpTypeOK /\ WorldInv /\ [DumpNext]_dumpVars => offset' \in [Listed -> Nat]
<1> SUFFICES ASSUME DumpTypeOK, WorldInv, [DumpNext]_dumpVars PROVE offset' \in [Listed -> Nat]
  OBVIOUS
<1>0. offset \in [Listed -> Nat]
  BY DEF DumpTypeOK
<1>1. CASE UNCHANGED offset
  BY <1>0, <1>1
<1>2. CASE ListGroups
  <2> DEFINE S == {e \in After(OfKind("consumer-group", kong), offset["consumer-group"]) :
                     Selects("consumer-group", e)}
  <2>1. S \in SUBSET kong
    BY DEF After, OfKind
  <2>2. /\ FirstPage(S) # S => LastId(FirstPage(S)) \in Nat
        /\ offset' = [offset EXCEPT !["consumer-group"] = IF FirstPage(S) # S THEN LastId(FirstPage(S)) ELSE 0]
    BY <1>2, <2>1, OffsetIsNat DEF ListGroups, MoreAfter
  <2> HIDE DEF S
  <2> QED
    BY <1>0, <2>2
<1>3. ASSUME NEW k \in Listed, NEW S \in SUBSET kong, TakePage(k, FirstPage(S), S)
      PROVE  offset' \in [Listed -> Nat]
  <2>1. FirstPage(S) # S => LastId(FirstPage(S)) \in Nat
    BY OffsetIsNat
  <2> QED
    BY <1>0, <1>3, <2>1 DEF TakePage
<1>4. ASSUME NEW k \in Listed, ListPage(k) PROVE offset' \in [Listed -> Nat]
  <2> DEFINE S == {e \in After(OfKind(k, kong), offset[k]) : Selects(k, e)}
  <2>1. S \in SUBSET kong /\ TakePage(k, FirstPage(S), S)
    BY <1>4 DEF ListPage, After, OfKind
  <2> QED
    BY <1>3, <2>1
<1>5. ASSUME NEW k \in Listed, ListOfParent(k) PROVE offset' \in [Listed -> Nat]
  <2> DEFINE S == {e \in After(OfParent(OfKind(k, kong), First(todo[k]).id), offset[k]) : Selects(k, e)}
  <2>1. S \in SUBSET kong
    BY DEF After, OfKind, OfParent
  <2>2. UNCHANGED offset \/ TakePage(k, FirstPage(S), S) \/ TakePage(k, S, S)
    BY <1>5 DEF ListOfParent
  <2>3. TakePage(k, S, S) => offset' = [offset EXCEPT ![k] = @]
    BY DEF TakePage
  <2> HIDE DEF S
  <2> QED
    BY <1>0, <1>1, <1>3, <2>1, <2>2, <2>3
<1>6. CASE GetGroup \/ GroupsGot \/ StartTargets \/ StartPermissions \/ Change \/ Quiet
           \/ \E k \in Listed : ParentsListed(k) \/ ListingFails(k)
  BY <1>1, <1>6 DEF GetGroup, GroupsGot, StartTargets, StartPermissions, Change, Quiet, DumpFails,
       DumpSucceeds, dumpVars, ParentsListed, ListingFails
<1> QED
  BY <1>2, <1>4, <1>5, <1>6, StepSplit DEF AtGroups, At

LEMMA TypeStep == DumpTypeOK /\ WorldInv /\ [DumpNext]_dumpVars => DumpTypeOK'
<1> SUFFICES ASSUME DumpTypeOK, WorldInv, [DumpNext]_dumpVars PROVE DumpTypeOK'
  OBVIOUS
<1>1. lasting' \subseteq kong' /\ kong' \subseteq ever' /\ selected' = selected
  BY WorldSteps DEF WorldInv, Persist
<1>2. raw' \in {"none", "ok", "error"}
  BY StepSplit DEF DumpTypeOK, AtGroups, At, Quiet, Change, ListGroups, GetGroup, GroupsGot, StartTargets,
     StartPermissions, ListPage, ListOfParent, ParentsListed, ListingFails, DumpFails, DumpSucceeds, dumpVars
<1>3. faults' = faults \/ (faults > 0 /\ faults' = faults - 1)
  BY StepSplit DEF AtGroups, At, Quiet, Change, ListGroups, GetGroup, GroupsGot, StartTargets,
     StartPermissions, ListPage, ListOfParent, ParentsListed, ListingFails, DumpFails, DumpSucceeds, dumpVars
<1>4. changes' = changes \/ (changes > 0 /\ changes' = changes - 1)
  BY StepSplit DEF AtGroups, At, Quiet, Change, ListGroups, GetGroup, GroupsGot, StartTargets,
     StartPermissions, ListPage, ListOfParent, ParentsListed, ListingFails, DumpFails, DumpSucceeds, dumpVars, world
<1>5. faults' \in 0..MaxFaults /\ changes' \in 0..MaxChanges
  BY <1>3, <1>4, DumpAssumption DEF DumpTypeOK
<1> QED
  BY <1>1, <1>2, <1>5, PcTyped, ListsTyped, OffsetTyped DEF DumpTypeOK, Control

-----------------------------------------------------------------------------
(* The theorems.                                                             *)

IInv == DumpTypeOK /\ WorldInv /\ PagedInv /\ GroupInv /\ MemberInv /\ PermissionInv /\ TargetInv

LEMMA InitIInv == DumpInit => IInv
<1> SUFFICES ASSUME DumpInit PROVE IInv
  OBVIOUS
<1>1. WellFormed(kong) /\ kong \in Gateways /\ lasting = kong /\ ever = kong
  BY DumpAssumption DEF DumpInit
<1>2. WorldInv
  BY <1>1 DEF WorldInv, WellFormed, Counted
<1>3. \A k \in Listed : /\ Start(k, kong) \in {"ok", "upstreams", "roles", "page"}
                        /\ Start(k, kong) = "upstreams" => k = "target"
                        /\ Start(k, kong) = "roles" => k = "rbac-endpoint-permission"
                        /\ Start(k, kong) = "page" => k \notin {"target", "rbac-endpoint-permission"}
                        /\ Start(k, kong) = "ok" => OfKind(k, kong) = {}
  BY DEF Start
<1>4. DumpTypeOK
  <2>1. pc \in [Listed -> Control]
    BY <1>3 DEF DumpInit, Control, Ended
  <2> QED
    BY <1>1, <2>1, DumpAssumption DEF DumpInit, DumpTypeOK, Control
<1>5. \A k \in Listed : pc[k] = Start(k, kong) /\ offset[k] = 0 /\ todo[k] = {} /\ listed[k] = {}
  BY DEF DumpInit
<1>6. \A e \in lasting : e.id \in Nat \ {0}
  BY <1>1 DEF WellFormed
<1>7. PagedInv
  BY <1>1, <1>3, <1>5, <1>6 DEF PagedInv, PagedAt, Paged, Ended, OfKind
<1>8. GroupInv
  BY <1>1, <1>3, <1>5, <1>6, ListedKinds DEF GroupInv, GroupAt, Ended, OfKind
<1>9. MemberInv
  BY <1>5, ListedKinds DEF MemberInv
<1>10. PermissionInv
  BY <1>1, <1>3, <1>5, ListedKinds DEF PermissionInv, OwnedAt, Ended, OfKind
<1>11. TargetInv
  BY <1>1, <1>3, <1>5, ListedKinds DEF TargetInv, OwnedAt, Ended, OfKind
<1> QED
  BY <1>2, <1>4, <1>7, <1>8, <1>9, <1>10, <1>11 DEF IInv

LEMMA IInvStep == IInv /\ [DumpNext]_dumpVars => IInv'
BY TypeStep, WorldSteps, PagedStep, GroupStep, MemberStep, PermissionStep, TargetStep DEF IInv

\* The inductive invariant of the dump.
THEOREM DumpInvariance == DumpSpec => []IInv
BY InitIInv, IInvStep, PTL DEF DumpSpec

LEMMA InvariantIsEnough == IInv => DumpTypeOK /\ DumpComplete
<1> SUFFICES ASSUME IInv PROVE DumpComplete
  BY DEF IInv
<1>1. RawState \subseteq ever
  BY DEF IInv, DumpTypeOK, RawState
<1>2. ASSUME NEW e \in lasting, Wanted(lasting, e), pc[ListingOf(e)] = "ok",
             e.kind = "target" => OnePageOfTargets
      PROVE  e \in RawState
  <2>1. ASSUME e.kind \in Owned
        PROVE  \E p \in lasting : p.kind = OwnerKind(e.kind) /\ RefersTo(e, p)
    <3>1. PICK r \in e.refs : r.kind = OwnerKind(e.kind)
      BY <2>1 DEF IInv, WorldInv, WellFormed
    <3>2. PICK p \in lasting : p.kind = r.kind /\ p.id = r.id
      BY DEF IInv, WorldInv, WellFormed
    <3> QED
      BY <3>1, <3>2 DEF RefersTo
  <2>2. CASE e.kind \in Members
    <3>1. PICK g \in lasting : g.kind = "consumer-group" /\ RefersTo(e, g)
      BY <2>1, <2>2 DEF Owned, OwnerKind, Members
    <3>2. Selects("consumer-group", g)
      BY <1>2, <2>2, <3>1 DEF Wanted, RefersTo, Selects
    <3>3. g \in listed["consumer-group"]
      BY <1>2, <2>2, <3>1, <3>2 DEF IInv, GroupInv, GroupAt, ListingOf
    <3>4. e \in listed["consumer-group"]
      BY <1>2, <2>2, <3>1, <3>3 DEF IInv, MemberInv
    <3> QED
      BY <3>4, ListedKinds DEF RawState
  <2>3. CASE e.kind = "consumer-group"
    <3>1. e \in listed["consumer-group"]
      BY <1>2, <2>3 DEF IInv, GroupInv, GroupAt, ListingOf, Wanted, Members
    <3> QED
      BY <3>1, ListedKinds DEF RawState
  <2>4. CASE e.kind \in {"target", "rbac-endpoint-permission"}
    <3>1. PICK p \in lasting : p.kind = OwnerKind(e.kind) /\ RefersTo(e, p)
      BY <2>1, <2>4 DEF Owned
    <3>2. OwnedAt(e.kind) /\ pc[e.kind] = "ok"
      BY <1>2, <2>4 DEF IInv, PermissionInv, TargetInv, ListingOf, Members
    <3>3. e \in listed[e.kind]
      BY <1>2, <3>1, <3>2 DEF OwnedAt
    <3> QED
      BY <2>4, <3>3, ListedKinds DEF RawState
  <2>5. CASE e.kind \in Paged /\ e.kind \notin Members
    <3>1. PagedAt(e.kind) /\ Selects(e.kind, e) /\ pc[e.kind] = "ok"
      BY <1>2, <2>5 DEF IInv, PagedInv, Wanted, ListingOf, Paged
    <3>2. e \in listed[e.kind]
      BY <3>1 DEF PagedAt
    <3> QED
      BY <2>5, <3>2 DEF RawState, Paged
  <2> QED
    BY <1>2, <2>2, <2>3, <2>4, <2>5 DEF Wanted, Paged
<1> QED
  BY <1>1, <1>2 DEF DumpComplete, OnePageOfTargets

\* The variables of the dump keep their types.
THEOREM DumpTypesHold == DumpSpec => []DumpTypeOK
BY InvariantIsEnough, DumpInvariance, PTL

\* A successful Get has, of every kind whose listing was not cut short, all that
\* is selected and was there all the time, and nothing that never was: for any
\* gateway, any size of the pages, and any changes between them.
THEOREM DumpIsComplete == DumpSpec => []DumpComplete
BY InvariantIsEnough, DumpInvariance, PTL
=============================================================================
