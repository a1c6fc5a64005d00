-------------------------- MODULE ReconcileProofs --------------------------
(* A run of Reconcile brings about the target state, for any families of     *)
(* entities that satisfy the assumptions of Reconcile and of                 *)
(* ReconcileInvariants: the order of the stages, the types, the state of a   *)
(* run without errors step by step, the causes of errors, the theorems.      *)
EXTENDS ReconcileInvariants, SequenceTheorems, FiniteSetTheorems, TLAPS

-----------------------------------------------------------------------------
(* The levels of the dependency order, and the stages made of them.         *)

\* s is a followed by b.
Joins(s, a, b) ==
  /\ s = a \o b /\ Len(s) = Len(a) + Len(b)
  /\ \A i \in 1..Len(a) : s[i] = a[i]
  /\ \A i \in 1..Len(b) : s[Len(a) + i] = b[i]

\* What a concatenation has where.
LEMMA Concatenation ==
  ASSUME NEW S, NEW a \in Seq(S), NEW b \in Seq(S)
  PROVE  \E s \in Seq(S) : Joins(s, a, b)
<1>1. a \o b \in Seq(S) /\ Joins(a \o b, a, b)
  BY DEF Joins
<1> QED
  BY <1>1

\* Where the kinds of each level are when the levels are taken together.
Placed(s, a, b, c, d) ==
  /\ Len(s) = Len(a) + Len(b) + Len(c) + Len(d)
  /\ \A i \in 1..Len(a) : s[i] = a[i]
  /\ \A i \in 1..Len(b) : s[Len(a) + i] = b[i]
  /\ \A i \in 1..Len(c) : s[Len(a) + Len(b) + i] = c[i]
  /\ \A i \in 1..Len(d) : s[Len(a) + Len(b) + Len(c) + i] = d[i]

\* What the concatenation of four levels has where.
LEMMA KindsOfLevels ==
  ASSUME NEW S, NEW a \in Seq(S), NEW b \in Seq(S), NEW c \in Seq(S), NEW d \in Seq(S)
  PROVE  kindsOf(<<a, b, c, d>>) \in Seq(S) /\ Placed(kindsOf(<<a, b, c, d>>), a, b, c, d)
<1>1. PICK s \in Seq(S) : Joins(s, a, b)
  BY Concatenation
<1>2. PICK t \in Seq(S) : Joins(t, s, c)
  BY Concatenation
<1>3. PICK u \in Seq(S) : Joins(u, t, d)
  BY Concatenation
<1>4. u = kindsOf(<<a, b, c, d>>)
  BY <1>1, <1>2, <1>3 DEF kindsOf, Joins
<1>5. Len(a) \in Nat /\ Len(b) \in Nat /\ Len(c) \in Nat /\ Len(d) \in Nat
  OBVIOUS
<1>6. Placed(u, a, b, c, d)
  BY <1>1, <1>2, <1>3, <1>5 DEF Joins, Placed
<1> QED
  BY <1>4, <1>6

Ran(s) == {s[i] : i \in 1..Len(s)}
Injects(s) == \A i, j \in 1..Len(s) : s[i] = s[j] => i = j

LiesIn(i, s, t, n) == \E j \in 1..Len(t) : i = n + j /\ s[i] = t[j]

\* Every position lies in one of the levels.
LEMMA PlacedRegions ==
  ASSUME NEW S, NEW a \in Seq(S), NEW b \in Seq(S), NEW c \in Seq(S), NEW d \in Seq(S),
         NEW s \in Seq(S), Placed(s, a, b, c, d), NEW i \in 1..Len(s)
  PROVE  \/ LiesIn(i, s, a, 0) \/ LiesIn(i, s, b, Len(a))
         \/ LiesIn(i, s, c, Len(a) + Len(b)) \/ LiesIn(i, s, d, Len(a) + Len(b) + Len(c))
<1>1. Len(a) \in Nat /\ Len(b) \in Nat /\ Len(c) \in Nat /\ Len(d) \in Nat /\ i \in Nat
  OBVIOUS
<1>2. CASE i <= Len(a)
  <2>1. i \in 1..Len(a) /\ i = 0 + i
    BY <1>1, <1>2
  <2>2. s[i] = a[i]
    BY <2>1 DEF Placed
  <2>3. LiesIn(i, s, a, 0)
    BY <2>1, <2>2 DEF LiesIn
  <2> QED BY <2>3
<1>3. CASE Len(a) < i /\ i <= Len(a) + Len(b)
  <2> DEFINE j == i - Len(a)
  <2>1. j \in 1..Len(b) /\ i = Len(a) + j
    BY <1>1, <1>3
  <2> QED BY <2>1 DEF Placed, LiesIn
<1>4. CASE Len(a) + Len(b) < i /\ i <= Len(a) + Len(b) + Len(c)
  <2> DEFINE j == i - (Len(a) + Len(b))
  <2>1. j \in 1..Len(c) /\ i = Len(a) + Len(b) + j
    BY <1>1, <1>4
  <2> QED BY <2>1 DEF Placed, LiesIn
<1>5. CASE Len(a) + Len(b) + Len(c) < i
  <2> DEFINE j == i - (Len(a) + Len(b) + Len(c))
  <2>1. j \in 1..Len(d) /\ i = Len(a) + Len(b) + Len(c) + j
    BY <1>1, <1>5 DEF Placed
  <2> QED BY <2>1 DEF Placed, LiesIn
<1>6. \/ i <= Len(a)
      \/ Len(a) < i /\ i <= Len(a) + Len(b)
      \/ Len(a) + Len(b) < i /\ i <= Len(a) + Len(b) + Len(c)
      \/ Len(a) + Len(b) + Len(c) < i
  BY <1>1
<1> QED
  BY <1>2, <1>3, <1>4, <1>5, <1>6, Zenon

\* Kinds are found once each, those of earlier levels first.
Arranged(s, a, b, c, d) ==
  /\ Injects(s) /\ Ran(s) = Ran(a) \cup Ran(b) \cup Ran(c) \cup Ran(d)
  /\ \A i, j \in 1..Len(s) :
       \/ s[i] \in Ran(a) /\ s[j] \in Ran(b) \cup Ran(c) \cup Ran(d)
       \/ s[i] \in Ran(b) /\ s[j] \in Ran(c) \cup Ran(d)
       \/ s[i] \in Ran(c) /\ s[j] \in Ran(d)
       => i < j

\* Levels without a kind in common, each without repetition, give an order.
LEMMA PlacedOnce ==
  ASSUME NEW S, NEW a \in Seq(S), NEW b \in Seq(S), NEW c \in Seq(S), NEW d \in Seq(S),
         NEW s \in Seq(S), Placed(s, a, b, c, d),
         Injects(a), Injects(b), Injects(c), Injects(d),
         Ran(a) \cap Ran(b) = {}, Ran(a) \cap Ran(c) = {}, Ran(a) \cap Ran(d) = {},
         Ran(b) \cap Ran(c) = {}, Ran(b) \cap Ran(d) = {}, Ran(c) \cap Ran(d) = {}
  PROVE  Arranged(s, a, b, c, d)
<1>1. Len(a) \in Nat /\ Len(b) \in Nat /\ Len(c) \in Nat /\ Len(d) \in Nat
  OBVIOUS
<1> DEFINE At(i, t, n) == LiesIn(i, s, t, n)
<1>2. \A i \in 1..Len(s) : At(i, a, 0) \/ At(i, b, Len(a)) \/ At(i, c, Len(a) + Len(b))
                           \/ At(i, d, Len(a) + Len(b) + Len(c))
  BY PlacedRegions
<1>3. \A t, n, i : At(i, t, n) => s[i] \in Ran(t)
  BY DEF Ran, LiesIn
<1>4. ASSUME NEW i \in 1..Len(s)
      PROVE  /\ s[i] \in Ran(a) => At(i, a, 0)
             /\ s[i] \in Ran(b) => At(i, b, Len(a))
             /\ s[i] \in Ran(c) => At(i, c, Len(a) + Len(b))
             /\ s[i] \in Ran(d) => At(i, d, Len(a) + Len(b) + Len(c))
  <2> HIDE DEF At
  <2> QED BY <1>2, <1>3
<1>5. ASSUME NEW t \in Seq(S), Injects(t), NEW n \in Nat, NEW i \in 1..Len(s), NEW j \in 1..Len(s),
             At(i, t, n), At(j, t, n), s[i] = s[j]
      PROVE  i = j
  BY <1>5 DEF Injects, LiesIn
<1>6. Injects(s)
  <2> SUFFICES ASSUME NEW i \in 1..Len(s), NEW j \in 1..Len(s), s[i] = s[j] PROVE i = j
    BY DEF Injects
  <2> HIDE DEF At
  <2>1. CASE s[i] \in Ran(a)
    <3>1. At(i, a, 0) /\ At(j, a, 0)
      BY <2>1, <1>4
    <3> QED BY <1>5, <3>1
  <2>2. CASE s[i] \in Ran(b)
    <3>1. At(i, b, Len(a)) /\ At(j, b, Len(a))
      BY <2>2, <1>4
    <3> QED BY <1>1, <1>5, <3>1
  <2>3. CASE s[i] \in Ran(c)
    <3> DEFINE n == Len(a) + Len(b)
    <3>1. At(i, c, n) /\ At(j, c, n) /\ n \in Nat
      BY <2>3, <1>4, <1>1
    <3> QED BY <1>5, <3>1
  <2>4. CASE s[i] \in Ran(d)
    <3> DEFINE n == Len(a) + Len(b) + Len(c)
    <3>1. At(i, d, n) /\ At(j, d, n) /\ n \in Nat
      BY <2>4, <1>4, <1>1
    <3> QED BY <1>5, <3>1
  <2> QED
    BY <2>1, <2>2, <2>3, <2>4, <1>2, <1>3
<1>7. Ran(s) = Ran(a) \cup Ran(b) \cup Ran(c) \cup Ran(d)
  <2>1. Ran(s) \subseteq Ran(a) \cup Ran(b) \cup Ran(c) \cup Ran(d)
    <3> HIDE DEF At
    <3>1. \A i \in 1..Len(s) : s[i] \in Ran(a) \cup Ran(b) \cup Ran(c) \cup Ran(d)
      BY <1>2, <1>3
    <3> QED BY <3>1 DEF Ran
  <2>2. Ran(a) \subseteq Ran(s)
    BY <1>1 DEF Ran, Placed
  <2>3. Ran(b) \subseteq Ran(s)
    <3>1. \A i \in 1..Len(b) : Len(a) + i \in 1..Len(s) /\ s[Len(a) + i] = b[i]
      BY <1>1 DEF Placed
    <3> QED BY <3>1 DEF Ran
  <2>4. Ran(c) \subseteq Ran(s)
    <3>1. \A i \in 1..Len(c) : Len(a) + Len(b) + i \in 1..Len(s) /\ s[Len(a) + Len(b) + i] = c[i]
      BY <1>1 DEF Placed
    <3> QED BY <3>1 DEF Ran
  <2>5. Ran(d) \subseteq Ran(s)
    <3>1. \A i \in 1..Len(d) : /\ Len(a) + Len(b) + Len(c) + i \in 1..Len(s)
                                /\ s[Len(a) + Len(b) + Len(c) + i] = d[i]
      BY <1>1 DEF Placed
    <3> QED BY <3>1 DEF Ran
  <2> QED
    BY <2>1, <2>2, <2>3, <2>4, <2>5
<1>8. ASSUME NEW i \in 1..Len(s), NEW j \in 1..Len(s)
      PROVE  \/ s[i] \in Ran(a) /\ s[j] \in Ran(b) \cup Ran(c) \cup Ran(d)
             \/ s[i] \in Ran(b) /\ s[j] \in Ran(c) \cup Ran(d)
             \/ s[i] \in Ran(c) /\ s[j] \in Ran(d)
             => i < j
  <2>1. /\ At(i, a, 0) => i <= Len(a)
        /\ At(i, b, Len(a)) => i <= Len(a) + Len(b)
        /\ At(i, c, Len(a) + Len(b)) => i <= Len(a) + Len(b) + Len(c)
    BY <1>1 DEF LiesIn
  <2>2. /\ At(j, b, Len(a)) => j > Len(a)
        /\ At(j, c, Len(a) + Len(b)) => j > Len(a) + Len(b)
        /\ At(j, d, Len(a) + Len(b) + Len(c)) => j > Len(a) + Len(b) + Len(c)
    BY <1>1 DEF LiesIn
  <2> HIDE DEF At
  <2> QED
    BY <1>1, <1>4, <2>1, <2>2
<1> QED
  BY <1>6, <1>7, <1>8 DEF Arranged

Level(l) == Ran(order[l])

\* The kinds of the table of order.go.
LEMMA LevelKinds ==
  /\ Level(1) = {"service-package", "rbac-role", "certificate", "ca-certificate", "consumer",
       "vault", "license", "partial", "key-set", "cloned-plugin", "custom-plugin"}
  /\ Level(2) = {"consumer-group", "rbac-endpoint-permission", "sni", "service", "upstream", "key",
       "key-auth", "hmac-auth", "jwt-auth", "basic-auth", "oauth2-cred", "acl-group",
       "mtls-auth"}
  /\ Level(3) = {"service-version", "route", "target", "consumer-group-consumer",
       "consumer-group-plugin"}
  /\ Level(4) = {"plugin", "filter-chain", "document", "degraphql_routes",
       "graphql_ratelimiting_cost_decorations"}
<1>1. Level(1) = {"service-package", "rbac-role", "certificate", "ca-certificate", "consumer",
       "vault", "license", "partial", "key-set", "cloned-plugin", "custom-plugin"}
  BY DEF Level, Ran, order, dependencyOrder
<1>2. Level(2) = {"consumer-group", "rbac-endpoint-permission", "sni", "service", "upstream", "key",
       "key-auth", "hmac-auth", "jwt-auth", "basic-auth", "oauth2-cred", "acl-group",
       "mtls-auth"}
  BY DEF Level, Ran, order, dependencyOrder
<1>3. Level(3) = {"service-version", "route", "target", "consumer-group-consumer",
       "consumer-group-plugin"}
  BY DEF Level, Ran, order, dependencyOrder
<1>4. Level(4) = {"plugin", "filter-chain", "document", "degraphql_routes",
       "graphql_ratelimiting_cost_decorations"}
  BY DEF Level, Ran, order, dependencyOrder
<1> QED
  BY <1>1, <1>2, <1>3, <1>4

\* The table has the kinds of all differs.
LEMMA KindsOfAll == Kinds = Level(1) \cup Level(2) \cup Level(3) \cup Level(4)
BY LevelKinds, SMTT(60) DEF Kinds, entityDiffers, row,
     servicePackageDiffer, rbacRoleDiffer, certificateDiffer, caCertificateDiffer,
     consumerDiffer, vaultDiffer, licenseDiffer, partialDiffer, keySetDiffer,
     clonedPluginDefinitionDiffer, customPluginDefinitionDiffer, consumerGroupDiffer,
     rbacEndpointPermissionDiffer, sniDiffer, serviceDiffer, upstreamDiffer, keyDiffer,
     keyAuthDiffer, hmacAuthDiffer, jwtAuthDiffer, basicAuthDiffer, oauth2CredDiffer,
     aclGroupDiffer, mtlsAuthDiffer, serviceVersionDiffer, routeDiffer, targetDiffer,
     consumerGroupConsumerDiffer, consumerGroupPluginDiffer, pluginDiffer,
     filterChainDiffer, documentDiffer, degraphqlRouteDiffer,
     graphqlRateLimitingCostDecorationDiffer

RowOrdered(d) ==
  /\ d.kind \in Level(1) => d.refs \cup d.uses = {}
  /\ d.kind \in Level(2) => d.refs \cup d.uses \subseteq Level(1)
  /\ d.kind \in Level(3) => d.refs \cup d.uses \subseteq Level(1) \cup Level(2)
  /\ d.kind \in Level(4) => d.refs \cup d.uses \subseteq Level(1) \cup Level(2) \cup Level(3)

\* Every differ refers to kinds of lower levels only.
LEMMA RowsOrdered == \A d \in entityDiffers : RowOrdered(d)
BY LevelKinds, SMTT(60) DEF RowOrdered, entityDiffers, row,
     servicePackageDiffer, rbacRoleDiffer, certificateDiffer, caCertificateDiffer,
     consumerDiffer, vaultDiffer, licenseDiffer, partialDiffer, keySetDiffer,
     clonedPluginDefinitionDiffer, customPluginDefinitionDiffer, consumerGroupDiffer,
     rbacEndpointPermissionDiffer, sniDiffer, serviceDiffer, upstreamDiffer, keyDiffer,
     keyAuthDiffer, hmacAuthDiffer, jwtAuthDiffer, basicAuthDiffer, oauth2CredDiffer,
     aclGroupDiffer, mtlsAuthDiffer, serviceVersionDiffer, routeDiffer, targetDiffer,
     consumerGroupConsumerDiffer, consumerGroupPluginDiffer, pluginDiffer,
     filterChainDiffer, documentDiffer, degraphqlRouteDiffer,
     graphqlRateLimitingCostDecorationDiffer

\* No kind is in two levels.
LEMMA LevelsApart ==
  /\ Level(1) \cap Level(2) = {} /\ Level(1) \cap Level(3) = {} /\ Level(1) \cap Level(4) = {}
  /\ Level(2) \cap Level(3) = {} /\ Level(2) \cap Level(4) = {} /\ Level(3) \cap Level(4) = {}
BY LevelKinds

\* No kind is twice in a level.
LEMMA LevelsInject ==
  /\ Injects(order[1]) /\ Injects(order[2]) /\ Injects(order[3]) /\ Injects(order[4])
<1>1. Injects(order[1])
  BY SMTT(30) DEF Injects, order, dependencyOrder
<1>2. Injects(order[2])
  BY SMTT(30) DEF Injects, order, dependencyOrder
<1>3. Injects(order[3])
  BY SMTT(30) DEF Injects, order, dependencyOrder
<1>4. Injects(order[4])
  BY SMTT(30) DEF Injects, order, dependencyOrder
<1> QED
  BY <1>1, <1>2, <1>3, <1>4

\* How many kinds the levels have: 34 in all.
LEMMA LevelLengths ==
  /\ Len(order[1]) = 11 /\ Len(order[2]) = 13 /\ Len(order[3]) = 5 /\ Len(order[4]) = 5
BY DEF order, dependencyOrder

\* The levels are sequences of kinds.
LEMMA LevelSequences ==
  order[1] \in Seq(Kinds) /\ order[2] \in Seq(Kinds) /\ order[3] \in Seq(Kinds) /\ order[4] \in Seq(Kinds)
<1>1. \A l \in 1..4 : \A i \in 1..Len(order[l]) : order[l][i] \in Kinds
  BY KindsOfAll DEF Level, Ran
<1> QED
  BY <1>1, SMTT(30) DEF order, dependencyOrder

\* The two orders, level by level.
LEMMA Orders ==
  /\ order = <<order[1], order[2], order[3], order[4]>>
  /\ reverseOrder = <<order[4], order[3], order[2], order[1]>>
BY DEF order, dependencyOrder, reverseOrder, Seqs!Reverse

\* The kinds of all levels, from the first level to the last and back.
LEMMA Forwards ==
  /\ kindsOf(order) \in Seq(Kinds) /\ Len(kindsOf(order)) = 34
  /\ Injects(kindsOf(order)) /\ Ran(kindsOf(order)) = Kinds
  /\ \A i, j \in 1..34 :
       \/ kindsOf(order)[i] \in Level(1) /\ kindsOf(order)[j] \in Level(2) \cup Level(3) \cup Level(4)
       \/ kindsOf(order)[i] \in Level(2) /\ kindsOf(order)[j] \in Level(3) \cup Level(4)
       \/ kindsOf(order)[i] \in Level(3) /\ kindsOf(order)[j] \in Level(4)
       => i < j
<1>1. /\ kindsOf(order) \in Seq(Kinds)
      /\ Placed(kindsOf(order), order[1], order[2], order[3], order[4])
  BY Orders, LevelSequences, KindsOfLevels
<1>2. Len(kindsOf(order)) = 34
  BY <1>1, LevelLengths DEF Placed
<1>3. /\ Ran(order[1]) \cap Ran(order[2]) = {} /\ Ran(order[1]) \cap Ran(order[3]) = {}
      /\ Ran(order[1]) \cap Ran(order[4]) = {} /\ Ran(order[2]) \cap Ran(order[3]) = {}
      /\ Ran(order[2]) \cap Ran(order[4]) = {} /\ Ran(order[3]) \cap Ran(order[4]) = {}
  BY LevelsApart DEF Level
<1>4. Arranged(kindsOf(order), order[1], order[2], order[3], order[4])
  BY <1>1, <1>3, PlacedOnce, LevelSequences, LevelsInject, Zenon
<1> QED
  BY <1>1, <1>2, <1>4, KindsOfAll DEF Level, Arranged

\* The same, from the last level to the first.
LEMMA Backwards ==
  /\ kindsOf(reverseOrder) \in Seq(Kinds) /\ Len(kindsOf(reverseOrder)) = 34
  /\ Injects(kindsOf(reverseOrder)) /\ Ran(kindsOf(reverseOrder)) = Kinds
  /\ \A i, j \in 1..34 :
       \/ kindsOf(reverseOrder)[i] \in Level(4) /\ kindsOf(reverseOrder)[j] \in Level(3) \cup Level(2) \cup Level(1)
       \/ kindsOf(reverseOrder)[i] \in Level(3) /\ kindsOf(reverseOrder)[j] \in Level(2) \cup Level(1)
       \/ kindsOf(reverseOrder)[i] \in Level(2) /\ kindsOf(reverseOrder)[j] \in Level(1)
       => i < j
<1>1. /\ kindsOf(reverseOrder) \in Seq(Kinds)
      /\ Placed(kindsOf(reverseOrder), order[4], order[3], order[2], order[1])
  BY Orders, LevelSequences, KindsOfLevels
<1>2. Len(kindsOf(reverseOrder)) = 34
  BY <1>1, LevelLengths DEF Placed
<1>3. /\ Ran(order[4]) \cap Ran(order[3]) = {} /\ Ran(order[4]) \cap Ran(order[2]) = {}
      /\ Ran(order[4]) \cap Ran(order[1]) = {} /\ Ran(order[3]) \cap Ran(order[2]) = {}
      /\ Ran(order[3]) \cap Ran(order[1]) = {} /\ Ran(order[2]) \cap Ran(order[1]) = {}
  BY LevelsApart DEF Level
<1>4. Arranged(kindsOf(reverseOrder), order[4], order[3], order[2], order[1])
  BY <1>1, <1>3, PlacedOnce, LevelSequences, LevelsInject, Zenon
<1> QED
  BY <1>1, <1>2, <1>4, KindsOfAll DEF Level, Arranged

\* levelForEvent finds the one level that has the kind.
LEMMA LevelOfEvent ==
  ASSUME NEW k \in Kinds, NEW i \in 1..4
  PROVE  levelForEvent(k, reverseOrder) = i <=> k \in Ran(reverseOrder[i])
<1> DEFINE has == {h \in 1..Len(reverseOrder) : \E j \in 1..Len(reverseOrder[h]) : reverseOrder[h][j] = k}
<1>1. Len(reverseOrder) = 4 /\ reverseOrder[1] = order[4] /\ reverseOrder[2] = order[3]
      /\ reverseOrder[3] = order[2] /\ reverseOrder[4] = order[1]
  BY Orders
<1>2. has = {h \in 1..4 : k \in Ran(reverseOrder[h])}
  BY <1>1 DEF Ran
<1>3. /\ Ran(reverseOrder[1]) = Level(4) /\ Ran(reverseOrder[2]) = Level(3)
      /\ Ran(reverseOrder[3]) = Level(2) /\ Ran(reverseOrder[4]) = Level(1)
  BY <1>1 DEF Level
<1>4. PICK m \in 1..4 : has = {m}
  <2>1. PICK m \in 1..4 : k \in Ran(reverseOrder[m])
    BY <1>3, KindsOfAll
  <2>2. \A h \in 1..4 : k \in Ran(reverseOrder[h]) => h = m
    BY <1>3, <2>1, LevelsApart
  <2> HIDE DEF has
  <2>3. has = {m}
    BY <1>2, <2>1, <2>2
  <2> QED BY <2>3
<1>5. levelForEvent(k, reverseOrder) = m
  <2> HIDE DEF has
  <2>1. levelForEvent(k, reverseOrder) = IF has = {} THEN 0 ELSE CHOOSE h \in has : \A g \in has : h <= g
    BY DEF levelForEvent, has
  <2> QED BY <2>1, <1>4
<1>6. k \in Ran(reverseOrder[i]) <=> i \in has
  BY <1>2
<1> QED
  BY <1>4, <1>5, <1>6

\* Every kind has its differ.
LEMMA RowOfDiffer ==
  ASSUME NEW k \in Kinds PROVE differOf[k] \in entityDiffers /\ differOf[k].kind = k
<1>1. \E d \in entityDiffers : d.kind = k
  BY DEF Kinds
<1> QED
  BY <1>1 DEF differOf

\* Only consumers, services and routes have duplicates.
LEMMA RowsWithDuplicates ==
  /\ \A d \in entityDiffers : d.duplicates = TRUE <=> d.kind \in {"consumer", "service", "route"}
  /\ \A d \in entityDiffers : d.duplicates \in BOOLEAN
BY SMTT(60) DEF entityDiffers, row,
     servicePackageDiffer, rbacRoleDiffer, certificateDiffer, caCertificateDiffer,
     consumerDiffer, vaultDiffer, licenseDiffer, partialDiffer, keySetDiffer,
     clonedPluginDefinitionDiffer, customPluginDefinitionDiffer, consumerGroupDiffer,
     rbacEndpointPermissionDiffer, sniDiffer, serviceDiffer, upstreamDiffer, keyDiffer,
     keyAuthDiffer, hmacAuthDiffer, jwtAuthDiffer, basicAuthDiffer, oauth2CredDiffer,
     aclGroupDiffer, mtlsAuthDiffer, serviceVersionDiffer, routeDiffer, targetDiffer,
     consumerGroupConsumerDiffer, consumerGroupPluginDiffer, pluginDiffer,
     filterChainDiffer, documentDiffer, degraphqlRouteDiffer,
     graphqlRateLimitingCostDecorationDiffer

\* The same, by kind.
LEMMA KindsWithDuplicates ==
  ASSUME NEW k \in Kinds
  PROVE  differOf[k].duplicates <=> k \in {"consumer", "service", "route"}
BY RowOfDiffer, RowsWithDuplicates

\* The kinds that a kind refers to, in either way.
Needs(k) == differOf[k].refs \cup differOf[k].uses

\* What a kind refers to is on a lower level.
LEMMA RefsAreLower ==
  ASSUME NEW k \in Kinds, NEW r \in Needs(k)
  PROVE  \/ k \in Level(2) /\ r \in Level(1)
         \/ k \in Level(3) /\ r \in Level(1) \cup Level(2)
         \/ k \in Level(4) /\ r \in Level(1) \cup Level(2) \cup Level(3)
BY RowOfDiffer, RowsOrdered, KindsOfAll DEF RowOrdered, Needs

fwd == kindsOf(order)
bwd == kindsOf(reverseOrder)

\* Each order has every kind, once.
LEMMA ForwardKinds ==
  /\ \A i \in 1..34 : fwd[i] \in Kinds /\ bwd[i] \in Kinds
  /\ \A k \in Kinds : \E i \in 1..34 : fwd[i] = k
  /\ \A k \in Kinds : \E i \in 1..34 : bwd[i] = k
  /\ \A i, j \in 1..34 : (fwd[i] = fwd[j] => i = j) /\ (bwd[i] = bwd[j] => i = j)
<1>1. /\ Kinds = {fwd[i] : i \in 1..34} /\ Kinds = {bwd[i] : i \in 1..34}
  BY Forwards, Backwards DEF fwd, bwd, Ran
<1>2. \A i, j \in 1..34 : (fwd[i] = fwd[j] => i = j) /\ (bwd[i] = bwd[j] => i = j)
  BY Forwards, Backwards DEF fwd, bwd, Injects
<1> QED
  BY <1>1, <1>2

\* In the order of the creates, what a kind refers to comes first.
LEMMA ForwardRefs ==
  \A i, j \in 1..34 : fwd[j] \in Needs(fwd[i]) => j < i
<1> SUFFICES ASSUME NEW i \in 1..34, NEW j \in 1..34, fwd[j] \in Needs(fwd[i]) PROVE j < i
  OBVIOUS
<1>1. fwd[i] \in Kinds /\ fwd[j] \in Kinds
  BY ForwardKinds
<1> QED
  BY <1>1, RefsAreLower, Forwards DEF fwd

\* In the order of the deletes, it comes last.
LEMMA BackwardRefs ==
  \A i, j \in 1..34 : bwd[j] \in Needs(bwd[i]) => i < j
<1> SUFFICES ASSUME NEW i \in 1..34, NEW j \in 1..34, bwd[j] \in Needs(bwd[i]) PROVE i < j
  OBVIOUS
<1>1. bwd[i] \in Kinds /\ bwd[j] \in Kinds
  BY ForwardKinds
<1> QED
  BY <1>1, RefsAreLower, Backwards DEF bwd

ReverseLevel(i) == Ran(reverseOrder[i])

\* The levels from the last to the first.
LEMMA ReverseLevels ==
  /\ ReverseLevel(1) = Level(4) /\ ReverseLevel(2) = Level(3)
  /\ ReverseLevel(3) = Level(2) /\ ReverseLevel(4) = Level(1)
BY Orders DEF Level, ReverseLevel

\* Each kind is in one of them, before what it refers to, and no two of the kinds with
\* duplicates share one.
LEMMA ReverseLevelFacts ==
  /\ \A k \in Kinds : \E i \in 1..4 : k \in ReverseLevel(i)
  /\ \A i, j \in 1..4 : \A k \in Kinds : k \in ReverseLevel(i) /\ k \in ReverseLevel(j) => i = j
  /\ \A i, j \in 1..4 : \A k \in Kinds : \A r \in Needs(k) :
       k \in ReverseLevel(i) /\ r \in ReverseLevel(j) => i < j
  /\ \A i \in 1..4 : \A k, h \in {"consumer", "service", "route"} :
       k \in ReverseLevel(i) /\ h \in ReverseLevel(i) => k = h
<1>1. \A k \in Kinds : \E i \in 1..4 : k \in ReverseLevel(i)
  BY ReverseLevels, KindsOfAll
<1>2. \A i, j \in 1..4 : \A k \in Kinds : k \in ReverseLevel(i) /\ k \in ReverseLevel(j) => i = j
  BY ReverseLevels, LevelsApart
<1>3. ASSUME NEW i \in 1..4, NEW j \in 1..4, NEW k \in Kinds, NEW r \in Needs(k),
             k \in ReverseLevel(i), r \in ReverseLevel(j)
      PROVE  i < j
  BY <1>3, RefsAreLower, ReverseLevels, LevelsApart
<1>4. \A i \in 1..4 : \A k, h \in {"consumer", "service", "route"} :
       k \in ReverseLevel(i) /\ h \in ReverseLevel(i) => k = h
  BY ReverseLevels, LevelKinds
<1> QED
  BY <1>1, <1>2, <1>3, <1>4

\* What the stages of an operation for each kind, or for each level, are.
LEMMA StagesPerKind ==
  ASSUME NEW op
  PROVE  /\ StagePerKind(op, order) = [i \in 1..34 |-> [op |-> op, kinds |-> {fwd[i]}]]
         /\ StagePerKind(op, reverseOrder) = [i \in 1..34 |-> [op |-> op, kinds |-> {bwd[i]}]]
BY Forwards, Backwards DEF StagePerKind, fwd, bwd

\* The stages of the duplicates, level by level.
LEMMA StagesPerLevel ==
  StagePerLevel(reverseOrder) =
    [i \in 1..4 |-> [op |-> "deleteDuplicates", kinds |-> {k \in Kinds : k \in ReverseLevel(i)}]]
<1>1. Len(reverseOrder) = 4
  BY Orders
<1>2. \A i \in 1..4 : {k \in Kinds : levelForEvent(k, reverseOrder) = i} = {k \in Kinds : k \in ReverseLevel(i)}
  BY LevelOfEvent DEF ReverseLevel
<1> QED
  BY <1>1, <1>2 DEF StagePerLevel

DuplicateStage(i) == [op |-> "deleteDuplicates", kinds |-> {k \in Kinds : k \in ReverseLevel(i)}]
CreateStage(i) == [op |-> "createUpdate", kinds |-> {fwd[i]}]
DeleteStage(i) == [op |-> "delete", kinds |-> {bwd[i]}]

\* diff() with deletes has 4 + 34 + 34 stages.
LEMMA FullStages ==
  /\ Len(stagesOfDiff(TRUE)) = 72
  /\ \A i \in 1..4 : stagesOfDiff(TRUE)[i] = DuplicateStage(i)
  /\ \A i \in 1..34 : stagesOfDiff(TRUE)[4 + i] = CreateStage(i)
  /\ \A i \in 1..34 : stagesOfDiff(TRUE)[38 + i] = DeleteStage(i)
<1> DEFINE S == {DuplicateStage(i) : i \in 1..4} \cup {CreateStage(i) : i \in 1..34} \cup {DeleteStage(i) : i \in 1..34}
           d == [i \in 1..4 |-> DuplicateStage(i)]
           c == [i \in 1..34 |-> CreateStage(i)]
           x == [i \in 1..34 |-> DeleteStage(i)]
<1> HIDE DEF DuplicateStage, CreateStage, DeleteStage
<1>1. d \in Seq(S)
  OBVIOUS
<1>2. c \in Seq(S)
  OBVIOUS
<1>3. x \in Seq(S)
  OBVIOUS
<1>4. Len(d) = 4 /\ Len(c) = 34 /\ Len(x) = 34
  OBVIOUS
<1>5. StagePerLevel(reverseOrder) = d /\ StagePerKind("createUpdate", order) = c
      /\ StagePerKind("delete", reverseOrder) = x
  BY StagesPerLevel, StagesPerKind DEF DuplicateStage, CreateStage, DeleteStage
<1>6. stagesOfDiff(TRUE) = (d \o c) \o x
  BY <1>5 DEF stagesOfDiff
<1>7. \A i \in 1..4 : d[i] = DuplicateStage(i)
  OBVIOUS
<1>8. \A i \in 1..34 : c[i] = CreateStage(i)
  OBVIOUS
<1>9. \A i \in 1..34 : x[i] = DeleteStage(i)
  OBVIOUS
<1> HIDE DEF S, d, c, x
<1>10. PICK s \in Seq(S) : Joins(s, d, c)
  BY <1>1, <1>2, Concatenation
<1>11. PICK t \in Seq(S) : Joins(t, s, x)
  BY <1>3, Concatenation
<1>12. t = stagesOfDiff(TRUE)
  BY <1>6, <1>10, <1>11 DEF Joins
<1>13. Len(s) = 38
  BY <1>4, <1>10 DEF Joins
<1>14. Len(t) = 72
  BY <1>4, <1>11, <1>13 DEF Joins
<1>15. \A i \in 1..4 : s[i] = d[i]
  BY <1>4, <1>10 DEF Joins
<1>16. \A i \in 1..34 : s[4 + i] = c[i]
  BY <1>4, <1>10 DEF Joins
<1>17. \A i \in 1..38 : t[i] = s[i]
  BY <1>13, <1>11 DEF Joins
<1>18. \A i \in 1..34 : t[38 + i] = x[i]
  BY <1>4, <1>13, <1>11 DEF Joins
<1>19. ASSUME NEW i \in 1..34 PROVE t[4 + i] = CreateStage(i)
  <2>1. 4 + i \in 1..38
    OBVIOUS
  <2> QED BY <2>1, <1>8, <1>16, <1>17, Zenon
<1>20. ASSUME NEW i \in 1..4 PROVE t[i] = DuplicateStage(i)
  <2>1. i \in 1..38
    OBVIOUS
  <2> QED BY <2>1, <1>7, <1>15, <1>17, Zenon
<1>21. ASSUME NEW i \in 1..34 PROVE t[38 + i] = DeleteStage(i)
  BY <1>9, <1>18, Zenon
<1> QED
  BY <1>12, <1>14, <1>19, <1>20, <1>21, Zenon

\* diff() without deletes has 34 stages.
LEMMA CreateStages ==
  /\ Len(stagesOfDiff(FALSE)) = 34
  /\ \A i \in 1..34 : stagesOfDiff(FALSE)[i] = CreateStage(i)
<1> DEFINE c == [i \in 1..34 |-> CreateStage(i)]
<1>1. StagePerKind("createUpdate", order) = c
  BY StagesPerKind DEF CreateStage
<1> HIDE DEF CreateStage
<1>2. c \in Seq({CreateStage(i) : i \in 1..34})
  OBVIOUS
<1>3. Len(c) = 34
  OBVIOUS
<1>4. \A i \in 1..34 : c[i] = CreateStage(i)
  OBVIOUS
<1> HIDE DEF c
<1>5. (<<>> \o c) \o <<>> = c
  BY <1>2
<1>6. stagesOfDiff(FALSE) = c
  BY <1>1, <1>5 DEF stagesOfDiff
<1> QED
  BY <1>3, <1>4, <1>6

StageOps == {"deleteDuplicates", "createUpdate", "delete"}

\* The stages in their order: the duplicates by level, then kind by kind the
\* creates and updates, then the deletes; n stages precede the creates.
Laid(s, i, n) ==
  \/ s[i].op = "deleteDuplicates" /\ i \in 1..n /\ n = 4 /\ s[i].kinds = {k \in Kinds : k \in ReverseLevel(i)}
  \/ s[i].op = "createUpdate" /\ i - n \in 1..34 /\ s[i].kinds = {fwd[i - n]}
  \/ s[i].op = "delete" /\ n = 4 /\ i - 38 \in 1..34 /\ s[i].kinds = {bwd[i - 38]}

LaidOut(s, n) ==
  /\ (n = 4 /\ Len(s) = 72) \/ (n = 0 /\ Len(s) = 34)
  /\ \A i \in 1..Len(s) : Laid(s, i, n)

\* They are laid out as Laid says.
LEMMA FullLayout ==
  ASSUME NEW s, Len(s) = 72,
         \A i \in 1..4 : s[i] = DuplicateStage(i),
         \A i \in 1..34 : s[4 + i] = CreateStage(i),
         \A i \in 1..34 : s[38 + i] = DeleteStage(i)
  PROVE  LaidOut(s, 4)
<1>1. ASSUME NEW i \in 1..4 PROVE Laid(s, i, 4)
  BY DEF Laid, DuplicateStage
<1>2. ASSUME NEW j \in 1..34 PROVE Laid(s, 4 + j, 4)
  <2>1. (4 + j) - 4 = j
    OBVIOUS
  <2> QED BY <2>1 DEF Laid, CreateStage
<1>3. ASSUME NEW j \in 1..34 PROVE Laid(s, 38 + j, 4)
  <2>1. (38 + j) - 38 = j
    OBVIOUS
  <2> QED BY <2>1 DEF Laid, DeleteStage
<1>4. ASSUME NEW i \in 1..72 PROVE Laid(s, i, 4)
  <2>1. CASE i \in 1..4
    BY <2>1, <1>1
  <2>2. CASE i - 4 \in 1..34
    <3>1. i = 4 + (i - 4)
      OBVIOUS
    <3> QED BY <3>1, <2>2, <1>2
  <2>3. CASE i - 38 \in 1..34
    <3>1. i = 38 + (i - 38)
      OBVIOUS
    <3> QED BY <3>1, <2>3, <1>3
  <2>4. i \in 1..4 \/ i - 4 \in 1..34 \/ i - 38 \in 1..34
    OBVIOUS
  <2> QED BY <2>1, <2>2, <2>3, <2>4
<1> QED
  BY <1>4 DEF LaidOut

\* And so are those without deletes.
LEMMA CreateLayout ==
  ASSUME NEW s, Len(s) = 34, \A i \in 1..34 : s[i] = CreateStage(i)
  PROVE  LaidOut(s, 0)
<1>1. ASSUME NEW i \in 1..34 PROVE Laid(s, i, 0)
  <2>1. i - 0 = i
    OBVIOUS
  <2> QED BY <2>1 DEF Laid, CreateStage
<1> QED
  BY <1>1 DEF LaidOut

\* Both kinds of runs have their stages laid out so.
LEMMA StagesLaid == LaidOut(stagesOfDiff(TRUE), 4) /\ LaidOut(stagesOfDiff(FALSE), 0)
BY FullStages, CreateStages, FullLayout, CreateLayout, Zenon

\* What the stages of a run are like, in an order that respects the references.
Twinned == {"consumer", "service", "route"}
WellStaged(s, w) ==
  /\ Len(s) \in Nat
  /\ \A i \in 1..Len(s) : /\ s[i].op \in StageOps /\ s[i].kinds \subseteq Kinds
                          /\ ~w => s[i].op = "createUpdate"
  /\ \A i, j \in 1..Len(s) : i < j =>
       /\ s[j].op = "deleteDuplicates" => s[i].op = "deleteDuplicates"
       /\ s[i].op = "delete" => s[j].op = "delete"
  /\ \A k \in Kinds : \E i \in 1..Len(s) : s[i].op = "createUpdate" /\ k \in s[i].kinds
  /\ w => \A op \in StageOps : \A k \in Kinds : \E i \in 1..Len(s) : s[i].op = op /\ k \in s[i].kinds
  /\ \A i, j \in 1..Len(s) : \A k \in Kinds :
       s[i].op = s[j].op /\ k \in s[i].kinds /\ k \in s[j].kinds => i = j
  /\ \A i, j \in 1..Len(s) : \A k \in Kinds : \A r \in Needs(k) :
       k \in s[i].kinds /\ r \in s[j].kinds /\ s[i].op = s[j].op =>
         IF s[i].op = "createUpdate" THEN j < i ELSE i < j
  /\ \A i \in 1..Len(s) : s[i].op = "deleteDuplicates" =>
       \A k, h \in Twinned : k \in s[i].kinds /\ h \in s[i].kinds => k = h

\* Stages laid out so are in an order that respects the references.
LEMMA LaidInOrder ==
  ASSUME NEW s, NEW n, LaidOut(s, n), NEW w \in BOOLEAN, w <=> n = 4
  PROVE  WellStaged(s, w)
<1>1. \A i \in 1..Len(s) : Laid(s, i, n)
  BY DEF LaidOut
<1>2. Len(s) \in Nat /\ n \in {0, 4} /\ n + 34 <= Len(s)
      /\ (w => n = 4 /\ Len(s) = 72) /\ (~w => n = 0 /\ Len(s) = 34)
  <2>1. (n = 4 /\ Len(s) = 72) \/ (n = 0 /\ Len(s) = 34)
    BY Zenon DEF LaidOut
  <2>2. CASE n = 4 /\ Len(s) = 72
    BY <2>2
  <2>3. CASE n = 0 /\ Len(s) = 34
    BY <2>3
  <2> QED BY <2>1, <2>2, <2>3
<1>3. \A i \in 1..34 : fwd[i] \in Kinds /\ bwd[i] \in Kinds
  BY ForwardKinds
<1>4. ASSUME NEW i \in 1..Len(s)
      PROVE  /\ s[i].op \in StageOps /\ s[i].kinds \subseteq Kinds
             /\ ~w => s[i].op = "createUpdate"
  <2>1. Laid(s, i, n)
    BY <1>1
  <2>2. s[i].op \in StageOps
    BY <2>1, Zenon DEF Laid, StageOps
  <2>3. s[i].kinds \subseteq Kinds
    BY <1>3, <2>1 DEF Laid
  <2>4. n = 4 \/ s[i].op = "createUpdate"
    BY <1>2, <2>1 DEF Laid
  <2> QED BY <1>2, <2>2, <2>3, <2>4
<1>5. ASSUME NEW i \in 1..Len(s), NEW j \in 1..Len(s), i < j
      PROVE  /\ s[j].op = "deleteDuplicates" => s[i].op = "deleteDuplicates"
             /\ s[i].op = "delete" => s[j].op = "delete"
  <2> DEFINE Region(h) == \/ s[h].op = "deleteDuplicates" /\ h \in 1..n /\ n = 4
                          \/ s[h].op = "createUpdate" /\ h - n \in 1..34
                          \/ s[h].op = "delete" /\ h - 38 \in 1..34 /\ n = 4
  <2>1. Laid(s, i, n) /\ Laid(s, j, n)
    BY <1>1
  <2>2. Region(i) /\ Region(j)
    BY <2>1, Zenon DEF Laid
  <2>3. i \in Nat /\ j \in Nat
    BY <1>2
  <2> QED BY <1>2, <1>5, <2>2, <2>3
<1>6. ASSUME NEW k \in Kinds PROVE \E i \in 1..Len(s) : s[i].op = "createUpdate" /\ k \in s[i].kinds
  <2>1. PICK i \in 1..34 : fwd[i] = k
    BY ForwardKinds
  <2>2. n + i \in 1..Len(s)
    BY <1>2
  <2>5. (n + i) - n = i
    BY <1>2
  <2>6. ~(n + i \in 1..n) /\ ~((n + i) - 38 \in 1..34)
    BY <1>2
  <2>3. Laid(s, n + i, n)
    BY <1>1, <2>2
  <2>4. s[n + i].op = "createUpdate" /\ s[n + i].kinds = {fwd[i]}
    BY <2>3, <2>5, <2>6 DEF Laid
  <2> QED BY <2>1, <2>2, <2>4
<1>7. ASSUME w, NEW k \in Kinds, NEW op \in StageOps
      PROVE  \E i \in 1..Len(s) : s[i].op = op /\ k \in s[i].kinds
  <2>1. n = 4 /\ Len(s) = 72
    BY <1>2, <1>7
  <2>2. CASE op = "deleteDuplicates"
    <3>1. PICK i \in 1..4 : k \in ReverseLevel(i)
      BY ReverseLevelFacts
    <3>2. i \in 1..Len(s) /\ ~(i - 4 \in 1..34) /\ ~(i - 38 \in 1..34)
      BY <2>1
    <3>3. Laid(s, i, n)
      BY <1>1, <3>2
    <3> QED BY <2>1, <2>2, <3>1, <3>2, <3>3 DEF Laid
  <2>3. CASE op = "delete"
    <3>1. PICK i \in 1..34 : bwd[i] = k
      BY ForwardKinds
    <3>2. 38 + i \in 1..Len(s) /\ ~(38 + i \in 1..4) /\ (38 + i) - 38 = i /\ ~((38 + i) - 4 \in 1..34)
      BY <2>1
    <3>3. Laid(s, 38 + i, n)
      BY <1>1, <3>2
    <3>4. s[38 + i].op = "delete" /\ s[38 + i].kinds = {bwd[i]}
      BY <2>1, <3>2, <3>3 DEF Laid
    <3> QED BY <2>3, <3>1, <3>2, <3>4
  <2> QED BY <1>6, <2>2, <2>3 DEF StageOps
<1>8. ASSUME NEW i \in 1..Len(s), NEW j \in 1..Len(s), NEW k \in Kinds,
             s[i].op = s[j].op, k \in s[i].kinds, k \in s[j].kinds
      PROVE  i = j
  <2>1. Laid(s, i, n) /\ Laid(s, j, n)
    BY <1>1
  <2>2. CASE s[i].op = "deleteDuplicates"
    <3>1. i \in 1..4 /\ j \in 1..4 /\ k \in ReverseLevel(i) /\ k \in ReverseLevel(j)
      BY <1>2, <1>8, <2>1, <2>2 DEF Laid
    <3> QED BY <3>1, ReverseLevelFacts
  <2>3. CASE s[i].op = "createUpdate"
    <3>1. i - n \in 1..34 /\ j - n \in 1..34 /\ k = fwd[i - n] /\ k = fwd[j - n]
      BY <1>2, <1>8, <2>1, <2>3 DEF Laid
    <3>2. i - n = j - n
      BY <3>1, ForwardKinds
    <3> QED BY <1>2, <3>2
  <2>4. CASE s[i].op = "delete"
    <3>1. i - 38 \in 1..34 /\ j - 38 \in 1..34 /\ k = bwd[i - 38] /\ k = bwd[j - 38]
      BY <1>2, <1>8, <2>1, <2>4 DEF Laid
    <3>2. bwd[i - 38] = bwd[j - 38]
      BY <3>1
    <3>3. i - 38 = j - 38
      BY <3>1, <3>2, ForwardKinds, Zenon
    <3> QED BY <3>1, <3>3
  <2> QED BY <1>4, <2>2, <2>3, <2>4 DEF StageOps
<1>9. ASSUME NEW i \in 1..Len(s), NEW j \in 1..Len(s), NEW k \in Kinds, NEW r \in Needs(k),
             k \in s[i].kinds, r \in s[j].kinds, s[i].op = s[j].op
      PROVE  IF s[i].op = "createUpdate" THEN j < i ELSE i < j
  <2>1. Laid(s, i, n) /\ Laid(s, j, n)
    BY <1>1
  <2>2. CASE s[i].op = "deleteDuplicates"
    <3>1. i \in 1..4 /\ j \in 1..4 /\ k \in ReverseLevel(i) /\ r \in ReverseLevel(j)
      BY <1>2, <1>9, <2>1, <2>2 DEF Laid
    <3> QED BY <2>2, <3>1, ReverseLevelFacts
  <2>3. CASE s[i].op = "createUpdate"
    <3>1. i - n \in 1..34 /\ j - n \in 1..34 /\ k = fwd[i - n] /\ r = fwd[j - n]
      BY <1>2, <1>9, <2>1, <2>3 DEF Laid
    <3>2. j - n < i - n
      BY <3>1, ForwardRefs
    <3> QED BY <1>2, <2>3, <3>2
  <2>4. CASE s[i].op = "delete"
    <3>1. i - 38 \in 1..34 /\ j - 38 \in 1..34 /\ k = bwd[i - 38] /\ r = bwd[j - 38]
      BY <1>2, <1>9, <2>1, <2>4 DEF Laid
    <3>2. i - 38 < j - 38
      BY <3>1, BackwardRefs
    <3> QED BY <2>4, <3>2
  <2> QED BY <1>4, <2>2, <2>3, <2>4 DEF StageOps
<1>10. ASSUME NEW i \in 1..Len(s), s[i].op = "deleteDuplicates", NEW k \in Twinned, NEW h \in Twinned,
              k \in s[i].kinds, h \in s[i].kinds
       PROVE  k = h
  <2>1. i \in 1..4 /\ k \in ReverseLevel(i) /\ h \in ReverseLevel(i)
    <3>1. Laid(s, i, n)
      BY <1>1
    <3> QED BY <1>2, <1>10, <3>1 DEF Laid
  <2> QED BY <2>1, ReverseLevelFacts DEF Twinned
<1> QED
  BY <1>2, <1>4, <1>5, <1>6, <1>7, <1>8, <1>9, <1>10 DEF WellStaged

\* The stages of diff() are well staged.
LEMMA StageOrder ==
  ASSUME NEW w \in BOOLEAN PROVE WellStaged(stagesOfDiff(w), w)
<1>1. WellStaged(stagesOfDiff(TRUE), TRUE)
  <2>1. TRUE <=> 4 = 4
    OBVIOUS
  <2> QED BY StagesLaid, LaidInOrder, <2>1, Zenon
<1>2. WellStaged(stagesOfDiff(FALSE), FALSE)
  <2>1. FALSE <=> 0 = 4
    OBVIOUS
  <2> QED BY StagesLaid, LaidInOrder, <2>1, Zenon
<1> QED
  BY <1>1, <1>2, Zenon

\* So the stages of diff() are in order, with deletes and without.
LEMMA OrderOfRuns ==
  ASSUME NEW w \in BOOLEAN PROVE InOrder(stagesOfDiff(w))
<1> DEFINE s == stagesOfDiff(w)
           at(op, k) == {i \in 1..Len(s) : s[i].op = op /\ k \in s[i].kinds}
<1>1. WellStaged(s, w)
  BY StageOrder
<1> HIDE DEF s
<1>2. ASSUME NEW k \in Kinds PROVE Cardinality(at("createUpdate", k)) = 1
  <2>1. PICK i \in 1..Len(s) : at("createUpdate", k) = {i}
    BY <1>1 DEF WellStaged
  <2> QED BY <2>1, FS_Singleton
<1>3. ASSUME NEW k \in Kinds, NEW r \in Needs(k)
      PROVE  /\ \A i \in at("createUpdate", k), j \in at("createUpdate", r) : j < i
             /\ \A op \in {"deleteDuplicates", "delete"} : \A i \in at(op, k), j \in at(op, r) : i < j
  BY <1>1 DEF WellStaged
<1>4. InOrder(s)
  BY <1>2, <1>3 DEF InOrder, Needs
<1> QED
  BY <1>4 DEF s

-----------------------------------------------------------------------------
(* Where the producer is in the stages.                                     *)

\* The stages of the run are those of diff().
LEMMA StagesOfRun ==
  ASSUME TypeInv
  PROVE  WellStaged(stages, ~noDeletes) /\ noDeletes \in BOOLEAN /\ stage \in 1..Len(stages) + 1
<1>1. noDeletes \in BOOLEAN /\ stage \in 1..Len(stages) + 1
  BY NoDeletesAssumption DEF TypeInv
<1>2. stages = stagesOfDiff(~noDeletes)
  BY <1>1 DEF stages, stagesOf
<1> QED
  BY <1>1, <1>2, StageOrder

\* Which stages are over, by the operation under way.
PhasesInOrder ==
  /\ Phase \in StageOps /\ (noDeletes => Phase = "createUpdate")
  /\ Phase = "deleteDuplicates" =>
       \A k \in Kinds : ~Passed("createUpdate", k) /\ ~Passed("delete", k)
  /\ Phase = "createUpdate" =>
       \A k \in Kinds : ~Passed("delete", k) /\ (~noDeletes => Passed("deleteDuplicates", k))
  /\ Phase = "delete" =>
       ~noDeletes /\ \A k \in Kinds : Passed("deleteDuplicates", k) /\ Passed("createUpdate", k)
  /\ stage > Len(stages) =>
       \A k \in Kinds : Passed("createUpdate", k) /\ (~noDeletes => Passed("delete", k))

\* The operations come one after the other.
LEMMA PhaseFacts ==
  ASSUME TypeInv PROVE PhasesInOrder
<1> DEFINE n == Len(stages)
<1>1. WellStaged(stages, ~noDeletes) /\ noDeletes \in BOOLEAN /\ stage \in 1..n + 1 /\ n \in Nat
  BY StagesOfRun DEF WellStaged
<1>2. \A i \in 1..n : stages[i].op \in StageOps /\ (noDeletes => stages[i].op = "createUpdate")
  BY <1>1 DEF WellStaged
<1>3. \A i, j \in 1..n : i < j =>
        /\ stages[j].op = "deleteDuplicates" => stages[i].op = "deleteDuplicates"
        /\ stages[i].op = "delete" => stages[j].op = "delete"
  BY <1>1 DEF WellStaged
<1>4. \A k \in Kinds : \E i \in 1..n : stages[i].op = "createUpdate" /\ k \in stages[i].kinds
  BY <1>1 DEF WellStaged
<1>5. ~noDeletes => \A op \in StageOps : \A k \in Kinds : \E i \in 1..n : stages[i].op = op /\ k \in stages[i].kinds
  BY <1>1 DEF WellStaged
<1> HIDE DEF n
<1>6. \A op, k : Passed(op, k) <=> \E i \in 1..n : i < stage /\ stages[i].op = op /\ k \in stages[i].kinds
  BY DEF Passed, n
<1>7. Phase = IF stage \in 1..n THEN stages[stage].op ELSE IF noDeletes THEN "createUpdate" ELSE "delete"
  BY DEF Phase, Op, n
<1>8. stage \in 1..n \/ stage = n + 1
  BY <1>1
<1>9. Phase \in StageOps /\ (noDeletes => Phase = "createUpdate")
  BY <1>1, <1>2, <1>7 DEF StageOps
<1>10. ASSUME Phase = "deleteDuplicates", NEW k \in Kinds
       PROVE  ~Passed("createUpdate", k) /\ ~Passed("delete", k)
  <2>1. stage \in 1..n /\ stages[stage].op = "deleteDuplicates"
    BY <1>1, <1>7, <1>10
  <2>2. \A i \in 1..n : i < stage => stages[i].op = "deleteDuplicates"
    BY <2>1, <1>3
  <2> QED BY <2>2, <1>6
<1>11. ASSUME Phase = "createUpdate", NEW k \in Kinds
       PROVE  ~Passed("delete", k) /\ (~noDeletes => Passed("deleteDuplicates", k))
  <2>1. CASE noDeletes
    BY <2>1, <1>2, <1>6
  <2>2. CASE ~noDeletes
    <3>1. stage \in 1..n /\ stages[stage].op = "createUpdate"
      BY <1>1, <1>7, <1>11, <2>2
    <3>2. \A i \in 1..n : i < stage => stages[i].op # "delete"
      BY <3>1, <1>3
    <3>3. PICK i \in 1..n : stages[i].op = "deleteDuplicates" /\ k \in stages[i].kinds
      BY <2>2, <1>5 DEF StageOps
    <3>4. i < stage
      <4>1. i \in Nat /\ stage \in Nat /\ i # stage
        BY <3>1, <3>3, <1>1
      <4>2. ~(stage < i)
        BY <3>1, <3>3, <1>3
      <4> QED BY <4>1, <4>2
    <3> QED BY <3>2, <3>3, <3>4, <1>6
  <2> QED BY <1>1, <2>1, <2>2
<1>12. ASSUME Phase = "delete"
       PROVE  ~noDeletes /\ \A k \in Kinds : Passed("deleteDuplicates", k) /\ Passed("createUpdate", k)
  <2>1. ~noDeletes
    BY <1>9, <1>12
  <2>2. ASSUME NEW op \in {"deleteDuplicates", "createUpdate"}, NEW k \in Kinds PROVE Passed(op, k)
    <3>1. PICK i \in 1..n : stages[i].op = op /\ k \in stages[i].kinds
      BY <2>1, <1>5 DEF StageOps
    <3>2. i < stage
      <4>1. i \in Nat /\ stage \in Nat
        BY <1>1
      <4>2. CASE stage \in 1..n
        <5>1. stages[stage].op = "delete"
          BY <1>7, <1>12, <4>2
        <5>2. i # stage /\ ~(stage < i)
          BY <5>1, <4>2, <3>1, <1>3
        <5> QED BY <4>1, <5>2
      <4> QED BY <4>1, <4>2, <1>1, <1>8
    <3> QED BY <3>1, <3>2, <1>6
  <2> QED BY <2>1, <2>2
<1>13. ASSUME stage > n, NEW k \in Kinds
       PROVE  Passed("createUpdate", k) /\ (~noDeletes => Passed("delete", k))
  <2>1. \A i \in 1..n : i < stage
    BY <1>1, <1>13
  <2>2. Passed("createUpdate", k)
    BY <2>1, <1>4, <1>6
  <2>3. ~noDeletes => Passed("delete", k)
    BY <2>1, <1>5, <1>6 DEF StageOps
  <2> QED BY <2>2, <2>3
<1> QED
  BY <1>9, <1>10, <1>11, <1>12, <1>13 DEF n, PhasesInOrder

\* The same in the next state.
LEMMA PhaseFactsNext == TypeInv' => PhasesInOrder'
<1>1. TypeInv => PhasesInOrder
  BY PhaseFacts
<1> QED
  BY <1>1, PTL

\* What the stage under way says of the others of its operation.
LEMMA DoingFacts ==
  ASSUME TypeInv, NEW k, Doing(k)
  PROVE  /\ k \in Kinds /\ stage \in 1..Len(stages) /\ stage <= Len(stages) /\ Phase = Op
         /\ ~Passed(Phase, k)
         /\ Phase = "createUpdate" => \A r \in Needs(k) : r \in Kinds => Passed("createUpdate", r)
         /\ Phase # "createUpdate" => \A h \in Kinds : k \in Needs(h) => Passed(Phase, h)
         /\ Phase = "deleteDuplicates" => \A h : Doing(h) /\ h \in Twinned /\ k \in Twinned => h = k
<1> DEFINE n == Len(stages)
<1>1. WellStaged(stages, ~noDeletes) /\ noDeletes \in BOOLEAN /\ stage \in 1..n + 1 /\ n \in Nat
  BY StagesOfRun DEF WellStaged
<1>2. stage \in 1..n /\ k \in stages[stage].kinds /\ Phase = Op /\ Phase = stages[stage].op
  BY DEF Doing, Phase, Op
<1>3. k \in Kinds
  BY <1>1, <1>2 DEF WellStaged
<1>4. \A i, j \in 1..n : \A h \in Kinds :
        stages[i].op = stages[j].op /\ h \in stages[i].kinds /\ h \in stages[j].kinds => i = j
  BY <1>1 DEF WellStaged
<1>5. \A i, j \in 1..n : \A h \in Kinds : \A r \in Needs(h) :
       h \in stages[i].kinds /\ r \in stages[j].kinds /\ stages[i].op = stages[j].op =>
         IF stages[i].op = "createUpdate" THEN j < i ELSE i < j
  BY <1>1 DEF WellStaged
<1>6. \A i \in 1..n : stages[i].op = "deleteDuplicates" =>
       \A h, g \in Twinned : h \in stages[i].kinds /\ g \in stages[i].kinds => h = g
  BY <1>1 DEF WellStaged
<1>7. \A h \in Kinds : \E i \in 1..n : stages[i].op = "createUpdate" /\ h \in stages[i].kinds
  BY <1>1 DEF WellStaged
<1>8. ~noDeletes => \A op \in StageOps : \A h \in Kinds : \E i \in 1..n : stages[i].op = op /\ h \in stages[i].kinds
  BY <1>1 DEF WellStaged
<1>9. Phase \in StageOps /\ (noDeletes => Phase = "createUpdate")
  BY PhaseFacts DEF PhasesInOrder
<1>14. stage <= n
  BY <1>1, <1>2
<1> HIDE DEF n
<1>10. \A op, h : Passed(op, h) <=> \E i \in 1..n : i < stage /\ stages[i].op = op /\ h \in stages[i].kinds
  BY DEF Passed, n
<1>11. ~Passed(Phase, k)
  <2>1. \A i \in 1..n : stages[i].op = Phase /\ k \in stages[i].kinds => i = stage
    BY <1>2, <1>3, <1>4
  <2> QED BY <2>1, <1>1, <1>10
<1>12. ASSUME Phase = "createUpdate", NEW r \in Needs(k), r \in Kinds
       PROVE  Passed("createUpdate", r)
  <2>1. PICK i \in 1..n : stages[i].op = "createUpdate" /\ r \in stages[i].kinds
    BY <1>7, <1>12
  <2>2. i < stage
    BY <2>1, <1>2, <1>3, <1>5, <1>12
  <2> QED BY <2>1, <2>2, <1>10
<1>13. ASSUME Phase # "createUpdate", NEW h \in Kinds, k \in Needs(h)
       PROVE  Passed(Phase, h)
  <2>1. PICK i \in 1..n : stages[i].op = Phase /\ h \in stages[i].kinds
    BY <1>8, <1>9, <1>1, <1>13
  <2>2. i < stage
    BY <2>1, <1>2, <1>5, <1>13
  <2> QED BY <2>1, <2>2, <1>10
<1>15. ASSUME Phase = "deleteDuplicates", NEW h, Doing(h), h \in Twinned, k \in Twinned
       PROVE  h = k
  <2>1. h \in stages[stage].kinds
    BY <1>15 DEF Doing
  <2> QED BY <2>1, <1>2, <1>6, <1>15
<1> QED
  BY <1>2, <1>3, <1>11, <1>12, <1>13, <1>14, <1>15 DEF n

\* A run begins before all stages of the kinds in play.
Started == family \in DOMAIN States /\ noDeletes \in NoDeletes /\ stage \in Following(0)
NothingPassed ==
  /\ stage \in 1..Len(stages) + 1
  /\ \A op : \A k \in InPlay[family] : ~Passed(op, k)

\* The first stage in play is the one a run begins with.
LEMMA StartFacts == Started => NothingPassed
<1> SUFFICES ASSUME Started PROVE NothingPassed
  OBVIOUS
<1> DEFINE n == Len(stages)
           P == stagesInPlay[family][~noDeletes]
<1>1. noDeletes \in BOOLEAN /\ (~noDeletes) \in BOOLEAN
  BY NoDeletesAssumption DEF Started
<1>2. stages = stagesOf[~noDeletes]
  BY DEF stages
<1>3. n \in Nat
  <2>1. WellStaged(stages, ~noDeletes)
    BY <1>1, <1>2, StageOrder DEF stagesOf
  <2> QED BY <2>1 DEF WellStaged
<1>4. P = {i \in 1..n : stages[i].kinds \cap InPlay[family] # {}}
  BY <1>1, <1>2 DEF stagesInPlay, Started
<1>5. stage \in P \cup {n + 1} /\ 0 < stage /\ \A h \in P : 0 < h => stage <= h
  BY DEF Started, Following
<1> HIDE DEF n, P
<1>6. stage \in 1..n + 1
  BY <1>3, <1>4, <1>5
<1>7. ASSUME NEW op, NEW k \in InPlay[family] PROVE ~Passed(op, k)
  <2> SUFFICES ASSUME NEW i \in 1..n, i < stage, k \in stages[i].kinds PROVE FALSE
    BY DEF Passed, n
  <2>1. i \in P
    BY <1>4
  <2> QED BY <2>1, <1>3, <1>5, <1>6
<1> QED
  BY <1>6, <1>7 DEF NothingPassed, n

\* The same in the next state.
LEMMA StartFactsNext == Started' => NothingPassed'
BY StartFacts, PTL

\* Of the kinds in play, only those of the stage that ends are over in addition.
LEMMA NextStageFacts ==
  ASSUME TypeInv, NextStage
  PROVE  /\ stage' \in 1..Len(stages) + 1 /\ stages' = stages
         /\ \A op : \A k \in InPlay[family] :
              Passed(op, k)' <=> Passed(op, k) \/ (Doing(k) /\ Phase = op)
         /\ Phase' = "deleteDuplicates" => Phase = "deleteDuplicates"
         /\ Phase = "delete" => Phase' = "delete"
<1> DEFINE n == Len(stages)
           P == stagesInPlay[family][~noDeletes]
<1>1. noDeletes \in BOOLEAN /\ (~noDeletes) \in BOOLEAN /\ WellStaged(stages, ~noDeletes) /\ n \in Nat
  BY StagesOfRun DEF WellStaged
<1>2. stages = stagesOf[~noDeletes]
  BY DEF stages
<1>3. family' = family /\ noDeletes' = noDeletes /\ stages' = stages /\ stage \in 1..n
  <2>1. family' = family /\ noDeletes' = noDeletes
    BY DEF NextStage, input
  <2>2. stage \in 1..n + 1 /\ stage <= n
    BY StagesOfRun DEF NextStage, Running
  <2> QED BY <1>1, <2>1, <2>2 DEF stages
<1>4. P = {i \in 1..n : stages[i].kinds \cap InPlay[family] # {}}
  BY <1>1, <1>2 DEF stagesInPlay, TypeInv
<1>5. stage' \in P \cup {n + 1} /\ stage < stage' /\ \A h \in P : stage < h => stage' <= h
  BY DEF NextStage, Following
<1>6. Phase = stages[stage].op
  BY <1>3 DEF Phase, Op
<1>7. \A i, j \in 1..n : i < j =>
        /\ stages[j].op = "deleteDuplicates" => stages[i].op = "deleteDuplicates"
        /\ stages[i].op = "delete" => stages[j].op = "delete"
  BY <1>1 DEF WellStaged
<1>8. Phase' = IF stage' \in 1..n THEN stages[stage'].op ELSE IF noDeletes THEN "createUpdate" ELSE "delete"
  BY <1>3 DEF Phase, Op
<1>9. \A op, k : Passed(op, k) <=> \E i \in 1..n : i < stage /\ stages[i].op = op /\ k \in stages[i].kinds
  BY DEF Passed
<1>10. \A op, k : Passed(op, k)' <=> \E i \in 1..n : i < stage' /\ stages[i].op = op /\ k \in stages[i].kinds
  BY <1>3 DEF Passed
<1>11. \A k : Doing(k) <=> k \in stages[stage].kinds
  BY <1>3 DEF Doing
<1>12. noDeletes => Phase = "createUpdate"
  BY PhaseFacts DEF PhasesInOrder
<1> HIDE DEF n, P
<1>13. stage' \in 1..n + 1
  BY <1>1, <1>3, <1>4, <1>5
<1>14. ASSUME NEW op, NEW k \in InPlay[family]
       PROVE  Passed(op, k)' <=> Passed(op, k) \/ (Doing(k) /\ Phase = op)
  <2>1. ASSUME NEW i \in 1..n, i < stage', k \in stages[i].kinds PROVE i < stage \/ i = stage
    <3>1. i \in P
      BY <1>4, <2>1
    <3> QED BY <3>1, <2>1, <1>1, <1>3, <1>5, <1>13
  <2>2. \A i \in 1..n : i < stage => i < stage'
    BY <1>3, <1>5, <1>13
  <2> QED BY <2>1, <2>2, <1>3, <1>5, <1>6, <1>9, <1>10, <1>11
<1>15. Phase' = "deleteDuplicates" => Phase = "deleteDuplicates"
  BY <1>3, <1>5, <1>6, <1>7, <1>8
<1>16. Phase = "delete" => Phase' = "delete"
  BY <1>3, <1>5, <1>6, <1>7, <1>8, <1>12
<1> QED
  BY <1>3, <1>13, <1>14, <1>15, <1>16 DEF n

\* What only a change of the inputs or of the stage changes.
LEMMA Frame ==
  ASSUME UNCHANGED <<input, stage>>
  PROVE  /\ Phase' = Phase /\ Entities' = Entities
         /\ \A op, k : Passed(op, k)' <=> Passed(op, k)
         /\ \A k : Doing(k)' <=> Doing(k)
         /\ DuplicatesDeletes(before)' = DuplicatesDeletes(before)
         /\ DuplicatesOfRun' = DuplicatesOfRun /\ Remaining' = Remaining /\ Expected' = Expected
<1>1. /\ family' = family /\ before' = before /\ target' = target /\ dry' = dry
      /\ noDeletes' = noDeletes /\ stage' = stage
  BY DEF input
<1>2. stages' = stages
  BY <1>1 DEF stages
<1>3. Phase' = Phase /\ Entities' = Entities
  BY <1>1, <1>2 DEF Phase, Op, Entities
<1>4. \A op, k : Passed(op, k)' <=> Passed(op, k)
  BY <1>1, <1>2 DEF Passed
<1>5. \A k : Doing(k)' <=> Doing(k)
  BY <1>1, <1>2 DEF Doing
<1>6. DuplicatesDeletes(before)' = DuplicatesDeletes(before)
  BY <1>1 DEF DuplicatesDeletes
<1>7. DuplicatesOfRun' = DuplicatesOfRun
  BY <1>1, <1>6 DEF DuplicatesOfRun
<1>8. Remaining' = Remaining
  BY <1>1, <1>7 DEF Remaining
<1>9. Expected' = Expected
  BY <1>1, <1>7, <1>8 DEF Expected
<1> QED
  BY <1>3, <1>4, <1>5, <1>6, <1>7, <1>8, <1>9

-----------------------------------------------------------------------------
(* The entities, the lookups and the duplicates.                            *)

\* What the assumptions say of the entities of the family.
LEMMA EntityFacts ==
  ASSUME family \in DOMAIN States
  PROVE  /\ InPlay[family] # {} /\ InPlay[family] \subseteq Kinds
         /\ \A e \in Entities : e.kind \in InPlay[family] /\ e.kind \in Kinds
         /\ \A S \in States[family] : S \subseteq Entities /\ Legal(S)
         /\ \A e, g \in Entities : e.id = g.id => e.kind = g.kind
         /\ \A x, e \in Entities : e.id \in x.refs =>
              e.kind \in differOf[x.kind].refs
         /\ \A x, e \in Entities : e.id \in x.refs \cup x.uses => e.kind \in Needs(x.kind)
         /\ \A x, e, g \in Entities : e.id \in x.refs /\ g.id \in x.refs /\ g.kind = e.kind => g.id = e.id
<1>1. InPlay[family] # {} /\ InPlay[family] \subseteq Kinds
  BY FamiliesAssumption
<1>2. InPlay[family] = {e.kind : e \in Entities}
  BY DEF InPlay, Entities
<1>3. \A S \in States[family] : S \subseteq Entities /\ Legal(S)
  BY LegalAssumption DEF Entities
<1>4. \A e, g \in Entities : e.id = g.id => e.kind = g.kind
  BY IdsAssumption DEF Entities
<1>5. WellReferenced(Entities)
  BY ReferencesAssumption DEF Entities
<1>6. \A x, e \in Entities : e.id \in x.refs =>
              e.kind \in differOf[x.kind].refs
  BY <1>5 DEF WellReferenced
<1>7. \A x, e, g \in Entities : e.id \in x.refs /\ g.id \in x.refs /\ g.kind = e.kind => g.id = e.id
  BY <1>5 DEF WellReferenced
<1>8. \A x, e \in Entities : e.id \in x.refs \cup x.uses => e.kind \in Needs(x.kind)
  BY <1>5 DEF WellReferenced, Needs
<1> QED
  BY <1>1, <1>2, <1>3, <1>4, <1>6, <1>7, <1>8

SameId(S, e) == {f \in S : f.id = e.id}

\* The lookups of the differs and of the collections find the entity of the id.
LEMMA LookupFacts ==
  ASSUME family \in DOMAIN States, NEW S, S \subseteq Entities, NEW e \in Entities
  PROVE  /\ Lookup(S, differOf[e.kind].finds, e) = SameId(S, e)
         /\ differOf[e.kind].deletes # "never"
         /\ Lookup(S, differOf[e.kind].deletes, e) = SameId(S, e)
         /\ WithId(S, e) = SameId(S, e)
<1>1. \A g \in Entities : e.id = g.id => e.kind = g.kind
  BY EntityFacts
<1>2. \A g \in Entities : g.kind = e.kind =>
        /\ differOf[e.kind].deletes # "never"
        /\ KeyOf(differOf[e.kind].finds, e) = KeyOf(differOf[e.kind].finds, g) <=> e.id = g.id
        /\ KeyOf(differOf[e.kind].deletes, e) = KeyOf(differOf[e.kind].deletes, g) <=> e.id = g.id
  BY IdentityAssumption DEF Entities
<1>3. Lookup(S, differOf[e.kind].finds, e) = SameId(S, e)
  BY <1>1, <1>2 DEF Lookup, OfKind, SameId
<1>4. differOf[e.kind].deletes # "never"
  BY <1>2
<1>5. Lookup(S, differOf[e.kind].deletes, e) = SameId(S, e)
  BY <1>1, <1>2 DEF Lookup, OfKind, SameId
<1>6. WithId(S, e) = SameId(S, e)
  <2>1. \A g : KeyOf("id", g) = <<g.id>>
    BY DEF KeyOf
  <2>2. \A g : KeyOf("id", g) = KeyOf("id", e) <=> g.id = e.id
    BY <2>1
  <2> QED BY <1>1, <2>2 DEF WithId, Lookup, OfKind, SameId
<1> QED
  BY <1>3, <1>4, <1>5, <1>6

\* The collections of the kinds with duplicates look an entity up by its name.
LEMMA TwinnedCollections ==
  ASSUME NEW k \in Twinned PROVE k \in Kinds /\ collectionOf[k].second = "name"
<1>1. k \in Kinds
  BY KindsOfAll, LevelKinds DEF Twinned
<1>2. \A c \in KongState : c.kind \in Twinned => c.second = "name"
  BY SMTT(60) DEF Twinned, KongState, collection, servicesCollection, routesCollection,
    upstreamsCollection, targetsCollection, certificatesCollection, caCertificatesCollection,
    snisCollection, pluginsCollection, filterChainsCollection, consumersCollection,
    consumerGroupsCollection, consumerGroupConsumersCollection,
    consumerGroupPluginsCollection, keyAuthsCollection, hmacAuthsCollection,
    jwtAuthsCollection, basicAuthsCollection, oauth2CredsCollection,
    aclGroupsCollection, mtlsAuthsCollection, rbacRolesCollection,
    rbacEndpointPermissionsCollection, vaultsCollection, licensesCollection,
    partialsCollection, keysCollection, keySetsCollection,
    clonedPluginDefinitionsCollection, customPluginDefinitionsCollection,
    degraphqlRoutesCollection, graphqlRateLimitingCostDecorationsCollection,
    servicePackagesCollection, serviceVersionsCollection, documentsCollection
<1>3. \E c \in KongState : c.kind = k
  <2>1. servicesCollection \in KongState /\ routesCollection \in KongState /\ consumersCollection \in KongState
    BY DEF KongState
  <2>2. servicesCollection.kind = "service" /\ routesCollection.kind = "route" /\ consumersCollection.kind = "consumer"
    BY DEF servicesCollection, routesCollection, consumersCollection, collection
  <2> QED BY <2>1, <2>2 DEF Twinned
<1>4. collectionOf[k] \in KongState /\ collectionOf[k].kind = k
  BY <1>1, <1>3 DEF collectionOf
<1> QED
  BY <1>1, <1>2, <1>4

\* What a lookup of a unique key finds.
TakenBy(key, f, e) == ~Missing(key, e) /\ KeyOf(key, f) = KeyOf(key, e)
UniqueKeys(k) == {collectionOf[k].second, collectionOf[k].third}

LEMMA TakenFacts ==
  ASSUME NEW S, NEW e, NEW f
  PROVE  f \in Taken(S, e) <=> f \in S /\ f.kind = e.kind /\ \E key \in UniqueKeys(e.kind) : TakenBy(key, f, e)
BY DEF Taken, OfKind, UniqueKeys, TakenBy

\* Two entities take each other's keys.
LEMMA TakenSymmetric ==
  ASSUME NEW S, NEW T, NEW e \in T, NEW f \in Taken(S, e)
  PROVE  e \in Taken(T, f)
<1>1. PICK key \in UniqueKeys(e.kind) : TakenBy(key, f, e)
  BY TakenFacts
<1>2. f.kind = e.kind
  BY TakenFacts
<1>3. ~Missing(key, f)
  <2>1. ~Missing(key, e) /\ KeyOf(key, f) = KeyOf(key, e)
    BY <1>1 DEF TakenBy
  <2>2. ASSUME key = "name" PROVE f.name = e.name
    <3>1. KeyOf("name", f) = <<f.name>> /\ KeyOf("name", e) = <<e.name>>
      BY DEF KeyOf
    <3> QED BY <2>1, <2>2, <3>1
  <2>3. ASSUME key = "custom" PROVE f.custom = e.custom
    <3>1. KeyOf("custom", f) = <<f.custom>> /\ KeyOf("custom", e) = <<e.custom>>
      BY DEF KeyOf
    <3> QED BY <2>1, <2>3, <3>1
  <2> QED BY <2>1, <2>2, <2>3 DEF Missing
<1>4. TakenBy(key, e, f)
  BY <1>1, <1>3 DEF TakenBy
<1> QED
  BY <1>1, <1>2, <1>4, TakenFacts

\* What the name or the custom_id of t finds.
Named(S, t) == {c \in S : c.kind = t.kind /\ HasNameOf(c, t)}

LEMMA NameTwinsFacts ==
  ASSUME NEW S, NEW t, NEW c
  PROVE  c \in NameTwins(S, t) <=>
           /\ differOf[t.kind].duplicates /\ c \in S /\ c.kind = t.kind /\ c.id # t.id
           /\ HasNameOf(c, t) \/ (Named(S, t) = {} /\ HasCustomOf(c, t))
BY DEF NameTwins, OfKind, Named

\* What the differs find as duplicates may be one, and is in the dump.
LEMMA DuplicatesFacts ==
  ASSUME family \in DOMAIN States, before \subseteq Entities, target \in States[family]
  PROVE  \A d \in DuplicatesDeletes(before) :
           /\ d.obj \in before /\ d.by \in InPlay[family] /\ d.obj.kind \in Twinned
           /\ MayBeDuplicate(d.obj, Entities)
<1> SUFFICES ASSUME NEW d \in DuplicatesDeletes(before)
             PROVE  /\ d.obj \in before /\ d.by \in InPlay[family] /\ d.obj.kind \in Twinned
                    /\ MayBeDuplicate(d.obj, Entities)
  OBVIOUS
<1>1. PICK t \in target :
        \/ d \in {[by |-> t.kind, obj |-> c] : c \in NameTwins(before, t)}
        \/ d \in {[by |-> "service", obj |-> r] :
               r \in {r \in OfKind("route", before) :
                        t.kind = "service" /\ \E c \in NameTwins(before, t) : c.id \in r.refs}}
  BY DEF DuplicatesDeletes
<1>2. t \in Entities /\ t.kind \in InPlay[family] /\ t.kind \in Kinds
  BY EntityFacts
<1>3. CASE d \in {[by |-> t.kind, obj |-> c] : c \in NameTwins(before, t)}
  <2>1. PICK c \in NameTwins(before, t) : d = [by |-> t.kind, obj |-> c]
    BY <1>3
  <2>2. differOf[t.kind].duplicates
    BY DEF NameTwins
  <2>3. c \in before /\ c.kind = t.kind /\ (HasNameOf(c, t) \/ HasCustomOf(c, t)) /\ c.id # t.id
    BY NameTwinsFacts
  <2>4. t.kind \in Twinned
    BY <2>2, <1>2, KindsWithDuplicates DEF Twinned
  <2> QED BY <1>2, <2>1, <2>2, <2>3, <2>4 DEF MayBeDuplicate
<1>4. CASE d \in {[by |-> "service", obj |-> r] :
               r \in {r \in OfKind("route", before) :
                        t.kind = "service" /\ \E c \in NameTwins(before, t) : c.id \in r.refs}}
  <2>1. PICK r \in OfKind("route", before) : d = [by |-> "service", obj |-> r] /\ t.kind = "service"
    BY <1>4
  <2>2. r \in before /\ r.kind = "route"
    BY DEF OfKind
  <2> QED BY <1>2, <2>1, <2>2 DEF MayBeDuplicate, Twinned
<1> QED
  BY <1>1, <1>3, <1>4

\* The duplicates of a run: with a service go its routes, and what is found by the name
\* or custom_id of a target entity is one.
LEMMA DuplicatesOfRunFacts ==
  ASSUME family \in DOMAIN States, before \subseteq Entities, target \in States[family]
  PROVE  /\ \A x \in DuplicatesOfRun : /\ x \in before /\ x \in Entities /\ x.kind \in Twinned
                                       /\ MayBeDuplicate(x, Entities) /\ ~noDeletes
         /\ ~noDeletes => \A d \in DuplicatesDeletes(before) : d.obj \in DuplicatesOfRun
         /\ \A x \in DuplicatesOfRun : \E d \in DuplicatesDeletes(before) : d.obj = x
         /\ ~noDeletes => \A t \in target : NameTwins(before, t) \subseteq DuplicatesOfRun
         /\ \A x \in DuplicatesOfRun, r \in before :
              x.kind = "service" /\ r.kind = "route" /\ x.id \in r.refs => r \in DuplicatesOfRun
<1>1. /\ ~noDeletes => DuplicatesOfRun = {d.obj : d \in DuplicatesDeletes(before)}
      /\ noDeletes => DuplicatesOfRun = {}
  BY DEF DuplicatesOfRun
<1>2. \A x \in DuplicatesOfRun : ~noDeletes /\ \E d \in DuplicatesDeletes(before) : d.obj = x
  BY <1>1
<1>3. \A x \in DuplicatesOfRun : /\ x \in before /\ x \in Entities /\ x.kind \in Twinned
                                 /\ MayBeDuplicate(x, Entities) /\ ~noDeletes
  BY <1>2, DuplicatesFacts
<1>4. ASSUME ~noDeletes, NEW t \in target, NEW c \in NameTwins(before, t)
      PROVE  c \in DuplicatesOfRun
  <2>1. [by |-> t.kind, obj |-> c] \in DuplicatesDeletes(before)
    BY DEF DuplicatesDeletes
  <2>2. [by |-> t.kind, obj |-> c].obj = c
    OBVIOUS
  <2> QED BY <1>1, <1>4, <2>1, <2>2
<1>5. ASSUME NEW x \in DuplicatesOfRun, NEW r \in before,
             x.kind = "service" /\ r.kind = "route" /\ x.id \in r.refs
      PROVE  r \in DuplicatesOfRun
  <2>1. PICK d \in DuplicatesDeletes(before) : d.obj = x
    BY <1>2
  <2>2. PICK t \in target :
        \/ d \in {[by |-> t.kind, obj |-> c] : c \in NameTwins(before, t)}
        \/ d \in {[by |-> "service", obj |-> h] :
               h \in {h \in OfKind("route", before) :
                        t.kind = "service" /\ \E c \in NameTwins(before, t) : c.id \in h.refs}}
    BY <2>1 DEF DuplicatesDeletes
  <2>3. ~(d \in {[by |-> "service", obj |-> h] :
               h \in {h \in OfKind("route", before) :
                        t.kind = "service" /\ \E c \in NameTwins(before, t) : c.id \in h.refs}})
    BY <1>5, <2>1 DEF OfKind
  <2>4. x \in NameTwins(before, t)
    BY <2>1, <2>2, <2>3
  <2>5. t.kind = "service"
    BY <1>5, <2>4 DEF NameTwins, OfKind
  <2>6. r \in {h \in OfKind("route", before) :
                        t.kind = "service" /\ \E c \in NameTwins(before, t) : c.id \in h.refs}
    BY <1>5, <2>4, <2>5 DEF OfKind
  <2>7. [by |-> "service", obj |-> r] \in DuplicatesDeletes(before)
    BY <2>6 DEF DuplicatesDeletes
  <2>8. [by |-> "service", obj |-> r].obj = r
    OBVIOUS
  <2> QED BY <1>1, <1>2, <2>7, <2>8
<1> QED
  BY <1>1, <1>2, <1>3, <1>4, <1>5

-----------------------------------------------------------------------------
(* The types: what holds whatever has failed.                               *)

\* How a run begins.
Start ==
  /\ Started
  /\ before \subseteq Entities /\ UniqueIds(before) /\ target \in States[family] /\ dry \in BOOLEAN
  /\ kong = before /\ current = before
  /\ entered = FALSE /\ todo = {} /\ alreadyDeleted = {}
  /\ inFlight = {} /\ plan = {} /\ errs = {} /\ halted = FALSE

\* The initial states are starts of a run.
LEMMA InitStarts == Init => Start
<1> SUFFICES ASSUME Init PROVE Start
  OBVIOUS
<1>1. before \subseteq Entities /\ UniqueIds(before)
  BY EntityFacts DEF Init, Legal
<1> QED
  BY <1>1 DEF Init, Start, Started

\* So are the states after a rerun.
LEMMA RerunStarts == TypeInv /\ Rerun => Start'
<1> SUFFICES ASSUME TypeInv, Rerun PROVE Start'
  OBVIOUS
<1>1. /\ family' = family /\ noDeletes' = noDeletes /\ target' = target /\ dry' = dry
      /\ before' = kong /\ kong' = kong /\ current' = kong
      /\ inFlight' = inFlight /\ inFlight = {}
      /\ stage' \in Following(0) /\ entered' = FALSE /\ todo' = {} /\ alreadyDeleted' = {}
      /\ plan' = {} /\ errs' = {} /\ halted' = FALSE
  BY DEF Rerun, Finished
<1>2. Following(0)' = Following(0)
  BY <1>1 DEF Following, stages
<1>3. Started'
  BY <1>1, <1>2 DEF Started, TypeInv
<1>4. Entities' = Entities
  BY <1>1 DEF Entities
<1>5. before' \subseteq Entities'
  BY <1>1, <1>4, EntityFacts DEF TypeInv
<1>6. UniqueIds(before')
  BY <1>1 DEF TypeInv
<1> QED
  BY <1>1, <1>3, <1>5, <1>6 DEF Start, TypeInv

\* The types hold at the start.
LEMMA StartTyped == Start => TypeInv
<1> SUFFICES ASSUME Start PROVE TypeInv
  OBVIOUS
<1>1. stage \in 1..Len(stages) + 1
  BY StartFacts DEF Start, NothingPassed
<1> QED
  BY <1>1 DEF Start, Started, TypeInv

\* What an action has to keep that leaves the inputs and the stage alone.
LEMMA TypedStep ==
  ASSUME TypeInv, UNCHANGED <<input, stage>>,
         kong' \cup current' \subseteq before \cup target,
         UniqueIds(kong'), UniqueIds(current'), entered' \in BOOLEAN,
         ~entered' \/ stage > Len(stages) => inFlight' = {} /\ todo' = {},
         \A d \in todo' : TodoOK(d),
         \A ev \in inFlight' : EventOK(ev),
         alreadyDeleted' \subseteq {e.id : e \in before},
         \A c \in plan' : IF c.op = "delete" THEN c.obj \in before
                                             ELSE c.op \in {"create", "update"} /\ c.obj \in target,
         errs' \subseteq {"failed", "rejected", "post"}, halted' \in BOOLEAN,
         halted' => errs' # {}, dry => kong' = before
  PROVE  TypeInv'
<1>1. /\ family' = family /\ before' = before /\ target' = target /\ dry' = dry
      /\ noDeletes' = noDeletes /\ stage' = stage /\ stages' = stages
  BY DEF input, stages
<1>2. /\ Phase' = Phase /\ Entities' = Entities /\ \A k : Doing(k)' <=> Doing(k)
      /\ DuplicatesDeletes(before)' = DuplicatesDeletes(before)
  BY Frame
<1>3. ASSUME NEW d \in todo' PROVE TodoOK(d)'
  <2>1. TodoOK(d)
    OBVIOUS
  <2> QED BY <1>1, <1>2, <2>1 DEF TodoOK
<1>4. ASSUME NEW ev \in inFlight' PROVE EventOK(ev)'
  <2>1. EventOK(ev)
    OBVIOUS
  <2>2. Event' = Event
    BY <1>1, <1>2 DEF Event
  <2> QED BY <1>1, <1>2, <2>1, <2>2 DEF EventOK
<1>5. /\ family' \in DOMAIN States /\ target' \in States[family'] /\ before' \subseteq Entities'
      /\ dry' \in BOOLEAN /\ noDeletes' \in NoDeletes /\ UniqueIds(before')
      /\ stage' \in 1..Len(stages') + 1
  BY <1>1, <1>2 DEF TypeInv
<1> QED
  BY <1>1, <1>3, <1>4, <1>5 DEF TypeInv

\* Wherever a step takes an event or an entity, a stage is under way.
LEMMA Underway ==
  ASSUME TypeInv
  PROVE  /\ \A d \in todo : entered /\ stage <= Len(stages) /\ TodoOK(d)
         /\ \A ev \in inFlight : entered /\ stage <= Len(stages) /\ EventOK(ev)
         /\ current \subseteq Entities /\ kong \subseteq Entities /\ target \subseteq Entities
         /\ before \subseteq Entities /\ UniqueIds(target) /\ family \in DOMAIN States
         /\ stage \in Nat /\ Len(stages) \in Nat
<1>1. stage \in Nat /\ Len(stages) \in Nat
  BY StagesOfRun DEF WellStaged
<1>2. target \subseteq Entities /\ UniqueIds(target)
  BY EntityFacts DEF TypeInv, Legal
<1>3. current \subseteq Entities /\ kong \subseteq Entities
  BY <1>2 DEF TypeInv
<1> QED
  BY <1>1, <1>2, <1>3 DEF TypeInv

\* The types hold when a differ has read what it looks at.
LEMMA EnterStageTyped == ASSUME TypeInv, EnterStage PROVE TypeInv'
<1>1. /\ Running /\ ~entered /\ entered' = TRUE
      /\ UNCHANGED <<input, stage>> /\ kong' = kong /\ current' = current
      /\ alreadyDeleted' = alreadyDeleted /\ inFlight' = inFlight /\ plan' = plan
      /\ errs' = errs /\ halted' = halted
  BY DEF EnterStage
<1>2. stage \in 1..Len(stages) /\ stage <= Len(stages) /\ ~(stage > Len(stages))
  BY <1>1, StagesOfRun DEF Running, WellStaged
<1>3. Phase = Op /\ \A k : Doing(k) <=> k \in stages[stage].kinds
  BY <1>2 DEF Phase, Doing
<1>4. inFlight = {}
  BY <1>1 DEF TypeInv
<1>5. ASSUME NEW d \in todo' PROVE TodoOK(d)
  <2>1. CASE Phase = "deleteDuplicates"
    <3>1. d \in DuplicatesDeletes(before) /\ d.obj.kind \in stages[stage].kinds
      BY <1>3, <2>1 DEF EnterStage
    <3>2. d.by \in InPlay[family]
      BY <3>1, DuplicatesFacts DEF TypeInv
    <3> QED BY <1>3, <2>1, <3>1, <3>2 DEF TodoOK
  <2>2. CASE Phase = "createUpdate"
    <3>1. PICK t \in target : d = [by |-> t.kind, obj |-> t] /\ t.kind \in stages[stage].kinds
      BY <1>3, <2>2 DEF EnterStage
    <3>2. t.kind \in InPlay[family]
      BY Underway, EntityFacts
    <3>3. d.by = t.kind /\ d.obj = t
      BY <3>1
    <3> QED BY <1>3, <2>2, <3>1, <3>2, <3>3 DEF TodoOK
  <2>3. CASE Phase = "delete"
    <3>1. PICK c \in current : d = [by |-> c.kind, obj |-> c] /\ c.kind \in stages[stage].kinds
      BY <1>3, <2>3 DEF EnterStage
    <3>2. c.kind \in InPlay[family] /\ c \in before \cup target
      BY Underway, EntityFacts DEF TypeInv
    <3>3. d.by = c.kind /\ d.obj = c
      BY <3>1
    <3> QED BY <1>3, <2>3, <3>1, <3>2, <3>3 DEF TodoOK
  <2> QED
    BY <2>1, <2>2, <2>3, PhaseFacts DEF PhasesInOrder, StageOps
<1>6. \A ev \in inFlight' : EventOK(ev)
  BY <1>1, <1>4
<1>7. ~(~entered' \/ stage > Len(stages))
  BY <1>1, <1>2
<1>8. /\ kong' \cup current' \subseteq before \cup target
      /\ UniqueIds(kong') /\ UniqueIds(current') /\ entered' \in BOOLEAN
      /\ alreadyDeleted' \subseteq {e.id : e \in before}
      /\ \A c \in plan' : IF c.op = "delete" THEN c.obj \in before
                                             ELSE c.op \in {"create", "update"} /\ c.obj \in target
      /\ errs' \subseteq {"failed", "rejected", "post"} /\ halted' \in BOOLEAN
      /\ halted' => errs' # {}
      /\ dry => kong' = before
  BY <1>1 DEF TypeInv
<1> QED
  BY <1>1, <1>5, <1>6, <1>7, <1>8, TypedStep

\* The types hold when a stage has been waited for.
LEMMA NextStageTyped == ASSUME TypeInv, NextStage PROVE TypeInv'
<1>1. /\ family' = family /\ before' = before /\ target' = target /\ dry' = dry
      /\ noDeletes' = noDeletes /\ entered' = FALSE /\ todo = {} /\ inFlight = {}
      /\ todo' = todo /\ inFlight' = inFlight /\ alreadyDeleted' = alreadyDeleted
      /\ kong' = kong /\ current' = current /\ plan' = plan /\ errs' = errs /\ halted' = halted
  BY DEF NextStage, input
<1>2. stage' \in 1..Len(stages) + 1 /\ stages' = stages
  BY NextStageFacts
<1>3. Entities' = Entities
  BY <1>1 DEF Entities
<1>4. (\A d \in todo' : TodoOK(d)') /\ (\A ev \in inFlight' : EventOK(ev)')
  BY <1>1
<1> QED
  BY <1>1, <1>2, <1>3, <1>4 DEF TypeInv

\* The step of a differ that looks at what it has read.
LEMMA TakeTyped ==
  ASSUME TypeInv, NEW d \in todo, Take(d),
         alreadyDeleted' \subseteq alreadyDeleted \cup {d.obj.id},
         Phase # "deleteDuplicates" => alreadyDeleted' = alreadyDeleted,
         \/ UNCHANGED <<inFlight, plan>>
         \/ Phase = "createUpdate" /\ (Queue("create", d) \/ Queue("update", d))
         \/ Phase # "createUpdate" /\ Queue("delete", d) /\ d.obj \in before
  PROVE  TypeInv'
<1>1. /\ UNCHANGED <<input, stage>> /\ kong' = kong /\ current' = current
      /\ todo' = todo \ {d} /\ entered' = entered /\ errs' = errs /\ halted' = halted
  BY DEF Take
<1>2. entered /\ stage <= Len(stages) /\ ~(stage > Len(stages)) /\ TodoOK(d)
  BY Underway
<1>3. Doing(d.obj.kind)
  BY <1>2 DEF TodoOK
<1>4. \A other \in todo' : TodoOK(other)
  BY <1>1, Underway
<1>5. ASSUME NEW ev \in inFlight' PROVE EventOK(ev)
  <2>1. CASE ev \in inFlight
    BY <2>1, Underway
  <2>2. CASE ev \notin inFlight
    <3>1. \E op \in {"create", "update", "delete"} :
            /\ Queue(op, d)
            /\ IF op = "delete" THEN Phase # "createUpdate" /\ d.obj \in before ELSE Phase = "createUpdate"
      BY <2>2
    <3>2. PICK op \in {"create", "update", "delete"} :
            /\ Queue(op, d)
            /\ IF op = "delete" THEN Phase # "createUpdate" /\ d.obj \in before ELSE Phase = "createUpdate"
      BY <3>1
    <3>3. ev = [op |-> op, by |-> d.by, obj |-> d.obj, pc |-> "queued", rest |-> <<>>, victims |-> {}]
      BY <2>2, <3>2 DEF Queue
    <3>4. /\ ev.op = op /\ ev.obj = d.obj /\ ev.pc = "queued" /\ ev.rest = <<>> /\ ev.victims = {}
      BY <3>3
    <3>5. Phase = "createUpdate" => d.obj \in target
      BY <1>2 DEF TodoOK
    <3>6. <<>> \in Rests /\ Len(<<>>) = 0
      BY DEF Rests
    <3>7. ev \in Event
      <4>1. d.by \in InPlay[family] /\ d.obj \in Entities
        BY <1>2, <3>2, <3>5, Underway DEF TodoOK
      <4> QED BY <3>3, <3>6, <4>1 DEF Event, Ops
    <3> QED BY <1>3, <3>2, <3>4, <3>5, <3>6, <3>7 DEF EventOK
  <2> QED BY <2>1, <2>2
<1>6. \A c \in plan' : IF c.op = "delete" THEN c.obj \in before
                                           ELSE c.op \in {"create", "update"} /\ c.obj \in target
  <2>1. \A c \in plan : IF c.op = "delete" THEN c.obj \in before
                                           ELSE c.op \in {"create", "update"} /\ c.obj \in target
    BY DEF TypeInv
  <2>2. Phase = "createUpdate" => d.obj \in target
    BY <1>2 DEF TodoOK
  <2> QED BY <2>1, <2>2 DEF Queue
<1>7. alreadyDeleted' \subseteq {e.id : e \in before}
  <2>1. alreadyDeleted \subseteq {e.id : e \in before}
    BY DEF TypeInv
  <2>2. CASE Phase = "deleteDuplicates"
    <3>1. d.obj \in before
      BY <1>2, <2>2, DuplicatesFacts DEF TodoOK, TypeInv
    <3> QED BY <2>1, <3>1
  <2> QED BY <2>1, <2>2
<1>8. /\ kong' \cup current' \subseteq before \cup target
      /\ UniqueIds(kong') /\ UniqueIds(current') /\ entered' \in BOOLEAN
      /\ errs' \subseteq {"failed", "rejected", "post"} /\ halted' \in BOOLEAN
      /\ halted' => errs' # {}
      /\ dry => kong' = before
  BY <1>1 DEF TypeInv
<1>9. ~(~entered' \/ stage > Len(stages))
  BY <1>1, <1>2
<1> QED
  BY <1>1, <1>4, <1>5, <1>6, <1>7, <1>8, <1>9, TypedStep

\* The types hold when a duplicate has been looked at.
LEMMA QueueDuplicateTyped == ASSUME TypeInv, NEW d \in todo, QueueDuplicate(d) PROVE TypeInv'
<1>1. Take(d) /\ Op = "deleteDuplicates"
  BY DEF QueueDuplicate
<1>2. TodoOK(d) /\ Phase = Op
  BY Underway, DoingFacts DEF TodoOK
<1>3. d.obj \in before
  BY <1>1, <1>2, DuplicatesFacts DEF TodoOK, TypeInv
<1>4. \/ UNCHANGED <<inFlight, plan, alreadyDeleted>>
      \/ Queue("delete", d) /\ alreadyDeleted' = alreadyDeleted \cup {d.obj.id}
  BY DEF QueueDuplicate
<1> QED
  BY <1>1, <1>2, <1>3, <1>4, TakeTyped

\* The types hold when a target entity has been looked at.
LEMMA CreateOrUpdateTyped == ASSUME TypeInv, NEW d \in todo, CreateOrUpdate(d) PROVE TypeInv'
<1>1. Take(d) /\ Op = "createUpdate" /\ alreadyDeleted' = alreadyDeleted
  BY DEF CreateOrUpdate
<1>2. TodoOK(d) /\ Phase = Op
  BY Underway, DoingFacts DEF TodoOK
<1>3. UNCHANGED <<inFlight, plan>> \/ Queue("create", d) \/ Queue("update", d)
  BY DEF CreateOrUpdate
<1> QED
  BY <1>1, <1>2, <1>3, TakeTyped

\* What is wanted is there to be found: only entities of the dump are deleted.
LEMMA DeleteUnlessWantedTyped == ASSUME TypeInv, NEW d \in todo, DeleteUnlessWanted(d) PROVE TypeInv'
<1>1. Take(d) /\ Op = "delete" /\ alreadyDeleted' = alreadyDeleted
  BY DEF DeleteUnlessWanted
<1>2. TodoOK(d) /\ Phase = Op
  BY Underway, DoingFacts DEF TodoOK
<1>3. d.obj \in before \cup target /\ d.obj \in Entities
  BY <1>1, <1>2, Underway DEF TodoOK
<1>4. ASSUME ~UNCHANGED <<inFlight, plan>> PROVE Queue("delete", d) /\ d.obj \in before
  <2>1. Queue("delete", d) /\ Lookup(target, differOf[d.obj.kind].deletes, d.obj) = {}
    BY <1>4 DEF DeleteUnlessWanted
  <2>2. SameId(target, d.obj) = {}
    BY <1>3, <2>1, Underway, LookupFacts
  <2>3. d.obj \notin target
    BY <2>2 DEF SameId
  <2> QED BY <1>3, <2>1, <2>3
<1> QED
  BY <1>1, <1>2, <1>4, TakeTyped

\* The step of an event.
LEMMA EventTyped ==
  ASSUME TypeInv, NEW ev \in inFlight, UNCHANGED <<input, producer, plan>>,
         \A other \in inFlight' : other \in inFlight \/ EventOK(other),
         kong' \cup current' \subseteq before \cup target,
         UniqueIds(kong'), UniqueIds(current'),
         errs \subseteq errs', errs' \subseteq errs \cup {"failed", "rejected", "post"},
         halted' = halted, dry => kong' = before
  PROVE  TypeInv'
<1>1. /\ UNCHANGED <<input, stage>> /\ todo' = todo /\ entered' = entered /\ plan' = plan
      /\ alreadyDeleted' = alreadyDeleted
  BY DEF producer
<1>2. entered /\ stage <= Len(stages) /\ ~(stage > Len(stages))
  BY Underway
<1>3. (\A d \in todo' : TodoOK(d)) /\ (\A other \in inFlight' : EventOK(other))
  BY <1>1, Underway
<1>4. ~(~entered' \/ stage > Len(stages))
  BY <1>1, <1>2
<1>5. errs' \subseteq {"failed", "rejected", "post"} /\ (halted' => errs' # {})
  BY DEF TypeInv
<1>6. /\ entered' \in BOOLEAN /\ alreadyDeleted' \subseteq {e.id : e \in before}
      /\ \A c \in plan' : IF c.op = "delete" THEN c.obj \in before
                                             ELSE c.op \in {"create", "update"} /\ c.obj \in target
      /\ halted' \in BOOLEAN
  BY <1>1 DEF TypeInv
<1> QED
  BY <1>1, <1>3, <1>4, <1>5, <1>6, TypedStep

\* What the post-processing of a delete cascades to.
LEMMA Cascades ==
  ASSUME NEW k \in Kinds
  PROVE  /\ PostActionCascades[k] \in Rests
         /\ \A i \in 1..Len(PostActionCascades[k]) : PostActionCascades[k][i] \in PostCascadesTo(k)
         /\ \A x \in PostCascadesTo(k) : \E i \in 1..Len(PostActionCascades[k]) : PostActionCascades[k][i] = x
         /\ PostCascadesTo(k) \subseteq {"plugin", "filter-chain"}
<1>1. PostActionCascades[k] \in {<<>>, <<"plugin">>, <<"plugin", "filter-chain">>}
  BY DEF PostActionCascades
<1>2. PostActionCascades[k] \in Rests
  BY <1>1 DEF Rests
<1>3. DOMAIN PostActionCascades[k] = 1..Len(PostActionCascades[k])
  BY <1>1
<1>4. PostCascadesTo(k) \subseteq {"plugin", "filter-chain"}
  BY <1>1 DEF PostCascadesTo
<1> QED
  BY <1>2, <1>3, <1>4 DEF PostCascadesTo

\* The types of the fields of an event.
LEMMA EventFields ==
  ASSUME TypeInv, NEW ev, EventOK(ev)
  PROVE  /\ ev \in Event /\ ev.op \in Ops /\ ev.obj \in Entities /\ ev.pc \in {"queued", "answered"}
         /\ ev.rest \in Rests /\ ev.victims \subseteq Entities
         /\ ev.obj.kind \in Kinds /\ ev.obj \in before \cup target
BY DoingFacts DEF EventOK, Event

\* What the answer makes of an event.
LEMMA AnsweredFacts ==
  ASSUME TypeInv, NEW ev \in inFlight, ev.pc = "queued"
  PROVE  /\ EventOK(Answered(ev)) /\ Answered(ev).pc = "answered"
         /\ Answered(ev).op = ev.op /\ Answered(ev).obj = ev.obj /\ Answered(ev).victims = {}
         /\ Answered(ev).rest = IF ev.op = "delete" THEN PostActionCascades[ev.obj.kind] ELSE <<>>
<1> DEFINE new == Answered(ev)
           rest == IF ev.op = "delete" THEN PostActionCascades[ev.obj.kind] ELSE <<>>
<1>1. EventOK(ev) /\ ev.obj.kind \in Kinds /\ ev.victims = {} /\ ev \in Event
  BY Underway, EventFields DEF EventOK
<1>2. rest \in Rests /\ \A i \in 1..Len(rest) : rest[i] \in PostCascadesTo(ev.obj.kind)
  <2>1. CASE ev.op = "delete"
    BY <1>1, <2>1, Cascades
  <2>2. CASE ev.op # "delete"
    BY <2>2 DEF Rests
  <2> QED BY <2>1, <2>2
<1>3. new = [ev EXCEPT !.pc = "answered", !.rest = rest]
  BY DEF Answered
<1> HIDE DEF rest, new
<1>4. new \in Event
  BY <1>1, <1>2, <1>3 DEF Event
<1>5. /\ new.op = ev.op /\ new.obj = ev.obj /\ new.pc = "answered"
      /\ new.rest = rest /\ new.victims = ev.victims
  BY <1>1, <1>3 DEF Event
<1>6. Phase = "createUpdate" => rest = <<>>
  BY <1>1 DEF EventOK, rest
<1>7. EventOK(new)
  BY <1>1, <1>2, <1>4, <1>5, <1>6 DEF EventOK
<1> QED
  BY <1>1, <1>5, <1>7 DEF rest, new

\* What the request makes of the gateway.
LEMMA KongAfterFacts ==
  ASSUME TypeInv, NEW ev \in inFlight
  PROVE  KongAfter(ev.op, ev.obj) \subseteq before \cup target /\ UniqueIds(KongAfter(ev.op, ev.obj))
<1> DEFINE after == KongAfter(ev.op, ev.obj)
<1>1. EventOK(ev) /\ UniqueIds(kong) /\ kong \subseteq before \cup target
  BY Underway DEF TypeInv
<1>2. CASE ev.op = "delete"
  <2>1. after \subseteq kong
    BY <1>2 DEF KongAfter
  <2> QED BY <1>1, <2>1 DEF UniqueIds
<1>3. CASE ev.op # "delete"
  <2>1. after = {f \in kong : f.id # ev.obj.id} \cup {ev.obj}
    BY <1>3 DEF KongAfter
  <2>2. ev.obj \in target
    BY <1>1, <1>3 DEF EventOK
  <2> QED BY <1>1, <2>1, <2>2 DEF UniqueIds
<1> QED
  BY <1>2, <1>3

\* The types hold after an answer in a dry run.
LEMMA DryRunTyped == ASSUME TypeInv, NEW ev \in inFlight, DryRun(ev) PROVE TypeInv'
<1>1. /\ ev.pc = "queued" /\ inFlight' = (inFlight \ {ev}) \cup {Answered(ev)}
      /\ UNCHANGED <<input, producer, plan>> /\ kong' = kong /\ current' = current
      /\ errs' = errs /\ halted' = halted
  BY DEF DryRun, Replace
<1>2. \A other \in inFlight' : other \in inFlight \/ EventOK(other)
  BY <1>1, AnsweredFacts
<1>3. kong' \cup current' \subseteq before \cup target /\ UniqueIds(kong') /\ UniqueIds(current')
  BY <1>1 DEF TypeInv
<1>4. dry => kong' = before
  BY <1>1 DEF TypeInv
<1> QED
  BY <1>1, <1>2, <1>3, <1>4, EventTyped

\* The types hold after a request.
LEMMA SendTyped == ASSUME TypeInv, NEW ev \in inFlight, Send(ev) \/ SendFails(ev) PROVE TypeInv'
<1>1. /\ ev.pc = "queued" /\ UNCHANGED <<input, producer, plan>> /\ current' = current
      /\ halted' = halted /\ ~dry
  BY DEF Send, SendFails
<1>2. /\ \/ inFlight' = (inFlight \ {ev}) \cup {Answered(ev)} /\ errs' = errs
         \/ inFlight' = (inFlight \ {ev}) \cup {} /\ errs' = errs \cup {"rejected"}
         \/ inFlight' = (inFlight \ {ev}) \cup {} /\ errs' = errs \cup {"failed"}
      /\ kong' = kong \/ kong' = KongAfter(ev.op, ev.obj)
  BY DEF Send, SendFails, Replace, Fails
<1>3. EventOK(Answered(ev))
  BY <1>1, AnsweredFacts
<1>4. kong' \subseteq before \cup target /\ UniqueIds(kong')
  BY <1>2, KongAfterFacts DEF TypeInv
<1>5. current' \subseteq before \cup target /\ UniqueIds(current')
  BY <1>1 DEF TypeInv
<1>6. errs \subseteq errs' /\ errs' \subseteq errs \cup {"failed", "rejected", "post"}
  BY <1>2
<1>7. \A other \in inFlight' : other \in inFlight \/ EventOK(other)
  BY <1>2, <1>3
<1> QED
  BY <1>1, <1>4, <1>5, <1>6, <1>7, EventTyped

\* The step of the post-processing of an answer, with what it makes of the copy.
LEMMA PostTyped ==
  ASSUME TypeInv, NEW ev \in inFlight, UNCHANGED <<input, producer, kong, plan, halted>>,
         \A other \in inFlight' : other \in inFlight \/ EventOK(other),
         errs' = errs \/ errs' = errs \cup {"post"},
         UniqueIds(current'), current' \subseteq current \cup {ev.obj}
  PROVE  TypeInv'
<1>1. ev.obj \in before \cup target
  BY Underway, EventFields
<1>2. kong' \cup current' \subseteq before \cup target /\ UniqueIds(kong') /\ (dry => kong' = before)
  BY <1>1 DEF TypeInv
<1>3. errs \subseteq errs' /\ errs' \subseteq errs \cup {"failed", "rejected", "post"}
  OBVIOUS
<1> QED
  BY <1>2, <1>3, EventTyped

\* The types hold when the post-processing fails.
LEMMA FailsTyped ==
  ASSUME TypeInv, NEW ev \in inFlight, UNCHANGED <<input, producer, kong, plan, halted>>,
         current' = current, Fails(ev, "post")
  PROVE  TypeInv'
<1>1. inFlight' = inFlight \ {ev} /\ errs' = errs \cup {"post"}
  BY DEF Fails, Replace
<1>2. UniqueIds(current') /\ current' \subseteq current \cup {ev.obj}
  BY DEF TypeInv
<1>3. \A other \in inFlight' : other \in inFlight \/ EventOK(other)
  BY <1>1
<1> QED
  BY <1>1, <1>2, <1>3, PostTyped

\* What the operations of a collection do to the copy: they go by the id.
LEMMA CollectionFacts ==
  ASSUME TypeInv, NEW e \in Entities
  PROVE  /\ UniqueIds(Deleted(current, e)) /\ Deleted(current, e) = {f \in current : f.id # e.id}
         /\ UniqueIds(Updated(current, e)) /\ Updated(current, e) = {f \in current : f.id # e.id} \cup {e}
         /\ ~AddRefused(current, e) => UniqueIds(Added(current, e))
         /\ DeleteRefused(current, e) <=> ~HasId(current, e.id)
<1>1. WithId(current, e) = {f \in current : f.id = e.id}
  BY Underway, LookupFacts DEF SameId
<1>2. Deleted(current, e) = {f \in current : f.id # e.id}
  BY <1>1 DEF Deleted
<1>3. Updated(current, e) = {f \in current : f.id # e.id} \cup {e}
  BY <1>1 DEF Updated
<1>4. UniqueIds(current)
  BY DEF TypeInv
<1>5. UniqueIds(Deleted(current, e))
  BY <1>2, <1>4 DEF UniqueIds
<1>6. UniqueIds(Updated(current, e))
  BY <1>3, <1>4 DEF UniqueIds
<1>7. ~AddRefused(current, e) => UniqueIds(Added(current, e))
  BY <1>1, <1>4 DEF UniqueIds, AddRefused, Added
<1>8. DeleteRefused(current, e) <=> ~HasId(current, e.id)
  BY <1>1 DEF DeleteRefused, HasId
<1> QED
  BY <1>2, <1>3, <1>5, <1>6, <1>7, <1>8

\* The types hold when the post-processing ends.
LEMMA PostEndsTyped ==
  ASSUME TypeInv, NEW ev \in inFlight, PostCreate(ev) \/ PostUpdate(ev) \/ PostDelete(ev)
  PROVE  TypeInv'
<1>1. ev.obj \in Entities
  BY Underway, EventFields
<1>2. \E ok \in BOOLEAN : \E new :
        PostEnds(ev, ok, new) /\ (ok => UniqueIds(new) /\ new \subseteq current \cup {ev.obj})
  <2>1. CASE PostCreate(ev)
    <3>1. PostEnds(ev, ~AddRefused(current, ev.obj), Added(current, ev.obj))
      BY <2>1 DEF PostCreate
    <3>2. Added(current, ev.obj) \subseteq current \cup {ev.obj}
      BY DEF Added
    <3>3. (~AddRefused(current, ev.obj)) \in BOOLEAN
      OBVIOUS
    <3> QED BY <1>1, <3>1, <3>2, <3>3, CollectionFacts
  <2>2. CASE PostUpdate(ev)
    <3>1. PostEnds(ev, ~UpdateRefused(current, ev.obj), Updated(current, ev.obj))
      BY <2>2 DEF PostUpdate
    <3>2. Updated(current, ev.obj) \subseteq current \cup {ev.obj}
      BY DEF Updated
    <3>3. (~UpdateRefused(current, ev.obj)) \in BOOLEAN
      OBVIOUS
    <3> QED BY <1>1, <3>1, <3>2, <3>3, CollectionFacts
  <2>3. CASE PostDelete(ev)
    <3>1. PostEnds(ev, ~DeleteRefused(current, ev.obj), Deleted(current, ev.obj))
      BY <2>3 DEF PostDelete
    <3>2. Deleted(current, ev.obj) \subseteq current \cup {ev.obj}
      BY DEF Deleted
    <3>3. (~DeleteRefused(current, ev.obj)) \in BOOLEAN
      OBVIOUS
    <3> QED BY <1>1, <3>1, <3>2, <3>3, CollectionFacts
  <2> QED BY <2>1, <2>2, <2>3
<1> PICK ok \in BOOLEAN : \E new :
        PostEnds(ev, ok, new) /\ (ok => UniqueIds(new) /\ new \subseteq current \cup {ev.obj})
  BY <1>2
<1>3. PICK new :
        PostEnds(ev, ok, new) /\ (ok => UniqueIds(new) /\ new \subseteq current \cup {ev.obj})
  OBVIOUS
<1>4. UNCHANGED <<input, producer, kong, plan, halted>>
  BY <1>3 DEF PostEnds
<1>5. CASE ok
  <2>1. current' = new /\ inFlight' = inFlight \ {ev} /\ errs' = errs
    BY <1>3, <1>5 DEF PostEnds, Replace
  <2>2. /\ UniqueIds(current') /\ current' \subseteq current \cup {ev.obj}
        /\ \A other \in inFlight' : other \in inFlight \/ EventOK(other)
    BY <1>3, <1>5, <2>1
  <2> QED BY <1>4, <2>1, <2>2, PostTyped
<1>6. CASE ~ok
  <2>1. current' = current /\ Fails(ev, "post")
    BY <1>3, <1>6 DEF PostEnds
  <2> QED BY <1>4, <2>1, FailsTyped
<1> QED
  BY <1>5, <1>6

\* What is left to look up, taken one at a time.
LEMMA RestFacts ==
  ASSUME NEW rest \in Rests, rest # <<>>
  PROVE  /\ Tail(rest) \in Rests /\ Len(rest) \in Nat \ {0} /\ Head(rest) = rest[1]
         /\ Len(Tail(rest)) = Len(rest) - 1
         /\ \A i \in 1..Len(Tail(rest)) : Tail(rest)[i] = rest[i + 1]
<1>1. CASE rest = <<"plugin">>
  BY <1>1 DEF Rests
<1>2. CASE rest = <<"filter-chain">>
  BY <1>2 DEF Rests
<1>3. CASE rest = <<"plugin", "filter-chain">>
  <2>1. Tail(rest) = <<"filter-chain">> /\ Len(rest) = 2 /\ Head(rest) = rest[1]
    BY <1>3
  <2>2. rest[2] = "filter-chain"
    BY <1>3
  <2> QED BY <2>1, <2>2 DEF Rests
<1> QED
  BY <1>1, <1>2, <1>3 DEF Rests

\* An event whose post-processing looks further, or has deleted a dependant.
LEMMA PostLookupFacts ==
  ASSUME TypeInv, NEW ev \in inFlight, PostLookup(ev)
  PROVE  \E new : /\ inFlight' = (inFlight \ {ev}) \cup {new} /\ EventOK(new)
                  /\ new.op = ev.op /\ new.obj = ev.obj /\ new.pc = "answered" /\ ev.pc = "answered"
                  /\ new.rest = Tail(ev.rest) /\ ev.rest \in Rests /\ ev.rest # <<>> /\ ev.victims = {}
                  /\ new.victims = {c \in current : c.kind = ev.rest[1] /\ ev.obj.id \in c.refs}
                  /\ UNCHANGED <<input, producer, kong, current, plan, errs, halted>>
<1> DEFINE victims == {c \in OfKind(Head(ev.rest), current) : ev.obj.id \in c.refs}
<1>1. /\ EventOK(ev) /\ ev.rest \in Rests /\ ev.rest # <<>> /\ ev.pc = "answered" /\ ev.victims = {}
      /\ inFlight' = (inFlight \ {ev}) \cup {[ev EXCEPT !.rest = Tail(ev.rest), !.victims = victims]}
      /\ UNCHANGED <<input, producer, kong, current, plan, errs, halted>>
  BY Underway, EventFields DEF PostLookup, Replace
<1>2. victims = {c \in current : c.kind = ev.rest[1] /\ ev.obj.id \in c.refs} /\ victims \subseteq Entities
  BY <1>1, RestFacts, Underway DEF OfKind
<1> HIDE DEF victims
<1>3. ev \in Event
  BY <1>1 DEF EventOK
<1>4. PICK new : new = [ev EXCEPT !.rest = Tail(ev.rest), !.victims = victims]
  OBVIOUS
<1>5. inFlight' = (inFlight \ {ev}) \cup {new}
  BY <1>1, <1>4 DEF victims
<1>6. /\ new.op = ev.op /\ new.obj = ev.obj /\ new.pc = ev.pc
      /\ new.rest = Tail(ev.rest) /\ new.victims = victims
  BY <1>3, <1>4 DEF Event
<1>7. new \in Event
  <2>1. Tail(ev.rest) \in Rests /\ victims \in SUBSET Entities
    BY <1>1, <1>2, RestFacts
  <2> QED BY <1>3, <1>4, <2>1 DEF Event
<1>8. \A i \in 1..Len(Tail(ev.rest)) : Tail(ev.rest)[i] \in PostCascadesTo(ev.obj.kind)
  <2>1. \A i \in 1..Len(ev.rest) : ev.rest[i] \in PostCascadesTo(ev.obj.kind)
    BY <1>1 DEF EventOK
  <2> QED BY <1>1, <2>1, RestFacts
<1>9. Phase # "createUpdate" /\ victims \subseteq before \cup target
  BY <1>1, <1>2 DEF EventOK, TypeInv
<1>10. EventOK(new)
  BY <1>1, <1>6, <1>7, <1>8, <1>9 DEF EventOK
<1> QED
  BY <1>1, <1>2, <1>5, <1>6, <1>10

\* A dependant is deleted from the copy, or is not there.
LEMMA PostCascadeFacts ==
  ASSUME TypeInv, NEW ev \in inFlight, NEW v \in ev.victims, PostCascade(ev, v)
  PROVE  /\ UNCHANGED <<input, producer, kong, plan, halted>> /\ v \in Entities /\ ev.pc = "answered"
         /\ \/ current' = current /\ Fails(ev, "post") /\ ~HasId(current, v.id)
            \/ \E new : /\ inFlight' = (inFlight \ {ev}) \cup {new} /\ EventOK(new) /\ errs' = errs
                        /\ new.op = ev.op /\ new.obj = ev.obj /\ new.pc = "answered"
                        /\ new.rest = ev.rest /\ new.victims = ev.victims \ {v}
                        /\ current' = {f \in current : f.id # v.id}
<1>1. /\ EventOK(ev) /\ v \in Entities /\ ev.pc = "answered"
      /\ UNCHANGED <<input, producer, kong, plan, halted>>
  BY Underway, EventFields DEF PostCascade
<1>2. CASE DeleteRefused(current, v)
  BY <1>1, <1>2, CollectionFacts DEF PostCascade
<1>3. CASE ~DeleteRefused(current, v)
  <2>1. /\ current' = Deleted(current, v) /\ errs' = errs
        /\ inFlight' = (inFlight \ {ev}) \cup {[ev EXCEPT !.victims = @ \ {v}]}
    BY <1>3 DEF PostCascade, Replace
  <2>2. ev \in Event
    BY <1>1 DEF EventOK
  <2>3. PICK new : new = [ev EXCEPT !.victims = ev.victims \ {v}]
    OBVIOUS
  <2>4. inFlight' = (inFlight \ {ev}) \cup {new}
    BY <2>1, <2>3
  <2>5. /\ new.op = ev.op /\ new.obj = ev.obj /\ new.pc = ev.pc
        /\ new.rest = ev.rest /\ new.victims = ev.victims \ {v}
    BY <2>2, <2>3 DEF Event
  <2>6. new \in Event
    BY <2>2, <2>3 DEF Event
  <2>7. EventOK(new)
    BY <1>1, <2>5, <2>6 DEF EventOK
  <2>8. current' = {f \in current : f.id # v.id}
    BY <1>1, <2>1, CollectionFacts
  <2> QED BY <1>1, <2>1, <2>4, <2>5, <2>7, <2>8
<1> QED
  BY <1>2, <1>3

\* The types hold after a lookup of dependants.
LEMMA PostLookupTyped ==
  ASSUME TypeInv, NEW ev \in inFlight, PostLookup(ev) PROVE TypeInv'
<1>1. PICK new : /\ inFlight' = (inFlight \ {ev}) \cup {new} /\ EventOK(new)
                 /\ UNCHANGED <<input, producer, kong, current, plan, errs, halted>>
  BY PostLookupFacts
<1>2. UniqueIds(current') /\ current' \subseteq current \cup {ev.obj}
  BY <1>1 DEF TypeInv
<1>3. errs' = errs /\ \A other \in inFlight' : other \in inFlight \/ EventOK(other)
  BY <1>1
<1> QED
  BY <1>1, <1>2, <1>3, PostTyped

\* The types hold after the delete of a dependant.
LEMMA PostCascadeTyped ==
  ASSUME TypeInv, NEW ev \in inFlight, NEW v \in ev.victims, PostCascade(ev, v) PROVE TypeInv'
<1>1. UNCHANGED <<input, producer, kong, plan, halted>>
  BY PostCascadeFacts
<1>2. CASE current' = current /\ Fails(ev, "post")
  BY <1>1, <1>2, FailsTyped
<1>3. CASE \E new : /\ inFlight' = (inFlight \ {ev}) \cup {new} /\ EventOK(new) /\ errs' = errs
                    /\ current' = {f \in current : f.id # v.id}
  <2>1. PICK new : /\ inFlight' = (inFlight \ {ev}) \cup {new} /\ EventOK(new) /\ errs' = errs
                   /\ current' = {f \in current : f.id # v.id}
    BY <1>3
  <2>2. UniqueIds(current') /\ current' \subseteq current \cup {ev.obj}
    BY <2>1 DEF TypeInv, UniqueIds
  <2>3. errs' = errs /\ \A other \in inFlight' : other \in inFlight \/ EventOK(other)
    BY <2>1
  <2> QED BY <1>1, <2>1, <2>2, <2>3, PostTyped
<1> QED
  BY <1>2, <1>3, PostCascadeFacts

\* The types hold when the rest is abandoned.
LEMMA HaltTyped == ASSUME TypeInv, Halt PROVE TypeInv'
<1>1. /\ UNCHANGED <<input, producer, kong, current, plan, errs>> /\ halted' = TRUE /\ errs # {}
      /\ inFlight' \subseteq inFlight
  BY DEF Halt
<1>2. UNCHANGED <<input, stage>> /\ entered' = entered /\ todo' = todo /\ alreadyDeleted' = alreadyDeleted
  BY <1>1 DEF producer
<1>3. (\A d \in todo' : TodoOK(d)) /\ (\A ev \in inFlight' : EventOK(ev))
  BY <1>1, <1>2, Underway
<1>4. ~entered' \/ stage > Len(stages) => inFlight' = {} /\ todo' = {}
  BY <1>1, <1>2 DEF TypeInv
<1>5. /\ kong' \cup current' \subseteq before \cup target
      /\ UniqueIds(kong') /\ UniqueIds(current') /\ entered' \in BOOLEAN
      /\ alreadyDeleted' \subseteq {e.id : e \in before}
      /\ \A c \in plan' : IF c.op = "delete" THEN c.obj \in before
                                             ELSE c.op \in {"create", "update"} /\ c.obj \in target
      /\ errs' \subseteq {"failed", "rejected", "post"} /\ halted' \in BOOLEAN
      /\ halted' => errs' # {}
      /\ dry => kong' = before
  BY <1>1, <1>2 DEF TypeInv
<1> QED
  BY <1>2, <1>3, <1>4, <1>5, TypedStep

\* The types hold when nothing happens.
LEMMA StutterTyped == ASSUME TypeInv, UNCHANGED vars PROVE TypeInv'
<1>1. UNCHANGED <<input, stage>> /\ UNCHANGED <<entered, todo, alreadyDeleted, kong, current, inFlight, plan, errs, halted>>
  BY DEF vars, producer
<1>2. (\A d \in todo' : TodoOK(d)) /\ (\A ev \in inFlight' : EventOK(ev))
  BY <1>1, Underway
<1>4. ~entered' \/ stage > Len(stages) => inFlight' = {} /\ todo' = {}
  BY <1>1 DEF TypeInv
<1>5. /\ kong' \cup current' \subseteq before \cup target
      /\ UniqueIds(kong') /\ UniqueIds(current') /\ entered' \in BOOLEAN
      /\ alreadyDeleted' \subseteq {e.id : e \in before}
      /\ \A c \in plan' : IF c.op = "delete" THEN c.obj \in before
                                             ELSE c.op \in {"create", "update"} /\ c.obj \in target
      /\ errs' \subseteq {"failed", "rejected", "post"} /\ halted' \in BOOLEAN
      /\ halted' => errs' # {}
      /\ dry => kong' = before
  BY <1>1 DEF TypeInv
<1> QED
  BY <1>1, <1>2, <1>4, <1>5, TypedStep

\* A rerun keeps the types.
LEMMA StartTypedNext == Start' => TypeInv'
BY StartTyped, PTL

\* Every step keeps the types.
LEMMA TypeInvNext == TypeInv /\ [Next]_vars => TypeInv'
<1> SUFFICES ASSUME TypeInv, [Next]_vars PROVE TypeInv'
  OBVIOUS
<1>1. CASE EnterStage
  BY <1>1, EnterStageTyped
<1>2. CASE NextStage
  BY <1>2, NextStageTyped
<1>3. CASE Halt
  BY <1>3, HaltTyped
<1>4. CASE Rerun
  <2>1. Start'
    BY <1>4, RerunStarts
  <2> QED BY <2>1, StartTypedNext
<1>5. CASE UNCHANGED vars
  BY <1>5, StutterTyped
<1>6. ASSUME NEW d \in todo, QueueDuplicate(d) \/ CreateOrUpdate(d) \/ DeleteUnlessWanted(d)
      PROVE  TypeInv'
  BY <1>6, QueueDuplicateTyped, CreateOrUpdateTyped, DeleteUnlessWantedTyped
<1>7. ASSUME NEW ev \in inFlight, DryRun(ev) \/ Send(ev) \/ SendFails(ev) PROVE TypeInv'
  BY <1>7, DryRunTyped, SendTyped
<1>8. ASSUME NEW ev \in inFlight, PostCreate(ev) \/ PostUpdate(ev) \/ PostDelete(ev) PROVE TypeInv'
  BY <1>8, PostEndsTyped
<1>9. ASSUME NEW ev \in inFlight, PostLookup(ev) PROVE TypeInv'
  BY <1>9, PostLookupTyped
<1>10. ASSUME NEW ev \in inFlight, NEW v \in ev.victims, PostCascade(ev, v) PROVE TypeInv'
  BY <1>10, PostCascadeTyped
<1> QED
  BY <1>1, <1>2, <1>3, <1>4, <1>5, <1>6, <1>7, <1>8, <1>9, <1>10 DEF Next, Done

-----------------------------------------------------------------------------
(* The state of a run without errors: the steps of the producer.            *)

\* The state of a run at its start.
LEMMA StartRun == Start => RunState
<1> SUFFICES ASSUME Start PROVE RunState
  OBVIOUS
<1>1. TypeInv /\ NothingPassed /\ PhasesInOrder
  BY StartTyped, StartFacts, PhaseFacts DEF Start
<1>2. family \in DOMAIN States /\ target \subseteq Entities /\ before \subseteq Entities
  BY <1>1, Underway DEF TypeInv
<1>3. PICK k \in Kinds : k \in InPlay[family]
  BY <1>2, EntityFacts
<1>4. ~noDeletes => Phase = "deleteDuplicates"
  BY <1>1, <1>3 DEF NothingPassed, PhasesInOrder, StageOps
<1>5. noDeletes => Phase = "createUpdate" /\ DuplicatesOfRun = {}
  BY <1>1 DEF PhasesInOrder, DuplicatesOfRun
<1>6. noDeletes \in BOOLEAN
  BY <1>1, StagesOfRun
<1>7. Remaining \subseteq before /\ (noDeletes => Remaining = before)
  BY <1>5 DEF Remaining
<1>8. \A e \in Entities : \A op : ~Passed(op, e.kind)
  BY <1>1, <1>2, EntityFacts DEF NothingPassed
<1>9. EventsApart /\ DeletesOK
  BY DEF Start, EventsApart, DeletesOK
<1>10. DuplicatesInv
  <2>1. \A x \in DuplicatesOfRun : x \in before
    BY <1>1, <1>2, DuplicatesOfRunFacts DEF TypeInv
  <2> QED BY <1>2, <1>7, <1>8, <2>1 DEF Start, DuplicatesInv, Begun
<1>11. CreatesInv
  <2> SUFFICES ASSUME Phase = "createUpdate" PROVE CreatesInv!2
    BY DEF CreatesInv
  <2>1. noDeletes
    BY <1>4, <2>1
  <2> QED BY <1>2, <1>7, <1>8, <2>1 DEF Start, Begun
<1>12. DeletesInv
  BY <1>4, <1>5, <1>6 DEF DeletesInv
<1>13. MirrorInv
  BY DEF Start, MirrorInv, Answers
<1>14. PlanInv
  BY <1>4, <1>5, <1>6 DEF Start, PlanInv
<1> QED
  BY <1>9, <1>10, <1>11, <1>12, <1>13, <1>14 DEF RunState

\* The state of a run after a rerun.
LEMMA StartRunNext == Start' => RunState'
BY StartRun, PTL

\* What a differ has read is all that its stage has to look at.
LEMMA EnterStageRun == ASSUME TypeInv, RunState, EnterStage PROVE RunState'
<1>1. /\ ~entered /\ entered' = TRUE /\ Running
      /\ UNCHANGED <<input, stage>> /\ kong' = kong /\ current' = current
      /\ alreadyDeleted' = alreadyDeleted /\ inFlight' = inFlight /\ plan' = plan
      /\ family' = family /\ before' = before /\ target' = target /\ dry' = dry /\ noDeletes' = noDeletes
  BY DEF EnterStage, input
<1>2. stage \in 1..Len(stages)
  BY <1>1, StagesOfRun DEF Running, WellStaged
<1>3. Phase = Op /\ \A k : Doing(k) <=> k \in stages[stage].kinds
  BY <1>2 DEF Phase, Doing
<1>4. inFlight = {} /\ todo = {} /\ \A k : ~Begun(k)
  BY <1>1 DEF TypeInv, Begun
<1>5. /\ Phase' = Phase /\ Remaining' = Remaining /\ DuplicatesOfRun' = DuplicatesOfRun
      /\ Expected' = Expected
      /\ \A op, k : Passed(op, k)' <=> Passed(op, k)
      /\ \A k : Begun(k)' <=> Doing(k)
  BY <1>1, Frame DEF Begun
<1>6. UniqueIds(current) /\ UniqueIds(target)
  BY Underway DEF TypeInv
<1>7. /\ \A x : UnderWay(x)' <=> UnderWay(x)
      /\ \A x : Gone(x)' <=> Gone(x)
      /\ \A op, x : Planned(op, x)' <=> Planned(op, x)
      /\ \A t : TargetPlanned(t)' <=> TargetPlanned(t)
      /\ \A t : ~UnderWay(t) /\ ~Waiting(t)
  BY <1>1, <1>4, <1>5 DEF UnderWay, Gone, Planned, TargetPlanned, Waiting
<1>8. EventsApart'
  <2>1. ASSUME Phase = "createUpdate", NEW d \in todo', NEW other \in todo', d.obj.id = other.obj.id
        PROVE  d = other
    <3>1. todo' = {[by |-> t.kind, obj |-> t] : t \in {t \in target : t.kind \in stages[stage].kinds}}
      BY <1>3, <2>1 DEF EnterStage
    <3> QED BY <1>6, <2>1, <3>1 DEF UniqueIds
  <2>2. ASSUME Phase = "delete", NEW d \in todo', NEW other \in todo', d.obj.id = other.obj.id
        PROVE  d = other
    <3>1. todo' = {[by |-> t.kind, obj |-> t] : t \in {t \in current : t.kind \in stages[stage].kinds}}
      BY <1>3, <2>2 DEF EnterStage
    <3> QED BY <1>6, <2>2, <3>1 DEF UniqueIds
  <2> QED BY <1>1, <1>4, <1>5, <2>1, <2>2, PhaseFacts DEF EventsApart, PhasesInOrder, StageOps
<1>9. DeletesOK'
  BY <1>1, <1>4 DEF DeletesOK
<1>10. DuplicatesInv'
  <2> SUFFICES ASSUME Phase = "deleteDuplicates" PROVE DuplicatesInv'
    BY <1>5 DEF DuplicatesInv
  <2>1. DuplicatesInv!2
    BY DEF RunState, DuplicatesInv
  <2>2. ASSUME NEW x \in DuplicatesOfRun, Doing(x.kind) PROVE Waiting(x)'
    <3>1. PICK d \in DuplicatesDeletes(before) : d.obj = x
      BY <2>2, DuplicatesOfRunFacts DEF TypeInv
    <3>2. d \in todo'
      BY <1>3, <2>2, <3>1 DEF EnterStage
    <3> QED BY <3>1, <3>2 DEF Waiting
  <2>3. ASSUME NEW x \in DuplicatesOfRun
        PROVE  \/ ~Passed("deleteDuplicates", x.kind)' /\ ~Begun(x.kind)'
               \/ Waiting(x)'
               \/ Planned("delete", x)' /\ (UnderWay(x)' \/ Gone(x)')
    BY <1>4, <1>5, <1>7, <2>1, <2>2
  <2> QED BY <1>1, <1>4, <1>5, <1>7, <2>1, <2>3 DEF DuplicatesInv
<1>11. CreatesInv'
  <2> SUFFICES ASSUME Phase = "createUpdate" PROVE CreatesInv'
    BY <1>5 DEF CreatesInv
  <2>1. CreatesInv!2
    BY DEF RunState, CreatesInv
  <2>2. ASSUME NEW t \in target, Doing(t.kind) PROVE Waiting(t)'
    <3>1. [by |-> t.kind, obj |-> t] \in todo'
      BY <1>3, <2>2 DEF EnterStage
    <3> QED BY <3>1 DEF Waiting
  <2>3. ASSUME NEW t \in target
        PROVE  \/ /\ Passed("createUpdate", t.kind)' \/ (Begun(t.kind)' /\ ~Waiting(t)')
                  /\ TargetPlanned(t)' /\ (t \in current' \/ UnderWay(t)')
               \/ /\ ~Passed("createUpdate", t.kind)' /\ (Begun(t.kind)' => Waiting(t)')
                  /\ t \in current' => t \in Remaining'
    BY <1>1, <1>4, <1>5, <1>7, <2>1, <2>2
  <2> QED BY <1>1, <1>4, <1>5, <2>1, <2>3 DEF CreatesInv
<1>12. DeletesInv'
  <2> SUFFICES ASSUME Phase = "delete" PROVE DeletesInv'
    BY <1>5 DEF DeletesInv
  <2>1. DeletesInv!2
    BY DEF RunState, DeletesInv
  <2>2. todo' = {[by |-> c.kind, obj |-> c] : c \in {c \in current : c.kind \in stages[stage].kinds}}
    BY <1>3 DEF EnterStage
  <2>3. ASSUME NEW x \in current, Doing(x.kind) PROVE Waiting(x)'
    <3>1. [by |-> x.kind, obj |-> x] \in todo'
      BY <1>3, <2>2, <2>3
    <3> QED BY <3>1 DEF Waiting
  <2>4. \A d \in todo' : d.obj \in current'
    BY <1>1, <2>2
  <2>5. ASSUME NEW x \in Remaining, ~HasId(target, x.id)
        PROVE  \/ ~Passed("delete", x.kind)' /\ ~Begun(x.kind)' /\ x \in current'
               \/ ~Passed("delete", x.kind)' /\ Begun(x.kind)' /\ Waiting(x)'
               \/ Planned("delete", x)' /\ (UnderWay(x)' \/ x \notin current')
    BY <1>1, <1>4, <1>5, <1>7, <2>1, <2>3, <2>5
  <2> QED BY <1>1, <1>4, <1>5, <1>7, <2>1, <2>4, <2>5 DEF DeletesInv
<1>13. MirrorInv'
  BY <1>1, <1>4 DEF RunState, MirrorInv, Answers
<1>14. PlanInv'
  BY <1>1, <1>5, <1>7 DEF RunState, PlanInv
<1> QED
  BY <1>8, <1>9, <1>10, <1>11, <1>12, <1>13, <1>14 DEF RunState

\* What the steps of the differs have in common: an entity is looked at, and
\* perhaps queued.
Looked(d) ==
  /\ UNCHANGED <<input, stage>> /\ family' = family /\ before' = before /\ target' = target
  /\ dry' = dry /\ noDeletes' = noDeletes
  /\ kong' = kong /\ current' = current /\ entered /\ entered' = entered
  /\ todo' = todo \ {d}
  /\ inFlight \subseteq inFlight' /\ plan \subseteq plan'

NewEvent(op, d) ==
  \E ev : /\ inFlight' = inFlight \cup {ev} /\ ev \in inFlight'
          /\ ev.op = op /\ ev.obj = d.obj /\ ev.pc = "queued" /\ ev.victims = {} /\ ev.rest = <<>>
          /\ plan' = plan \cup {[op |-> op, obj |-> d.obj]} /\ [op |-> op, obj |-> d.obj] \in plan'

\* Each of these steps is one, and queues one event at most.
LEMMA LookedFacts ==
  ASSUME TypeInv, NEW d \in todo, Take(d),
         UNCHANGED <<inFlight, plan>> \/ \E op \in Ops : Queue(op, d)
  PROVE  /\ Looked(d) /\ TodoOK(d) /\ Phase = Op
         /\ \A op \in Ops : Queue(op, d) => NewEvent(op, d)
<1>1. entered /\ TodoOK(d) /\ Phase = Op
  BY Underway, DoingFacts DEF TodoOK
<1>2. inFlight \subseteq inFlight' /\ plan \subseteq plan'
  BY DEF Queue
<1>3. Looked(d)
  BY <1>1, <1>2 DEF Take, Looked, input
<1>4. ASSUME NEW op \in Ops, Queue(op, d) PROVE NewEvent(op, d)
  <2>1. PICK ev : ev = [op |-> op, by |-> d.by, obj |-> d.obj, pc |-> "queued", rest |-> <<>>, victims |-> {}]
    OBVIOUS
  <2>2. inFlight' = inFlight \cup {ev} /\ plan' = plan \cup {[op |-> op, obj |-> d.obj]}
    BY <1>4, <2>1 DEF Queue
  <2>3. ev.op = op /\ ev.obj = d.obj /\ ev.pc = "queued" /\ ev.victims = {} /\ ev.rest = <<>>
    BY <2>1
  <2> QED BY <2>2, <2>3 DEF NewEvent
<1> QED
  BY <1>1, <1>3, <1>4

\* What such a step leaves alone.
LEMMA LookedFrame ==
  ASSUME NEW d, Looked(d)
  PROVE  /\ Phase' = Phase /\ Remaining' = Remaining /\ DuplicatesOfRun' = DuplicatesOfRun
         /\ Expected' = Expected
         /\ \A op, k : Passed(op, k)' <=> Passed(op, k)
         /\ \A k : Begun(k)' <=> Begun(k)
         /\ \A x : Gone(x)' <=> Gone(x)
         /\ \A x : UnderWay(x) => UnderWay(x)'
         /\ \A x : x # d.obj => (Waiting(x)' <=> Waiting(x))
         /\ \A op, x : Planned(op, x) => Planned(op, x)'
         /\ \A t : TargetPlanned(t) => TargetPlanned(t)'
<1>1. /\ Phase' = Phase /\ Remaining' = Remaining /\ DuplicatesOfRun' = DuplicatesOfRun
      /\ Expected' = Expected
      /\ \A op, k : Passed(op, k)' <=> Passed(op, k)
      /\ \A k : Doing(k)' <=> Doing(k)
  BY Frame DEF Looked
<1>2. \A k : Begun(k)' <=> Begun(k)
  BY <1>1 DEF Looked, Begun
<1>3. \A x : Gone(x)' <=> Gone(x)
  BY DEF Looked, Gone
<1>4. \A x : UnderWay(x) => UnderWay(x)'
  BY DEF Looked, UnderWay
<1>5. \A x : x # d.obj => (Waiting(x)' <=> Waiting(x))
  BY DEF Looked, Waiting
<1>6. \A op, x : Planned(op, x) => Planned(op, x)'
  BY DEF Looked, Planned
<1>7. \A t : TargetPlanned(t) => TargetPlanned(t)'
  BY <1>1, <1>6 DEF TargetPlanned
<1> QED
  BY <1>1, <1>2, <1>3, <1>4, <1>5, <1>6, <1>7

\* The gateway and the answers stay as they are.
LEMMA LookedMirror ==
  ASSUME RunState, NEW d, Looked(d), \A ev \in inFlight' : ev \in inFlight \/ ev.pc = "queued"
  PROVE  MirrorInv'
<1>1. Answers' = Answers
  BY DEF Looked, Answers
<1> QED
  BY <1>1 DEF RunState, MirrorInv, Looked

\* A duplicate is queued by the first differ that finds it, and by no other.
LEMMA QueueDuplicateRun ==
  ASSUME TypeInv, RunState, NEW d \in todo, QueueDuplicate(d) PROVE RunState'
<1>1. /\ Take(d) /\ Op = "deleteDuplicates"
      /\ \/ /\ d.obj.id \in alreadyDeleted
            /\ UNCHANGED <<inFlight, plan, alreadyDeleted>>
         \/ /\ d.obj.id \notin alreadyDeleted
            /\ Queue("delete", d) /\ alreadyDeleted' = alreadyDeleted \cup {d.obj.id}
  BY DEF QueueDuplicate
<1>2. /\ Looked(d) /\ TodoOK(d) /\ Phase = "deleteDuplicates"
      /\ Queue("delete", d) => NewEvent("delete", d)
  BY <1>1, LookedFacts DEF Ops
<1>3. ~noDeletes /\ d.obj \in DuplicatesOfRun /\ d.obj \in before
  <2>1. ~noDeletes /\ d \in DuplicatesDeletes(before)
    BY <1>2, PhaseFacts DEF PhasesInOrder, TodoOK
  <2>2. d.obj \in DuplicatesOfRun
    BY <2>1, DuplicatesOfRunFacts DEF TypeInv
  <2> QED BY <2>1, <2>2, DuplicatesOfRunFacts DEF TypeInv
<1>4. DuplicatesInv!2 /\ EventsApart /\ DeletesOK /\ UniqueIds(before)
  BY <1>2 DEF RunState, DuplicatesInv, TypeInv
<1>5. \A x \in before : x.id = d.obj.id => x = d.obj
  BY <1>3, <1>4 DEF UniqueIds
<1>6. \A x \in DuplicatesOfRun : x \in before
  BY DuplicatesOfRunFacts DEF TypeInv
<1>7. /\ Phase' = Phase /\ Remaining' = Remaining /\ DuplicatesOfRun' = DuplicatesOfRun
      /\ Expected' = Expected
      /\ \A op, k : Passed(op, k)' <=> Passed(op, k)
      /\ \A k : Begun(k)' <=> Begun(k)
      /\ \A x : Gone(x)' <=> Gone(x)
      /\ \A x : UnderWay(x) => UnderWay(x)'
      /\ \A x : x # d.obj => (Waiting(x)' <=> Waiting(x))
      /\ \A op, x : Planned(op, x) => Planned(op, x)'
  BY <1>2, LookedFrame
<1>8. current' = current /\ before' = before
  BY <1>2 DEF Looked
<1>9. CASE /\ d.obj.id \in alreadyDeleted
           /\ UNCHANGED <<inFlight, plan, alreadyDeleted>>
  <2>1. EventsApart' /\ DeletesOK'
    BY <1>4, <1>7, <1>8, <1>9, <1>2 DEF EventsApart, DeletesOK
  <2>2. DuplicatesInv'
    <3>1. Planned("delete", d.obj) /\ (UnderWay(d.obj) \/ Gone(d.obj))
      BY <1>3, <1>4, <1>9
    <3> QED BY <1>2, <1>4, <1>7, <1>8, <1>9, <3>1 DEF DuplicatesInv
  <2>3. CreatesInv' /\ DeletesInv'
    BY <1>2, <1>7 DEF CreatesInv, DeletesInv
  <2>4. MirrorInv'
    BY <1>2, <1>9, LookedMirror
  <2>5. PlanInv'
    BY <1>2, <1>7, <1>9 DEF RunState, PlanInv
  <2> QED BY <2>1, <2>2, <2>3, <2>4, <2>5 DEF RunState
<1>10. CASE /\ d.obj.id \notin alreadyDeleted
            /\ Queue("delete", d) /\ alreadyDeleted' = alreadyDeleted \cup {d.obj.id}
  <2>1. PICK ev : /\ inFlight' = inFlight \cup {ev} /\ ev \in inFlight'
                  /\ ev.op = "delete" /\ ev.obj = d.obj /\ ev.pc = "queued"
                  /\ ev.victims = {} /\ ev.rest = <<>>
                  /\ plan' = plan \cup {[op |-> "delete", obj |-> d.obj]}
                  /\ [op |-> "delete", obj |-> d.obj] \in plan'
    BY <1>2, <1>10 DEF NewEvent
  <2>2. d.obj \in current
    BY <1>3, <1>4, <1>10
  <2>3. EventsApart'
    <3>1. \A other \in inFlight : other.obj.id # d.obj.id
      BY <1>4, <1>10
    <3> QED BY <1>2, <1>4, <1>7, <2>1, <3>1 DEF EventsApart
  <2>4. DeletesOK'
    BY <1>4, <1>8, <2>1, <2>2 DEF DeletesOK
  <2>5. Planned("delete", d.obj)' /\ UnderWay(d.obj)'
    BY <2>1 DEF Planned, UnderWay
  <2>6. DuplicatesInv'
    <3>1. Remaining \subseteq current /\ current \subseteq before
      BY <1>4
    <3>2. \A other \in inFlight' : other.obj.id \in alreadyDeleted' /\ other.obj \in DuplicatesOfRun
      BY <1>3, <1>4, <1>10, <2>1
    <3>3. \A x \in before : x.id \in alreadyDeleted' => Planned("delete", x)'
      BY <1>4, <1>5, <1>7, <1>10, <2>5
    <3>4. \A x \in DuplicatesOfRun :
            \/ ~Passed("deleteDuplicates", x.kind)' /\ ~Begun(x.kind)'
            \/ Waiting(x)'
            \/ Planned("delete", x)' /\ (UnderWay(x)' \/ Gone(x)')
      BY <1>4, <1>7, <2>5
    <3>5. \A x \in DuplicatesOfRun :
            IF x.id \in alreadyDeleted' THEN UnderWay(x)' \/ Gone(x)' ELSE x \in current
      BY <1>4, <1>5, <1>6, <1>7, <1>10, <2>5
    <3> QED BY <1>2, <1>7, <1>8, <3>1, <3>2, <3>3, <3>4, <3>5 DEF DuplicatesInv
  <2>7. CreatesInv' /\ DeletesInv'
    BY <1>2, <1>7 DEF CreatesInv, DeletesInv
  <2>8. MirrorInv'
    BY <1>2, <2>1, LookedMirror
  <2>9. PlanInv'
    <3>1. [op |-> "delete", obj |-> d.obj] \in Expected
      BY <1>3 DEF Expected
    <3> QED BY <1>2, <1>7, <2>1, <3>1 DEF RunState, PlanInv
  <2> QED BY <2>3, <2>4, <2>6, <2>7, <2>8, <2>9 DEF RunState
<1> QED
  BY <1>1, <1>9, <1>10

\* A target entity is queued as the two states call for, or is there already.
LEMMA CreateOrUpdateRun ==
  ASSUME TypeInv, RunState, NEW d \in todo, CreateOrUpdate(d) PROVE RunState'
<1> DEFINE found == Lookup(current, differOf[d.obj.kind].finds, d.obj)
           t == d.obj
<1>1. /\ Take(d) /\ Op = "createUpdate"
      /\ \/ found = {} /\ Queue("create", d)
         \/ found # {} /\ t \notin found /\ Queue("update", d)
         \/ t \in found /\ UNCHANGED <<inFlight, plan>>
  BY DEF CreateOrUpdate
<1>2. /\ Looked(d) /\ TodoOK(d) /\ Phase = "createUpdate"
      /\ Queue("create", d) => NewEvent("create", d)
      /\ Queue("update", d) => NewEvent("update", d)
  BY <1>1, LookedFacts DEF Ops
<1>3. t \in target /\ t \in Entities /\ Doing(t.kind)
  BY <1>2, Underway DEF TodoOK
<1>4. found = SameId(current, t)
  BY <1>3, Underway, LookupFacts
<1>5. CreatesInv!2 /\ EventsApart /\ UniqueIds(before) /\ UniqueIds(target) /\ UniqueIds(current)
  BY <1>2, Underway DEF RunState, CreatesInv, TypeInv
<1>6. /\ Phase' = Phase /\ Remaining' = Remaining /\ DuplicatesOfRun' = DuplicatesOfRun
      /\ Expected' = Expected
      /\ \A op, k : Passed(op, k)' <=> Passed(op, k)
      /\ \A k : Begun(k)' <=> Begun(k)
      /\ \A x : UnderWay(x) => UnderWay(x)'
      /\ \A x : x # t => (Waiting(x)' <=> Waiting(x))
      /\ \A op, x : Planned(op, x) => Planned(op, x)'
      /\ \A x : TargetPlanned(x) => TargetPlanned(x)'
  BY <1>2, LookedFrame
<1>7. /\ current' = current /\ before' = before /\ target' = target /\ todo' = todo \ {d}
      /\ inFlight \subseteq inFlight' /\ plan \subseteq plan'
  BY <1>2 DEF Looked
<1>8. Remaining \subseteq before
  BY DEF Remaining
<1> HIDE DEF found
\* The entity was still to come: it is there only if it has been all along.
<1>9. /\ Waiting(t) /\ ~Waiting(t)' /\ Begun(t.kind) /\ ~Passed("createUpdate", t.kind)
      /\ t \in current => t \in Remaining
  <2>1. Waiting(t)
    BY DEF Waiting
  <2>2. \A other \in todo : other.obj = t => other = d
    BY <1>2, <1>5 DEF EventsApart
  <2>3. ~Waiting(t)'
    BY <1>7, <2>2 DEF Waiting
  <2>4. Begun(t.kind) /\ ~Passed("createUpdate", t.kind)
    BY <1>2, <1>3, DoingFacts DEF Begun, Looked
  <2> QED BY <1>3, <1>5, <2>1, <2>3, <2>4
<1>10. \A ev \in inFlight : ev.obj.id # t.id
  BY <1>2, <1>5 DEF EventsApart
<1>11. CASE t \in found /\ UNCHANGED <<inFlight, plan>>
  <2>1. TargetPlanned(t) /\ t \in current
    BY <1>4, <1>9, <1>11 DEF SameId, TargetPlanned, HasId
  <2>2. EventsApart' /\ DeletesOK'
    BY <1>2, <1>5, <1>6, <1>7, <1>11 DEF RunState, EventsApart, DeletesOK
  <2>3. CreatesInv'
    <3>1. ASSUME NEW x \in target
          PROVE  \/ /\ Passed("createUpdate", x.kind)' \/ (Begun(x.kind)' /\ ~Waiting(x)')
                    /\ TargetPlanned(x)' /\ (x \in current' \/ UnderWay(x)')
                 \/ /\ ~Passed("createUpdate", x.kind)' /\ (Begun(x.kind)' => Waiting(x)')
                    /\ x \in current' => x \in Remaining'
      BY <1>5, <1>6, <1>7, <1>9, <2>1
    <3> QED BY <1>5, <1>6, <1>7, <1>11, <3>1 DEF CreatesInv
  <2>4. DuplicatesInv' /\ DeletesInv'
    BY <1>2, <1>6 DEF DuplicatesInv, DeletesInv
  <2>5. MirrorInv'
    BY <1>2, <1>11, LookedMirror
  <2>6. PlanInv'
    BY <1>2, <1>6, <1>11 DEF RunState, PlanInv
  <2> QED BY <2>2, <2>3, <2>4, <2>5, <2>6 DEF RunState
<1>12. ASSUME NEW op \in {"create", "update"}, Queue(op, d), op = "create" <=> ~HasId(current, t.id),
              [op |-> op, obj |-> t] \in Expected,
              IF HasId(Remaining, t.id) THEN op = "update" ELSE op = "create"
       PROVE  RunState'
  <2>1. PICK ev : /\ inFlight' = inFlight \cup {ev} /\ ev \in inFlight'
                  /\ ev.op = op /\ ev.obj = t /\ ev.pc = "queued"
                  /\ plan' = plan \cup {[op |-> op, obj |-> t]}
                  /\ [op |-> op, obj |-> t] \in plan'
    BY <1>2, <1>12 DEF NewEvent
  <2>2. UnderWay(t)' /\ TargetPlanned(t)'
    BY <1>6, <1>12, <2>1 DEF UnderWay, TargetPlanned, Planned
  <2>3. EventsApart'
    <3>1. \A other \in todo' : other.obj.id # t.id
      BY <1>2, <1>5, <1>7 DEF EventsApart
    <3> QED BY <1>2, <1>5, <1>6, <1>7, <1>10, <2>1, <3>1 DEF EventsApart
  <2>4. DeletesOK'
    BY <1>7, <1>12, <2>1 DEF RunState, DeletesOK
  <2>5. CreatesInv'
    <3>1. ASSUME NEW x \in target
          PROVE  \/ /\ Passed("createUpdate", x.kind)' \/ (Begun(x.kind)' /\ ~Waiting(x)')
                    /\ TargetPlanned(x)' /\ (x \in current' \/ UnderWay(x)')
                 \/ /\ ~Passed("createUpdate", x.kind)' /\ (Begun(x.kind)' => Waiting(x)')
                    /\ x \in current' => x \in Remaining'
      BY <1>5, <1>6, <1>7, <1>9, <2>2
    <3>2. \A other \in inFlight' : other.op = "create" <=> ~HasId(current', other.obj.id)
      BY <1>5, <1>7, <1>12, <2>1
    <3> QED BY <1>5, <1>6, <1>7, <3>1, <3>2 DEF CreatesInv
  <2>6. DuplicatesInv' /\ DeletesInv'
    BY <1>2, <1>6 DEF DuplicatesInv, DeletesInv
  <2>7. MirrorInv'
    BY <1>2, <2>1, LookedMirror
  <2>8. PlanInv'
    BY <1>2, <1>6, <1>12, <2>1 DEF RunState, PlanInv
  <2> QED BY <2>3, <2>4, <2>5, <2>6, <2>7, <2>8 DEF RunState
<1>13. CASE found = {} /\ Queue("create", d)
  <2>1. ~HasId(current, t.id)
    BY <1>4, <1>13 DEF SameId, HasId
  <2>2. ~HasId(Remaining, t.id)
    BY <1>5, <2>1 DEF HasId
  <2>3. [op |-> "create", obj |-> t] \in Expected
    BY <1>3, <2>2 DEF Expected, HasId
  <2> QED BY <1>12, <1>13, <2>1, <2>2, <2>3
<1>14. CASE found # {} /\ t \notin found /\ Queue("update", d)
  <2>1. PICK f \in current : f.id = t.id /\ f # t
    BY <1>4, <1>14 DEF SameId
  <2>2. f \in Remaining /\ f \in before
    BY <1>3, <1>5, <1>8, <2>1 DEF UniqueIds
  <2>3. t \notin Remaining
    BY <1>5, <1>8, <2>1, <2>2 DEF UniqueIds
  <2>4. HasId(Remaining, t.id) /\ HasId(current, t.id)
    BY <2>1, <2>2 DEF HasId
  <2>5. [op |-> "update", obj |-> t] \in Expected
    BY <1>3, <2>1, <2>2, <2>3 DEF Expected
  <2> QED BY <1>12, <1>14, <2>4, <2>5
<1> QED
  BY <1>1, <1>11, <1>13, <1>14

\* An entity is queued to be deleted unless the target has it.
LEMMA DeleteUnlessWantedRun ==
  ASSUME TypeInv, RunState, NEW d \in todo, DeleteUnlessWanted(d) PROVE RunState'
<1> DEFINE e == d.obj
<1>1. /\ Take(d) /\ Op = "delete"
      /\ \/ UNCHANGED <<inFlight, plan>>
         \/ Queue("delete", d)
  BY DEF DeleteUnlessWanted
<1>2. /\ Looked(d) /\ TodoOK(d) /\ Phase = "delete"
      /\ Queue("delete", d) => NewEvent("delete", d)
  BY <1>1, LookedFacts DEF Ops
<1>3. e \in Entities /\ Doing(e.kind)
  BY <1>2, Underway DEF TodoOK
<1>4. \/ HasId(target, e.id) /\ UNCHANGED <<inFlight, plan>>
      \/ ~HasId(target, e.id) /\ Queue("delete", d)
  <2>1. differOf[e.kind].deletes # "never" /\ Lookup(target, differOf[e.kind].deletes, e) = SameId(target, e)
    BY <1>3, Underway, LookupFacts
  <2>2. SameId(target, e) # {} <=> HasId(target, e.id)
    BY DEF SameId, HasId
  <2> QED BY <2>1, <2>2 DEF DeleteUnlessWanted
<1>5. DeletesInv!2 /\ EventsApart
  BY <1>2 DEF RunState, DeletesInv
<1>6. /\ Phase' = Phase /\ Remaining' = Remaining /\ DuplicatesOfRun' = DuplicatesOfRun
      /\ Expected' = Expected
      /\ \A op, k : Passed(op, k)' <=> Passed(op, k)
      /\ \A k : Begun(k)' <=> Begun(k)
      /\ \A x : UnderWay(x) => UnderWay(x)'
      /\ \A x : x # e => (Waiting(x)' <=> Waiting(x))
      /\ \A op, x : Planned(op, x) => Planned(op, x)'
      /\ \A x : TargetPlanned(x) => TargetPlanned(x)'
  BY <1>2, LookedFrame
<1>7. /\ current' = current /\ target' = target /\ todo' = todo \ {d}
      /\ inFlight \subseteq inFlight' /\ plan \subseteq plan'
  BY <1>2 DEF Looked
<1>8. Begun(e.kind) /\ ~Passed("delete", e.kind)
  BY <1>2, <1>3, DoingFacts DEF Begun, Looked
<1>9. CASE HasId(target, e.id) /\ UNCHANGED <<inFlight, plan>>
  <2>1. EventsApart' /\ DeletesOK'
    BY <1>2, <1>5, <1>6, <1>7, <1>9 DEF RunState, EventsApart, DeletesOK
  <2>2. DeletesInv'
    <3>1. ASSUME NEW x \in Remaining, ~HasId(target, x.id)
          PROVE  \/ ~Passed("delete", x.kind)' /\ ~Begun(x.kind)' /\ x \in current'
                 \/ ~Passed("delete", x.kind)' /\ Begun(x.kind)' /\ Waiting(x)'
                 \/ Planned("delete", x)' /\ (UnderWay(x)' \/ x \notin current')
      <4>1. x # e
        BY <1>9, <3>1
      <4> QED BY <1>5, <1>6, <1>7, <3>1, <4>1
    <3> QED BY <1>5, <1>6, <1>7, <1>9, <3>1 DEF DeletesInv, HasId
  <2>3. DuplicatesInv' /\ CreatesInv'
    BY <1>2, <1>6 DEF DuplicatesInv, CreatesInv
  <2>4. MirrorInv'
    BY <1>2, <1>9, LookedMirror
  <2>5. PlanInv'
    BY <1>2, <1>6, <1>9 DEF RunState, PlanInv
  <2> QED BY <2>1, <2>2, <2>3, <2>4, <2>5 DEF RunState
<1>10. CASE ~HasId(target, e.id) /\ Queue("delete", d)
  <2>1. PICK ev : /\ inFlight' = inFlight \cup {ev} /\ ev \in inFlight'
                  /\ ev.op = "delete" /\ ev.obj = e /\ ev.pc = "queued"
                  /\ ev.victims = {} /\ ev.rest = <<>>
                  /\ plan' = plan \cup {[op |-> "delete", obj |-> e]}
                  /\ [op |-> "delete", obj |-> e] \in plan'
    BY <1>2, <1>10 DEF NewEvent
  <2>2. e \in current /\ e \in Remaining
    BY <1>5, <1>10 DEF HasId
  <2>3. EventsApart'
    <3>1. \A other \in todo' : other.obj.id # e.id
      BY <1>2, <1>5, <1>7 DEF EventsApart
    <3>2. \A other \in inFlight : other.obj.id # e.id
      BY <1>2, <1>5 DEF EventsApart
    <3> QED BY <1>2, <1>5, <1>6, <1>7, <2>1, <3>1, <3>2 DEF EventsApart
  <2>4. DeletesOK'
    BY <1>7, <2>1, <2>2 DEF RunState, DeletesOK
  <2>5. Planned("delete", e)' /\ UnderWay(e)'
    BY <2>1 DEF Planned, UnderWay
  <2>6. DeletesInv'
    <3>1. ASSUME NEW x \in Remaining, ~HasId(target, x.id)
          PROVE  \/ ~Passed("delete", x.kind)' /\ ~Begun(x.kind)' /\ x \in current'
                 \/ ~Passed("delete", x.kind)' /\ Begun(x.kind)' /\ Waiting(x)'
                 \/ Planned("delete", x)' /\ (UnderWay(x)' \/ x \notin current')
      BY <1>5, <1>6, <1>7, <2>5, <3>1
    <3>2. \A other \in inFlight' : ~HasId(target, other.obj.id)
      BY <1>5, <1>10, <2>1
    <3> QED BY <1>5, <1>6, <1>7, <3>1, <3>2 DEF DeletesInv, HasId
  <2>7. DuplicatesInv' /\ CreatesInv'
    BY <1>2, <1>6 DEF DuplicatesInv, CreatesInv
  <2>8. MirrorInv'
    BY <1>2, <2>1, LookedMirror
  <2>9. PlanInv'
    <3>1. ~noDeletes
      BY <1>2, PhaseFacts DEF PhasesInOrder
    <3>2. \A t \in target : t.id # e.id
      BY <1>10 DEF HasId
    <3>3. [op |-> "delete", obj |-> e] \in Expected
      BY <2>2, <3>1, <3>2 DEF Expected
    <3> QED BY <1>2, <1>6, <2>1, <3>3 DEF RunState, PlanInv
  <2> QED BY <2>3, <2>4, <2>6, <2>7, <2>8, <2>9 DEF RunState
<1> QED
  BY <1>4, <1>9, <1>10

\* When a stage has ended, what it was for has come about.
LEMMA NextStageRun == ASSUME TypeInv, RunState, NextStage PROVE RunState'
<1>1. /\ family' = family /\ before' = before /\ target' = target /\ dry' = dry
      /\ noDeletes' = noDeletes /\ entered /\ entered' = FALSE /\ todo = {} /\ inFlight = {}
      /\ todo' = todo /\ inFlight' = inFlight /\ alreadyDeleted' = alreadyDeleted
      /\ kong' = kong /\ current' = current /\ plan' = plan
  BY DEF NextStage, input
<1>2. /\ \A op : \A k \in InPlay[family] : Passed(op, k)' <=> Passed(op, k) \/ (Doing(k) /\ Phase = op)
      /\ Phase' = "deleteDuplicates" => Phase = "deleteDuplicates"
      /\ Phase = "delete" => Phase' = "delete"
  BY NextStageFacts
<1>3. PhasesInOrder /\ PhasesInOrder'
  BY PhaseFacts, NextStageTyped, PhaseFactsNext
<1>4. Entities' = Entities /\ InPlay[family] # {} /\ InPlay[family] \subseteq Kinds
      /\ \A x \in Entities : x.kind \in InPlay[family] /\ x.kind \in Kinds
  BY <1>1, EntityFacts DEF Entities, TypeInv
<1>5. /\ target \subseteq Entities /\ before \subseteq Entities /\ current \subseteq Entities
      /\ UniqueIds(target) /\ UniqueIds(before) /\ UniqueIds(current)
  BY Underway DEF TypeInv
<1>6. DuplicatesOfRun' = DuplicatesOfRun /\ Remaining' = Remaining /\ Expected' = Expected
  <2>1. DuplicatesOfRun' = DuplicatesOfRun
    BY <1>1 DEF DuplicatesOfRun, DuplicatesDeletes
  <2>2. Remaining' = Remaining
    BY <1>1, <2>1 DEF Remaining
  <2> QED BY <1>1, <2>1, <2>2 DEF Expected
<1>7. \A x \in DuplicatesOfRun : x \in before /\ x \in Entities /\ ~noDeletes
  BY <1>5, DuplicatesOfRunFacts DEF TypeInv
<1>8. /\ \A x : ~UnderWay(x) /\ ~Waiting(x)
      /\ \A k : ~Begun(k)'
      /\ \A k : Begun(k) <=> Doing(k)
      /\ \A x : Gone(x)' <=> Gone(x)
      /\ \A op, x : Planned(op, x)' <=> Planned(op, x)
      /\ \A t : TargetPlanned(t)' <=> TargetPlanned(t)
  BY <1>1, <1>6 DEF UnderWay, Waiting, Begun, Gone, Planned, TargetPlanned
<1>9. EventsApart' /\ DeletesOK'
  BY <1>1 DEF EventsApart, DeletesOK
<1>10. MirrorInv'
  <2>1. Answers = {} /\ Answers' = {}
    BY <1>1 DEF Answers
  <2> QED BY <1>1, <2>1 DEF RunState, MirrorInv
\* When the duplicates have been gone through, they are gone.
<1>11. ASSUME Phase = "deleteDuplicates", Phase' # "deleteDuplicates"
       PROVE  /\ current \subseteq Remaining
              /\ \A x \in DuplicatesOfRun : Planned("delete", x)
  <2>1. DuplicatesInv!2
    BY <1>11 DEF RunState, DuplicatesInv
  <2>2. ~noDeletes
    BY <1>3, <1>11 DEF PhasesInOrder
  <2>3. ASSUME NEW x \in DuplicatesOfRun PROVE Planned("delete", x) /\ Gone(x)
    <3>1. x.kind \in InPlay[family] /\ x.kind \in Kinds
      BY <1>4, <1>7
    <3>2. Phase' \in StageOps /\ ~noDeletes'
      BY <1>1, <1>3, <2>2 DEF PhasesInOrder
    <3>3. Passed("deleteDuplicates", x.kind)'
      BY <1>3, <1>11, <3>1, <3>2 DEF PhasesInOrder, StageOps
    <3>4. Passed("deleteDuplicates", x.kind) \/ Begun(x.kind)
      BY <1>2, <1>8, <3>1, <3>3
    <3> QED BY <1>8, <2>1, <3>4
  <2>4. \A x \in before : x \in Remaining <=>
           \A e \in DuplicatesOfRun : x # e /\ x \notin Dependants(e, before, KongCascades)
    BY DEF Remaining
  <2>5. ASSUME NEW x \in current PROVE x \in Remaining
    <3>1. x \in before
      BY <2>1
    <3>2. \A e \in DuplicatesOfRun : x # e /\ ~DependsOn(x, e)
      BY <2>3 DEF Gone
    <3> QED BY <2>4, <3>1, <3>2 DEF Dependants, DependsOn
  <2> QED BY <2>3, <2>5
<1>12. PlanInv'
  <2>1. plan \subseteq Expected
    BY DEF RunState, PlanInv
  <2>2. ASSUME Phase' # "deleteDuplicates", NEW x \in DuplicatesOfRun PROVE Planned("delete", x)
    BY <1>11, <2>2 DEF RunState, PlanInv
  <2> QED BY <1>1, <1>6, <1>8, <2>1, <2>2 DEF PlanInv
<1>13. DuplicatesInv'
  <2> SUFFICES ASSUME Phase' = "deleteDuplicates" PROVE DuplicatesInv'
    BY DEF DuplicatesInv
  <2>1. Phase = "deleteDuplicates" /\ DuplicatesInv!2
    BY <1>2 DEF RunState, DuplicatesInv
  <2>2. ASSUME NEW x \in DuplicatesOfRun
        PROVE  \/ ~Passed("deleteDuplicates", x.kind)' /\ ~Begun(x.kind)'
               \/ Waiting(x)'
               \/ Planned("delete", x)' /\ (UnderWay(x)' \/ Gone(x)')
    <3>1. x.kind \in InPlay[family]
      BY <1>4, <1>7
    <3> QED BY <1>2, <1>8, <2>1, <3>1
  <2>3. ASSUME NEW x \in DuplicatesOfRun
        PROVE  IF x.id \in alreadyDeleted' THEN UnderWay(x)' \/ Gone(x)' ELSE x \in current'
    BY <1>1, <1>8, <2>1
  <2> QED BY <1>1, <1>6, <1>8, <2>1, <2>2, <2>3 DEF DuplicatesInv
<1>14. CreatesInv'
  <2> SUFFICES ASSUME Phase' = "createUpdate" PROVE CreatesInv'
    BY DEF CreatesInv
  <2>1. CASE Phase = "deleteDuplicates"
    <3>1. current \subseteq Remaining /\ Remaining \subseteq current
      BY <1>11, <2>1 DEF RunState, DuplicatesInv
    <3>2. \A t \in target : ~Passed("createUpdate", t.kind)'
      BY <1>2, <1>3, <1>4, <1>5, <2>1 DEF PhasesInOrder
    <3> QED BY <1>1, <1>6, <1>8, <3>1, <3>2 DEF CreatesInv
  <2>2. CASE Phase = "createUpdate"
    <3>1. CreatesInv!2
      BY <2>2 DEF RunState, CreatesInv
    <3>2. ASSUME NEW t \in target
          PROVE  /\ \/ /\ Passed("createUpdate", t.kind)' /\ TargetPlanned(t)' /\ t \in current'
                    \/ ~Passed("createUpdate", t.kind)' /\ (t \in current' => t \in Remaining')
                 /\ Passed("createUpdate", t.kind)' => t \in current'
      <4>1. t.kind \in InPlay[family]
        BY <1>4, <1>5
      <4>2. Passed("createUpdate", t.kind)' <=> Passed("createUpdate", t.kind) \/ Begun(t.kind)
        BY <1>2, <1>8, <2>2, <4>1
      <4> QED BY <1>1, <1>6, <1>8, <3>1, <4>2
    <3> QED BY <1>1, <1>6, <1>8, <3>1, <3>2 DEF CreatesInv
  <2>3. Phase # "delete"
    BY <1>2
  <2> QED BY <1>3, <2>1, <2>2, <2>3 DEF PhasesInOrder, StageOps
<1>15. DeletesInv'
  <2> SUFFICES ASSUME Phase' = "delete" PROVE DeletesInv'
    BY DEF DeletesInv
  <2>1. Phase # "deleteDuplicates"
    <3> SUFFICES ASSUME Phase = "deleteDuplicates" PROVE FALSE
      OBVIOUS
    <3>1. PICK k \in Kinds : k \in InPlay[family]
      BY <1>4
    <3>2. Passed("createUpdate", k)'
      BY <1>3, <3>1 DEF PhasesInOrder
    <3>3. ~Passed("createUpdate", k)
      BY <1>3, <3>1 DEF PhasesInOrder
    <3> QED BY <1>2, <3>1, <3>2, <3>3
  <2>2. CASE Phase = "createUpdate"
    <3>1. CreatesInv!2
      BY <2>2 DEF RunState, CreatesInv
    <3>2. ASSUME NEW t \in target PROVE TargetPlanned(t) /\ t \in current
      <4>1. t.kind \in InPlay[family] /\ t.kind \in Kinds
        BY <1>4, <1>5
      <4>2. Passed("createUpdate", t.kind)'
        BY <1>3, <4>1 DEF PhasesInOrder
      <4>3. Passed("createUpdate", t.kind) \/ Begun(t.kind)
        BY <1>2, <1>8, <4>1, <4>2
      <4> QED BY <1>8, <3>1, <4>3
    <3>3. ASSUME NEW x \in Remaining, ~HasId(target, x.id)
          PROVE  ~Passed("delete", x.kind)' /\ x \in current
      <4>1. x \in current
        BY <3>1, <3>3 DEF HasId
      <4>2. x.kind \in InPlay[family] /\ x.kind \in Kinds
        BY <1>4, <1>5, <4>1
      <4>3. ~Passed("delete", x.kind)
        BY <1>3, <2>2, <4>2 DEF PhasesInOrder
      <4> QED BY <1>2, <2>2, <4>1, <4>2, <4>3
    <3>4. \A x \in current : ~Passed("delete", x.kind)'
      <4>1. \A x \in current : x.kind \in InPlay[family] /\ x.kind \in Kinds
        BY <1>4, <1>5
      <4>2. \A x \in current : ~Passed("delete", x.kind)
        BY <1>3, <2>2, <4>1 DEF PhasesInOrder
      <4> QED BY <1>2, <2>2, <4>1, <4>2
    <3> QED BY <1>1, <1>6, <1>8, <3>1, <3>2, <3>3, <3>4 DEF DeletesInv, HasId
  <2>3. CASE Phase = "delete"
    <3>1. DeletesInv!2
      BY <2>3 DEF RunState, DeletesInv
    <3>2. \A x \in current \cup Remaining : x.kind \in InPlay[family]
      BY <1>4, <1>5 DEF Remaining
    <3>3. \A x \in current \cup Remaining :
             Passed("delete", x.kind)' <=> Passed("delete", x.kind) \/ Begun(x.kind)
      BY <1>2, <1>8, <2>3, <3>2
    <3>4. ASSUME NEW x \in Remaining, ~HasId(target, x.id)
          PROVE  \/ ~Passed("delete", x.kind)' /\ x \in current
                 \/ Planned("delete", x) /\ x \notin current
      BY <1>8, <3>1, <3>3, <3>4
    <3>5. ASSUME NEW x \in current, Passed("delete", x.kind)' PROVE x \in target
      <4>1. CASE Passed("delete", x.kind)
        BY <3>1, <4>1
      <4>2. CASE Begun(x.kind)
        <5>1. ~Passed("delete", x.kind)
          BY <2>3, <4>2, DoingFacts DEF Begun
        <5>2. x \in Remaining => HasId(target, x.id)
          BY <3>4, <3>5
        <5>3. ASSUME x \notin target PROVE FALSE
          <6>1. PICK t \in target : t.id = x.id
            BY <3>1, <5>2, <5>3 DEF HasId
          <6> QED BY <1>5, <3>1, <5>3, <6>1 DEF UniqueIds
        <5> QED BY <5>3
      <4> QED BY <3>3, <3>5, <4>1, <4>2
    <3> QED BY <1>1, <1>6, <1>8, <3>1, <3>4, <3>5 DEF DeletesInv, HasId
  <2> QED BY <1>3, <2>1, <2>2, <2>3 DEF PhasesInOrder, StageOps
<1> QED
  BY <1>9, <1>10, <1>12, <1>13, <1>14, <1>15 DEF RunState

-----------------------------------------------------------------------------
(* The state of a run without errors: the steps of the events.              *)

\* What the steps of an event have in common.
Stepped == /\ UNCHANGED <<input, stage>> /\ family' = family /\ before' = before /\ target' = target
           /\ dry' = dry /\ noDeletes' = noDeletes
           /\ entered' = entered /\ todo' = todo /\ alreadyDeleted' = alreadyDeleted /\ plan' = plan

\* What the steps of an event leave alone.
LEMMA SteppedFrame ==
  ASSUME Stepped
  PROVE  /\ Phase' = Phase /\ Entities' = Entities /\ Remaining' = Remaining
         /\ DuplicatesOfRun' = DuplicatesOfRun /\ Expected' = Expected
         /\ \A op, k : Passed(op, k)' <=> Passed(op, k)
         /\ \A k : Begun(k)' <=> Begun(k)
         /\ \A x : Waiting(x)' <=> Waiting(x)
         /\ \A op, x : Planned(op, x)' <=> Planned(op, x)
         /\ \A t : TargetPlanned(t)' <=> TargetPlanned(t)
         /\ PlanInv => PlanInv'
<1>1. /\ Phase' = Phase /\ Entities' = Entities /\ Remaining' = Remaining
      /\ DuplicatesOfRun' = DuplicatesOfRun /\ Expected' = Expected
      /\ \A op, k : Passed(op, k)' <=> Passed(op, k)
      /\ \A k : Doing(k)' <=> Doing(k)
  BY Frame DEF Stepped
<1>2. /\ \A k : Begun(k)' <=> Begun(k)
      /\ \A x : Waiting(x)' <=> Waiting(x)
      /\ \A op, x : Planned(op, x)' <=> Planned(op, x)
  BY <1>1 DEF Stepped, Begun, Waiting, Planned
<1>3. \A t : TargetPlanned(t)' <=> TargetPlanned(t)
  BY <1>1, <1>2 DEF TargetPlanned
<1>4. PlanInv => PlanInv'
  BY <1>1, <1>2 DEF PlanInv, Stepped
<1> QED
  BY <1>1, <1>2, <1>3, <1>4

\* An event goes on, and the copy stays as it is.
Moved(ev, new) ==
  /\ Stepped /\ current' = current
  /\ inFlight' = (inFlight \ {ev}) \cup {new} /\ new.op = ev.op /\ new.obj = ev.obj

\* An event that goes on, with its dependants accounted for, disturbs nothing.
LEMMA MovedRun ==
  ASSUME TypeInv, RunState, NEW ev \in inFlight, NEW new, Moved(ev, new),
         ev.op = "delete" => \A v \in new.victims : v \in current /\ DependsOn(v, ev.obj),
         ev.op = "delete" =>
           \A x \in current : DependsOn(x, ev.obj) =>
             x \in new.victims \/ \E i \in 1..Len(new.rest) : new.rest[i] = x.kind,
         MirrorInv'
  PROVE  RunState'
<1>1. /\ Phase' = Phase /\ Remaining' = Remaining /\ DuplicatesOfRun' = DuplicatesOfRun
      /\ \A op, k : Passed(op, k)' <=> Passed(op, k)
      /\ \A k : Begun(k)' <=> Begun(k)
      /\ \A x : Waiting(x)' <=> Waiting(x)
      /\ \A op, x : Planned(op, x)' <=> Planned(op, x)
      /\ \A t : TargetPlanned(t)' <=> TargetPlanned(t)
      /\ PlanInv'
  BY SteppedFrame DEF Moved, RunState
<1>2. /\ before' = before /\ target' = target /\ todo' = todo /\ current' = current
      /\ alreadyDeleted' = alreadyDeleted
      /\ inFlight' = (inFlight \ {ev}) \cup {new} /\ new \in inFlight'
      /\ new.op = ev.op /\ new.obj = ev.obj
  BY DEF Moved, Stepped
<1>3. /\ \A x : UnderWay(x)' <=> UnderWay(x)
      /\ \A x : Gone(x)' <=> Gone(x)
  BY <1>2 DEF UnderWay, Gone
<1>4. EventsApart'
  BY <1>1, <1>2 DEF RunState, EventsApart
<1>5. DeletesOK'
  BY <1>2 DEF RunState, DeletesOK
<1>6. DuplicatesInv'
  BY <1>1, <1>2, <1>3 DEF RunState, DuplicatesInv
<1>7. CreatesInv'
  <2> SUFFICES ASSUME Phase = "createUpdate" PROVE CreatesInv'
    BY <1>1 DEF CreatesInv
  <2>1. CreatesInv!2
    BY DEF RunState, CreatesInv
  <2>2. \A other \in inFlight' : other.op = "create" <=> ~HasId(current', other.obj.id)
    BY <1>2, <2>1
  <2> QED BY <1>1, <1>2, <1>3, <2>1, <2>2 DEF CreatesInv
<1>8. DeletesInv'
  <2> SUFFICES ASSUME Phase = "delete" PROVE DeletesInv'
    BY <1>1 DEF DeletesInv
  <2>1. DeletesInv!2
    BY DEF RunState, DeletesInv
  <2>2. \A other \in inFlight' : ~HasId(target, other.obj.id)
    BY <1>2, <2>1
  <2> QED BY <1>1, <1>2, <1>3, <2>1, <2>2 DEF DeletesInv, HasId
<1> QED
  BY <1>1, <1>4, <1>5, <1>6, <1>7, <1>8 DEF RunState

\* The deletes that are not of duplicates: everything that depends on the entity
\* has been deleted before it.
LEMMA NothingDepends ==
  ASSUME TypeInv, RunState, Phase = "delete", NEW ev \in inFlight
  PROVE  \A x \in current : ev.obj.id \notin x.refs /\ ev.obj.id \notin x.uses
<1>1. EventOK(ev) /\ ev.obj \in Entities /\ Doing(ev.obj.kind)
  BY Underway, EventFields DEF EventOK
<1>2. DeletesInv!2
  BY DEF RunState, DeletesInv
<1>3. target \in States[family] /\ family \in DOMAIN States /\ current \subseteq Entities
  BY Underway DEF TypeInv
<1>4. \A t \in target : ev.obj.id \notin t.refs \cup t.uses
  BY <1>2, <1>3, EntityFacts DEF Legal, HasId
<1>5. ASSUME NEW x \in current, ev.obj.id \in x.refs \cup x.uses PROVE FALSE
  <2>1. ev.obj.kind \in Needs(x.kind) /\ x.kind \in Kinds
    BY <1>1, <1>3, <1>5, EntityFacts
  <2>2. Passed("delete", x.kind)
    BY <1>1, <2>1, DoingFacts
  <2> QED BY <1>2, <1>4, <1>5, <2>2
<1> QED
  BY <1>5

\* What an answered delete will look up.
LEMMA NothingForgotten ==
  ASSUME TypeInv, RunState, NEW ev \in inFlight, ev.op = "delete",
         NEW x \in current, DependsOn(x, ev.obj)
  PROVE  \E i \in 1..Len(PostActionCascades[ev.obj.kind]) : PostActionCascades[ev.obj.kind][i] = x.kind
<1>1. EventOK(ev) /\ ev.obj \in Entities /\ ev.obj.kind \in Kinds /\ Phase # "createUpdate" /\ x \in Entities
  BY Underway, EventFields DEF EventOK
<1>2. family \in DOMAIN States /\ before \subseteq Entities /\ target \in States[family]
  BY Underway DEF TypeInv
<1>3. Phase # "delete"
  BY NothingDepends DEF DependsOn
<1>4. Phase = "deleteDuplicates"
  BY <1>1, <1>3, PhaseFacts DEF PhasesInOrder, StageOps
<1>5. ev.obj \in DuplicatesOfRun
  BY <1>4 DEF RunState, DuplicatesInv
<1>6. MayBeDuplicate(ev.obj, Entities)
  BY <1>2, <1>5, DuplicatesOfRunFacts
<1>7. x.kind \in PostCascadesTo(ev.obj.kind)
  BY <1>1, <1>2, <1>6, ForgottenAssumption DEF Entities
<1> QED
  BY <1>1, <1>7, Cascades

\* A dry run takes a request for answered.
LEMMA DryRunRun == ASSUME TypeInv, RunState, NEW ev \in inFlight, DryRun(ev) PROVE RunState'
<1> DEFINE new == Answered(ev)
<1>1. /\ ev.pc = "queued" /\ dry /\ new.op = ev.op /\ new.obj = ev.obj /\ new.victims = {}
      /\ new.rest = IF ev.op = "delete" THEN PostActionCascades[ev.obj.kind] ELSE <<>>
  BY AnsweredFacts DEF DryRun
<1> HIDE DEF new
<1>2. inFlight' = (inFlight \ {ev}) \cup {new} /\ current' = current /\ Stepped
  BY DEF DryRun, Replace, new, Stepped, input, producer
<1>3. Moved(ev, new)
  BY <1>1, <1>2 DEF Moved
<1>4. MirrorInv'
  BY <1>1, <1>2 DEF MirrorInv, Stepped
<1>5. ev.op = "delete" => \A v \in new.victims : v \in current /\ DependsOn(v, ev.obj)
  BY <1>1
<1>6. ev.op = "delete" =>
        \A x \in current : DependsOn(x, ev.obj) =>
          x \in new.victims \/ \E i \in 1..Len(new.rest) : new.rest[i] = x.kind
  BY <1>1, NothingForgotten
<1> QED
  BY <1>3, <1>4, <1>5, <1>6, MovedRun

\* The gateway answers.
LEMMA SendMirror ==
  ASSUME TypeInv, RunState, NEW ev \in inFlight, NEW new, Moved(ev, new), ~dry,
         ev.pc = "queued", new.pc = "answered", kong' = KongAfter(ev.op, ev.obj)
  PROVE  MirrorInv'
<1>1. /\ new.op = ev.op /\ new.obj = ev.obj /\ current' = current
      /\ Answers' = Answers \cup {new} /\ ev \notin Answers /\ new \in Answers'
  BY DEF Moved, Answers
<1>2. \A a \in inFlight : EventOK(a) /\ (a.op = "delete" <=> Phase # "createUpdate")
  BY Underway DEF EventOK
<1>3. kong = {x \in current : \A a \in Answers : ~Hits(a, x)}
                 \cup {a.obj : a \in {a \in Answers : a.op # "delete"}}
  BY DEF RunState, MirrorInv
<1>4. \A x : Hits(new, x) <=> Hits(ev, x)
  BY <1>1 DEF Hits
<1>5. \A x : (\A a \in Answers' : ~Hits(a, x)) <=> (\A a \in Answers : ~Hits(a, x)) /\ ~Hits(ev, x)
  BY <1>1, <1>4
<1>6. CASE ev.op = "delete"
  <2>1. \A a \in Answers : a.op = "delete"
    BY <1>2, <1>6 DEF Answers
  <2>2. \A x : x \in kong <=> x \in current /\ \A a \in Answers : ~Hits(a, x)
    BY <1>3, <2>1
  <2>3. \A x : x \in kong' <=> x \in kong /\ ~Hits(ev, x)
    BY <1>6 DEF KongAfter, Dependants, Hits, DependsOn
  <2>4. \A x : x \in kong' <=> x \in current' /\ \A a \in Answers' : ~Hits(a, x)
    BY <1>1, <1>5, <2>2, <2>3
  <2>5. \A a \in Answers' : a.op = "delete"
    BY <1>1, <1>6, <2>1
  <2>6. kong' = {x \in current' : \A a \in Answers' : ~Hits(a, x)}
                 \cup {a.obj : a \in {a \in Answers' : a.op # "delete"}}
    BY <2>4, <2>5
  <2> QED BY <2>6 DEF MirrorInv, Answers, Hits, DependsOn
<1>7. CASE ev.op # "delete"
  <2>1. \A a \in Answers : a.op # "delete" /\ a.obj.id # ev.obj.id
    BY <1>1, <1>2, <1>7 DEF Answers, RunState, EventsApart
  <2>2. \A x : x \in kong <=> \/ x \in current /\ \A a \in Answers : ~Hits(a, x)
                              \/ \E a \in Answers : x = a.obj
    BY <1>3, <2>1
  <2>3. \A x : x \in kong' <=> (x \in kong /\ x.id # ev.obj.id) \/ x = ev.obj
    BY <1>7 DEF KongAfter
  <2>4. \A x : Hits(ev, x) <=> x.id = ev.obj.id
    BY <1>7 DEF Hits
  <2>5. \A a \in Answers' : a.op # "delete"
    BY <1>1, <1>7, <2>1
  <2>6. \A x : (\E a \in Answers' : x = a.obj) <=> (\E a \in Answers : x = a.obj) \/ x = ev.obj
    BY <1>1
  <2>7. \A x : (\E a \in Answers : x = a.obj) => x.id # ev.obj.id
    BY <2>1
  <2>8. \A x : x \in kong' <=> \/ x \in current' /\ \A a \in Answers' : ~Hits(a, x)
                               \/ \E a \in Answers' : x = a.obj
    BY <1>1, <1>5, <2>2, <2>3, <2>4, <2>6, <2>7
  <2>9. kong' = {x \in current' : \A a \in Answers' : ~Hits(a, x)}
                 \cup {a.obj : a \in {a \in Answers' : a.op # "delete"}}
    BY <2>5, <2>8
  <2> QED BY <2>9 DEF MirrorInv, Answers, Hits, DependsOn
<1> QED
  BY <1>6, <1>7

\* A request is answered, and the gateway is ahead of the copy by it.
LEMMA SendRun ==
  ASSUME TypeInv, RunState, NEW ev \in inFlight, Send(ev), errs' = {} PROVE RunState'
<1> DEFINE new == Answered(ev)
<1>1. /\ ev.pc = "queued" /\ ~dry /\ new.op = ev.op /\ new.obj = ev.obj /\ new.victims = {}
      /\ new.pc = "answered"
      /\ new.rest = IF ev.op = "delete" THEN PostActionCascades[ev.obj.kind] ELSE <<>>
  BY AnsweredFacts DEF Send
<1> HIDE DEF new
<1>2. ~KongRejects(ev.op, ev.obj)
  BY DEF Send, Fails
<1>3. inFlight' = (inFlight \ {ev}) \cup {new} /\ current' = current /\ Stepped
      /\ kong' = KongAfter(ev.op, ev.obj)
  BY <1>2 DEF Send, Replace, new, Stepped, input, producer
<1>4. Moved(ev, new)
  BY <1>1, <1>3 DEF Moved
<1>5. MirrorInv'
  BY <1>1, <1>3, <1>4, SendMirror
<1>6. ev.op = "delete" => \A v \in new.victims : v \in current /\ DependsOn(v, ev.obj)
  BY <1>1
<1>7. ev.op = "delete" =>
        \A x \in current : DependsOn(x, ev.obj) =>
          x \in new.victims \/ \E i \in 1..Len(new.rest) : new.rest[i] = x.kind
  BY <1>1, NothingForgotten
<1> QED
  BY <1>4, <1>5, <1>6, <1>7, MovedRun

\* The dependants of one more kind are found.
LEMMA PostLookupRun ==
  ASSUME TypeInv, RunState, NEW ev \in inFlight, PostLookup(ev) PROVE RunState'
<1>1. PICK new : /\ inFlight' = (inFlight \ {ev}) \cup {new}
                 /\ new.op = ev.op /\ new.obj = ev.obj /\ new.pc = "answered" /\ ev.pc = "answered"
                 /\ new.rest = Tail(ev.rest) /\ ev.rest \in Rests /\ ev.rest # <<>> /\ ev.victims = {}
                 /\ new.victims = {c \in current : c.kind = ev.rest[1] /\ ev.obj.id \in c.refs}
                 /\ UNCHANGED <<input, producer, kong, current, plan, errs, halted>>
  BY PostLookupFacts
<1>2. Stepped /\ kong' = kong /\ current' = current
  BY <1>1 DEF Stepped, input, producer
<1>3. Moved(ev, new)
  BY <1>1, <1>2 DEF Moved
<1>4. MirrorInv'
  <2>1. Answers' = (Answers \ {ev}) \cup {new} /\ ev \in Answers
    BY <1>1 DEF Answers
  <2>2. \A x : Hits(new, x) <=> Hits(ev, x)
    BY <1>1 DEF Hits
  <2>3. \A x : (\A a \in Answers' : ~Hits(a, x)) <=> (\A a \in Answers : ~Hits(a, x))
    BY <2>1, <2>2
  <2>4. {x \in current' : \A a \in Answers' : ~Hits(a, x)} = {x \in current : \A a \in Answers : ~Hits(a, x)}
    BY <1>2, <2>3
  <2>5. \A x : (\E a \in Answers' : a.op # "delete" /\ x = a.obj) <=> (\E a \in Answers : a.op # "delete" /\ x = a.obj)
    BY <1>1, <2>1
  <2>6. {a.obj : a \in {a \in Answers' : a.op # "delete"}} = {a.obj : a \in {a \in Answers : a.op # "delete"}}
    BY <2>5
  <2>7. ~dry => kong' = {x \in current' : \A a \in Answers' : ~Hits(a, x)}
                 \cup {a.obj : a \in {a \in Answers' : a.op # "delete"}}
    BY <1>2, <2>4, <2>6 DEF RunState, MirrorInv
  <2> QED BY <1>2, <2>7 DEF MirrorInv, Answers, Hits, DependsOn, Stepped
<1>5. EventOK(ev) /\ ev.obj.kind \in Kinds
  BY Underway, EventFields
<1>6. Len(ev.rest) \in Nat \ {0} /\ Len(Tail(ev.rest)) = Len(ev.rest) - 1
      /\ \A i \in 1..Len(Tail(ev.rest)) : Tail(ev.rest)[i] = ev.rest[i + 1]
  BY <1>1, RestFacts
<1>7. ev.op = "delete" => \A v \in new.victims : v \in current /\ DependsOn(v, ev.obj)
  <2>1. ev.rest[1] \in PostCascadesTo(ev.obj.kind)
    BY <1>5, <1>6 DEF EventOK
  <2> QED BY <1>1, <1>5, <2>1, PostActionAssumption DEF DependsOn
<1>8. ASSUME ev.op = "delete", NEW x \in current, DependsOn(x, ev.obj)
      PROVE  x \in new.victims \/ \E i \in 1..Len(new.rest) : new.rest[i] = x.kind
  <2>1. PICK i \in 1..Len(ev.rest) : ev.rest[i] = x.kind
    BY <1>1, <1>8 DEF RunState, DeletesOK
  <2>2. CASE i = 1
    BY <1>1, <1>8, <2>1, <2>2 DEF DependsOn
  <2>3. CASE i # 1
    <3>1. i - 1 \in 1..Len(Tail(ev.rest)) /\ (i - 1) + 1 = i
      BY <1>6, <2>1, <2>3
    <3>2. Tail(ev.rest)[i - 1] = ev.rest[i]
      BY <1>6, <3>1
    <3> QED BY <1>1, <2>1, <3>1, <3>2
  <2> QED BY <2>2, <2>3
<1> QED
  BY <1>3, <1>4, <1>7, <1>8, MovedRun

\* What a delete under way in the first phase takes along.
LEMMA DependantFacts ==
  ASSUME TypeInv, RunState, NEW ev \in inFlight, ev.op = "delete",
         NEW v \in current, DependsOn(v, ev.obj)
  PROVE  /\ Phase = "deleteDuplicates" /\ ev.obj \in DuplicatesOfRun /\ ev.obj \in before
         /\ v \notin Remaining /\ v.kind \notin Twinned /\ ev.obj.kind \in Twinned
         /\ \A other \in inFlight : other.obj.id # v.id
         /\ \A other \in inFlight : DependsOn(v, other.obj) => other = ev
<1>1. /\ EventOK(ev) /\ ev.obj \in Entities /\ ev.obj.kind \in Kinds /\ Phase # "createUpdate"
      /\ v \in Entities /\ Doing(ev.obj.kind)
  BY Underway, EventFields DEF EventOK
<1>2. family \in DOMAIN States /\ before \subseteq Entities /\ target \in States[family]
  BY Underway DEF TypeInv
<1>3. Phase = "deleteDuplicates"
  <2>1. Phase # "delete"
    BY NothingDepends DEF DependsOn
  <2> QED BY <1>1, <2>1, PhaseFacts DEF PhasesInOrder, StageOps
<1>4. \A other \in inFlight : other.obj \in DuplicatesOfRun /\ other.obj.kind \in Twinned /\ other.obj \in before
                              /\ other.obj \in Entities /\ Doing(other.obj.kind)
  <2>1. \A other \in inFlight : other.obj \in DuplicatesOfRun
    BY <1>3 DEF RunState, DuplicatesInv
  <2>2. \A other \in inFlight : EventOK(other)
    BY Underway
  <2> QED BY <1>2, <2>1, <2>2, DuplicatesOfRunFacts DEF EventOK
<1>5. v \in before
  BY <1>3 DEF RunState, DuplicatesInv
<1>6. v \in Dependants(ev.obj, before, KongCascades)
  BY <1>5 DEF DependsOn, Dependants
<1>7. v \notin Remaining
  BY <1>4, <1>6 DEF Remaining
<1>8. v.kind \notin Twinned
  <2>1. \E i \in 1..Len(PostActionCascades[ev.obj.kind]) : PostActionCascades[ev.obj.kind][i] = v.kind
    BY NothingForgotten
  <2>2. v.kind \in {"plugin", "filter-chain"}
    BY <1>1, <2>1, Cascades
  <2> QED BY <2>2 DEF Twinned
<1>9. ASSUME NEW other \in inFlight, other.obj.id = v.id PROVE FALSE
  BY <1>1, <1>2, <1>4, <1>8, <1>9, EntityFacts
<1>10. ASSUME NEW other \in inFlight, DependsOn(v, other.obj) PROVE other = ev
  <2>1. other.obj.kind = ev.obj.kind
    BY <1>1, <1>3, <1>4, DoingFacts
  <2>2. other.obj.id = ev.obj.id
    BY <1>1, <1>2, <1>4, <1>10, <2>1, EntityFacts DEF DependsOn
  <2> QED BY <2>2 DEF RunState, EventsApart
<1> QED
  BY <1>3, <1>4, <1>7, <1>8, <1>9, <1>10

\* A dependant goes, which no other event is about.
LEMMA PostCascadeRun ==
  ASSUME TypeInv, RunState, NEW ev \in inFlight, NEW v \in ev.victims, PostCascade(ev, v), errs' = {}
  PROVE  RunState'
<1>1. UNCHANGED <<input, producer, kong, plan, halted>> /\ v \in Entities /\ ev.pc = "answered"
  BY PostCascadeFacts
<1>2. PICK new : /\ inFlight' = (inFlight \ {ev}) \cup {new} /\ EventOK(new) /\ errs' = errs
                 /\ new.op = ev.op /\ new.obj = ev.obj /\ new.pc = "answered"
                 /\ new.rest = ev.rest /\ new.victims = ev.victims \ {v}
                 /\ current' = {f \in current : f.id # v.id}
  BY PostCascadeFacts DEF Fails
<1>3. Stepped /\ kong' = kong
  BY <1>1 DEF Stepped, input, producer
<1>4. ev.op = "delete" /\ v \in current /\ DependsOn(v, ev.obj)
  <2>1. ev.op = "delete"
    BY Underway DEF EventOK
  <2> QED BY <2>1 DEF RunState, DeletesOK
<1>5. /\ Phase = "deleteDuplicates" /\ ev.obj \in DuplicatesOfRun /\ ev.obj \in before
      /\ v \notin Remaining /\ v.kind \notin Twinned /\ ev.obj.kind \in Twinned
      /\ \A other \in inFlight : other.obj.id # v.id
      /\ \A other \in inFlight : DependsOn(v, other.obj) => other = ev
  BY <1>4, DependantFacts
<1>6. /\ Phase' = Phase /\ Remaining' = Remaining /\ DuplicatesOfRun' = DuplicatesOfRun
      /\ \A op, k : Passed(op, k)' <=> Passed(op, k)
      /\ \A k : Begun(k)' <=> Begun(k)
      /\ \A x : Waiting(x)' <=> Waiting(x)
      /\ \A op, x : Planned(op, x)' <=> Planned(op, x)
      /\ PlanInv'
  BY <1>3, SteppedFrame DEF RunState
<1>7. before' = before /\ alreadyDeleted' = alreadyDeleted /\ todo' = todo
  BY <1>3 DEF Stepped
<1>8. UniqueIds(current) /\ \A w \in current : w.id = v.id => w = v
  BY <1>4 DEF TypeInv, UniqueIds
<1>9. current' = current \ {v}
  BY <1>2, <1>4, <1>8
<1>10. /\ \A x : UnderWay(x)' <=> UnderWay(x)
       /\ \A x : Gone(x) => Gone(x)'
  BY <1>2, <1>9 DEF UnderWay, Gone
<1>11. EventsApart'
  BY <1>2, <1>5, <1>6 DEF RunState, EventsApart
<1>12. DeletesOK'
  <2>1. \A other \in inFlight : other.op = "delete" =>
          /\ other.obj \in current'
          /\ \A w \in other.victims : w \in current /\ DependsOn(w, other.obj)
          /\ other # ev => v \notin other.victims
    BY <1>5, <1>9 DEF RunState, DeletesOK
  <2>2. \A other \in inFlight : other.op = "delete" /\ other # ev =>
          \A w \in other.victims : w \in current' /\ DependsOn(w, other.obj)
    BY <1>9, <2>1
  <2>3. /\ new.obj \in current'
        /\ \A w \in new.victims : w \in current' /\ DependsOn(w, new.obj)
    BY <1>2, <1>4, <1>9, <2>1
  <2>4. \A x \in current' : DependsOn(x, new.obj) =>
          x \in new.victims \/ \E i \in 1..Len(new.rest) : new.rest[i] = x.kind
    BY <1>1, <1>2, <1>4, <1>9 DEF RunState, DeletesOK
  <2>5. \A other \in inFlight : other.op = "delete" /\ other.pc = "answered" =>
          \A x \in current' : DependsOn(x, other.obj) =>
            x \in other.victims \/ \E i \in 1..Len(other.rest) : other.rest[i] = x.kind
    BY <1>9 DEF RunState, DeletesOK
  <2>6. ASSUME NEW other \in inFlight', other.op = "delete"
        PROVE  /\ other.obj \in current'
               /\ \A w \in other.victims : w \in current' /\ DependsOn(w, other.obj)
               /\ other.pc = "answered" =>
                    \A x \in current' : DependsOn(x, other.obj) =>
                      x \in other.victims \/ \E i \in 1..Len(other.rest) : other.rest[i] = x.kind
    <3>1. CASE other = new
      BY <2>3, <2>4, <3>1
    <3>2. CASE other \in inFlight /\ other # ev
      BY <2>1, <2>2, <2>5, <2>6, <3>2
    <3> QED BY <1>2, <3>1, <3>2
  <2> QED BY <2>6 DEF DeletesOK, DependsOn
<1>13. DuplicatesInv'
  <2>1. DuplicatesInv!2
    BY <1>5 DEF RunState, DuplicatesInv
  <2>2. Remaining \subseteq current' /\ current' \subseteq before
    BY <1>5, <1>9, <2>1
  <2>3. \A other \in inFlight' : other.obj.id \in alreadyDeleted /\ other.obj \in DuplicatesOfRun
    BY <1>2, <2>1
  <2>4. \A x \in DuplicatesOfRun : x.kind \in Twinned
    BY Underway, DuplicatesOfRunFacts DEF TypeInv
  <2>5. \A x \in DuplicatesOfRun : IF x.id \in alreadyDeleted THEN UnderWay(x)' \/ Gone(x)' ELSE x \in current'
    BY <1>5, <1>9, <1>10, <2>1, <2>4
  <2> QED BY <1>6, <1>7, <1>10, <2>1, <2>2, <2>3, <2>5 DEF DuplicatesInv
<1>14. CreatesInv' /\ DeletesInv'
  BY <1>5, <1>6 DEF CreatesInv, DeletesInv
<1>15. MirrorInv'
  <2>1. Answers' = (Answers \ {ev}) \cup {new} /\ ev \in Answers
    BY <1>1, <1>2 DEF Answers
  <2>2. \A a \in inFlight : a.op = "delete"
    BY <1>5, Underway DEF EventOK
  <2>3. \A a \in Answers \cup Answers' : a.op = "delete"
    BY <1>2, <2>1, <2>2 DEF Answers
  <2>4. \A x : Hits(new, x) <=> Hits(ev, x)
    BY <1>2 DEF Hits
  <2>5. Hits(ev, v)
    BY <1>4 DEF Hits
  <2>6. \A x : (x \in current /\ \A a \in Answers : ~Hits(a, x))
               <=> (x \in current' /\ \A a \in Answers' : ~Hits(a, x))
    BY <1>9, <2>1, <2>4, <2>5
  <2>7. ~dry => kong = {x \in current : \A a \in Answers : ~Hits(a, x)}
                 \cup {a.obj : a \in {a \in Answers : a.op # "delete"}}
    BY DEF RunState, MirrorInv
  <2>8. ~dry => kong' = {x \in current' : \A a \in Answers' : ~Hits(a, x)}
                 \cup {a.obj : a \in {a \in Answers' : a.op # "delete"}}
    BY <1>3, <2>3, <2>6, <2>7
  <2> QED BY <1>3, <2>8 DEF MirrorInv, Answers, Hits, DependsOn, Stepped
<1> QED
  BY <1>6, <1>11, <1>12, <1>13, <1>14, <1>15 DEF RunState

\* The entity goes, and nothing that depended on it is left.
LEMMA PostDeleteRun ==
  ASSUME TypeInv, RunState, NEW ev \in inFlight, PostDelete(ev), errs' = {}
  PROVE  RunState'
<1> DEFINE e == ev.obj
<1>1. /\ ev.pc = "answered" /\ ev.op = "delete" /\ ev.victims = {} /\ ev.rest = <<>>
      /\ UNCHANGED <<input, producer, kong, plan, halted>>
  BY DEF PostDelete, PostEnds
<1>2. e \in Entities /\ EventOK(ev) /\ Phase # "createUpdate" /\ Doing(e.kind) /\ Begun(e.kind)
  BY <1>1, Underway, EventFields DEF EventOK, Begun
<1>3. current' = {f \in current : f.id # e.id} /\ inFlight' = inFlight \ {ev}
  <2>1. ~DeleteRefused(current, e)
    BY DEF PostDelete, PostEnds, Fails
  <2>2. current' = Deleted(current, e) /\ inFlight' = inFlight \ {ev}
    BY <2>1 DEF PostDelete, PostEnds, Replace
  <2> QED BY <1>2, <2>2, CollectionFacts
<1>4. Stepped /\ kong' = kong
  BY <1>1 DEF Stepped, input, producer
<1>5. /\ Phase' = Phase /\ Remaining' = Remaining /\ DuplicatesOfRun' = DuplicatesOfRun
      /\ \A op, k : Passed(op, k)' <=> Passed(op, k)
      /\ \A k : Begun(k)' <=> Begun(k)
      /\ \A x : Waiting(x)' <=> Waiting(x)
      /\ \A op, x : Planned(op, x)' <=> Planned(op, x)
      /\ \A t : TargetPlanned(t)' <=> TargetPlanned(t)
      /\ PlanInv'
  BY <1>4, SteppedFrame DEF RunState
<1>6. before' = before /\ alreadyDeleted' = alreadyDeleted /\ todo' = todo /\ target' = target
  BY <1>4 DEF Stepped
<1>7. /\ e \in current /\ \A w \in current : w.id = e.id => w = e
      /\ \A x \in current : ~DependsOn(x, e)
  <2>1. e \in current /\ \A x \in current : ~DependsOn(x, e)
    BY <1>1 DEF RunState, DeletesOK
  <2> QED BY <2>1 DEF TypeInv, UniqueIds
<1>8. current' = current \ {e}
  BY <1>3, <1>7
<1>9. /\ \A x : x # e => (UnderWay(x)' <=> UnderWay(x))
      /\ \A x : Gone(x) => Gone(x)'
      /\ Gone(e)' /\ e \notin current'
  BY <1>3, <1>7, <1>8 DEF UnderWay, Gone
<1>10. \A other \in inFlight : other # ev => other.obj.id # e.id
  BY DEF RunState, EventsApart
<1>11. EventsApart'
  BY <1>3, <1>5, <1>6 DEF RunState, EventsApart
<1>12. \A other \in inFlight : other.op = "delete"
  BY <1>2, Underway DEF EventOK
<1>13. \A other \in inFlight : e \notin other.victims
  <2> SUFFICES ASSUME NEW other \in inFlight, e \in other.victims PROVE FALSE
    OBVIOUS
  <2>1. DependsOn(e, other.obj)
    BY <1>12 DEF RunState, DeletesOK
  <2> QED BY <1>7, <1>12, <2>1, DependantFacts
<1>14. DeletesOK'
  BY <1>3, <1>7, <1>8, <1>10, <1>13 DEF RunState, DeletesOK
<1>15. DuplicatesInv'
  <2> SUFFICES ASSUME Phase = "deleteDuplicates" PROVE DuplicatesInv'
    BY <1>5 DEF DuplicatesInv
  <2>1. DuplicatesInv!2
    BY DEF RunState, DuplicatesInv
  <2>2. e \in DuplicatesOfRun /\ e.id \in alreadyDeleted
    BY <2>1
  <2>3. Remaining \subseteq current' /\ current' \subseteq before
    <3>1. e \notin Remaining
      BY <2>2 DEF Remaining
    <3> QED BY <1>8, <2>1, <3>1
  <2>4. \A x \in DuplicatesOfRun : UnderWay(x) \/ Gone(x) => UnderWay(x)' \/ Gone(x)'
    BY <1>9
  <2>5. \A x \in DuplicatesOfRun : IF x.id \in alreadyDeleted THEN UnderWay(x)' \/ Gone(x)' ELSE x \in current'
    BY <1>8, <2>1, <2>2, <2>4
  <2> QED BY <1>3, <1>5, <1>6, <2>1, <2>3, <2>4, <2>5 DEF DuplicatesInv
<1>16. CreatesInv'
  BY <1>2, <1>5 DEF CreatesInv
<1>17. DeletesInv'
  <2> SUFFICES ASSUME Phase = "delete" PROVE DeletesInv'
    BY <1>5 DEF DeletesInv
  <2>1. DeletesInv!2
    BY DEF RunState, DeletesInv
  <2>2. ~HasId(target, e.id)
    BY <2>1
  <2>3. target \subseteq current'
    BY <1>8, <2>1, <2>2 DEF HasId
  <2>4. \A d \in todo : d.obj \in current'
    BY <1>8, <2>1 DEF RunState, EventsApart
  <2>5. ASSUME NEW x \in Remaining, ~HasId(target, x.id)
        PROVE  \/ ~Passed("delete", x.kind) /\ ~Begun(x.kind) /\ x \in current'
               \/ ~Passed("delete", x.kind) /\ Begun(x.kind) /\ Waiting(x)
               \/ Planned("delete", x) /\ (UnderWay(x)' \/ x \notin current')
    BY <1>2, <1>8, <1>9, <2>1, <2>5
  <2> QED BY <1>3, <1>5, <1>6, <1>8, <2>1, <2>3, <2>4, <2>5 DEF DeletesInv, HasId
<1>18. MirrorInv'
  <2>1. Answers' = Answers \ {ev} /\ ev \in Answers
    BY <1>1, <1>3 DEF Answers
  <2>2. \A a \in Answers : a.op = "delete"
    BY <1>12 DEF Answers
  <2>3. \A x \in current : Hits(ev, x) <=> x = e
    BY <1>7 DEF Hits
  <2>4. \A x : (x \in current /\ \A a \in Answers : ~Hits(a, x))
               <=> (x \in current' /\ \A a \in Answers' : ~Hits(a, x))
    BY <1>8, <2>1, <2>3
  <2>5. ~dry => kong = {x \in current : \A a \in Answers : ~Hits(a, x)}
                 \cup {a.obj : a \in {a \in Answers : a.op # "delete"}}
    BY DEF RunState, MirrorInv
  <2>6. ~dry => kong' = {x \in current' : \A a \in Answers' : ~Hits(a, x)}
                 \cup {a.obj : a \in {a \in Answers' : a.op # "delete"}}
    BY <1>4, <2>1, <2>2, <2>4, <2>5
  <2> QED BY <1>4, <2>6 DEF MirrorInv, Answers, Hits, DependsOn, Stepped
<1> QED
  BY <1>5, <1>11, <1>14, <1>15, <1>16, <1>17, <1>18 DEF RunState

\* The target has one more entity in the copy.
LEMMA PostCreateUpdateRun ==
  ASSUME TypeInv, RunState, NEW ev \in inFlight, PostCreate(ev) \/ PostUpdate(ev), errs' = {}
  PROVE  RunState'
<1> DEFINE e == ev.obj
<1>1. /\ ev.pc = "answered" /\ ev.op \in {"create", "update"}
      /\ UNCHANGED <<input, producer, kong, plan, halted>>
  BY DEF PostCreate, PostUpdate, PostEnds
<1>2. /\ e \in Entities /\ EventOK(ev) /\ Phase = "createUpdate" /\ Doing(e.kind) /\ Begun(e.kind)
      /\ e \in target
  BY <1>1, Underway, EventFields DEF EventOK, Begun
<1>3. current' = {f \in current : f.id # e.id} \cup {e} /\ inFlight' = inFlight \ {ev}
  <2>1. CASE PostCreate(ev)
    <3>1. ~AddRefused(current, e)
      BY <2>1 DEF PostCreate, PostEnds, Fails
    <3>2. current' = current \cup {e} /\ inFlight' = inFlight \ {ev}
      BY <2>1, <3>1 DEF PostCreate, PostEnds, Replace, Added
    <3>3. WithId(current, e) = SameId(current, e)
      BY <1>2, Underway, LookupFacts
    <3>4. \A f \in current : f.id # e.id
      BY <3>1, <3>3 DEF AddRefused, SameId
    <3> QED BY <3>2, <3>4
  <2>2. CASE PostUpdate(ev)
    <3>1. ~UpdateRefused(current, e)
      BY <2>2 DEF PostUpdate, PostEnds, Fails
    <3>2. current' = Updated(current, e) /\ inFlight' = inFlight \ {ev}
      BY <2>2, <3>1 DEF PostUpdate, PostEnds, Replace
    <3> QED BY <1>2, <3>2, CollectionFacts
  <2> QED BY <2>1, <2>2
<1>4. Stepped /\ kong' = kong
  BY <1>1 DEF Stepped, input, producer
<1>5. /\ Phase' = Phase /\ Remaining' = Remaining
      /\ \A op, k : Passed(op, k)' <=> Passed(op, k)
      /\ \A k : Begun(k)' <=> Begun(k)
      /\ \A x : Waiting(x)' <=> Waiting(x)
      /\ \A t : TargetPlanned(t)' <=> TargetPlanned(t)
      /\ PlanInv'
  BY <1>4, SteppedFrame DEF RunState
<1>6. before' = before /\ todo' = todo /\ target' = target
  BY <1>4 DEF Stepped
<1>7. /\ \A other \in inFlight : other # ev => other.obj.id # e.id
      /\ \A d \in todo : d.obj.id # e.id
  BY <1>2 DEF RunState, EventsApart
<1>8. ~Waiting(e) /\ \A x : x # e => (UnderWay(x)' <=> UnderWay(x))
  BY <1>3, <1>7 DEF Waiting, UnderWay
<1>9. EventsApart'
  BY <1>3, <1>5, <1>6 DEF RunState, EventsApart
<1>10. DeletesOK'
  BY <1>2, <1>3, Underway DEF DeletesOK, EventOK
<1>11. DuplicatesInv' /\ DeletesInv'
  BY <1>2, <1>5 DEF DuplicatesInv, DeletesInv
<1>12. CreatesInv'
  <2>1. CreatesInv!2
    BY <1>2 DEF RunState, CreatesInv
  <2>2. UniqueIds(target)
    BY Underway
  <2>3. \A x : x.id # e.id => (x \in current' <=> x \in current)
    BY <1>3
  <2>4. e \in current'
    BY <1>3
  <2>5. \A x \in Remaining : x \in current' \/ \E t \in target \cap current' : t.id = x.id
    BY <1>2, <2>1, <2>3, <2>4
  <2>6. \A t \in target : t # e => t.id # e.id
    BY <1>2, <2>2 DEF UniqueIds
  <2>7. ASSUME NEW t \in target
        PROVE  \/ /\ Passed("createUpdate", t.kind) \/ (Begun(t.kind) /\ ~Waiting(t))
                  /\ TargetPlanned(t) /\ (t \in current' \/ UnderWay(t)')
               \/ /\ ~Passed("createUpdate", t.kind) /\ (Begun(t.kind) => Waiting(t))
                  /\ t \in current' => t \in Remaining
    <3>1. CASE t = e
      BY <1>2, <1>8, <2>1, <2>4, <3>1
    <3>2. CASE t # e
      BY <1>8, <2>1, <2>3, <2>6, <3>2
    <3> QED BY <3>1, <3>2
  <2>8. \A t \in target : Passed("createUpdate", t.kind) => t \in current'
    BY <2>1, <2>3, <2>4, <2>6
  <2>9. \A other \in inFlight' : HasId(current', other.obj.id) <=> HasId(current, other.obj.id)
    BY <1>3, <1>7 DEF HasId
  <2>10. current' \subseteq Remaining \cup target
    BY <1>2, <1>3, <2>1
  <2> QED BY <1>3, <1>5, <1>6, <2>1, <2>5, <2>7, <2>8, <2>9, <2>10 DEF CreatesInv
<1>13. MirrorInv'
  <2>1. Answers' = Answers \ {ev} /\ ev \in Answers
    BY <1>1, <1>3 DEF Answers
  <2>2. \A a \in Answers : a.op # "delete" /\ (a # ev => a.obj.id # e.id)
    BY <1>2, <1>7, Underway DEF Answers, EventOK
  <2>3. \A a \in Answers : \A x : Hits(a, x) <=> x.id = a.obj.id
    BY <2>2 DEF Hits
  <2>4. \A x : (x \in current /\ \A a \in Answers : ~Hits(a, x)) \/ (\E a \in Answers : x = a.obj)
               <=> (x \in current' /\ \A a \in Answers' : ~Hits(a, x)) \/ (\E a \in Answers' : x = a.obj)
    BY <1>3, <2>1, <2>2, <2>3
  <2>5. ~dry => kong = {x \in current : \A a \in Answers : ~Hits(a, x)}
                 \cup {a.obj : a \in {a \in Answers : a.op # "delete"}}
    BY DEF RunState, MirrorInv
  <2>6. ~dry => \A x : x \in kong' <=>
          (x \in current' /\ \A a \in Answers' : ~Hits(a, x)) \/ (\E a \in Answers' : x = a.obj)
    BY <1>4, <2>2, <2>4, <2>5
  <2>7. ~dry => kong' = {x \in current' : \A a \in Answers' : ~Hits(a, x)}
                 \cup {a.obj : a \in {a \in Answers' : a.op # "delete"}}
    BY <2>1, <2>2, <2>6
  <2> QED BY <1>4, <2>7 DEF MirrorInv, Answers, Hits, DependsOn, Stepped
<1> QED
  BY <1>5, <1>9, <1>10, <1>11, <1>12, <1>13 DEF RunState

-----------------------------------------------------------------------------
(* No request is refused, and no answer goes wrong, for a reason of its own.*)

\* In what a run without errors makes of the copy, a key of a target entity is taken
\* only by an entity of its id.
LEMMA NameIsFree ==
  ASSUME TypeInv, KeysInv, ~noDeletes, NEW e \in target, NEW S, S \subseteq Remaining \cup target,
         NEW f \in Taken(S, e)
  PROVE  f.id = e.id
<1>1. family \in DOMAIN States /\ before \subseteq Entities /\ target \in States[family]
  BY Underway DEF TypeInv
<1>2. f \in S
  BY TakenFacts
<1>3. CASE f \in Remaining
  <2>1. f \in before /\ f \notin DuplicatesOfRun
    BY <1>3 DEF Remaining
  <2>2. f \in Taken(before, e)
    BY <2>1, TakenFacts
  <2>3. Findable(before, e)
    BY DEF KeysInv
  <2> QED BY <1>1, <2>1, <2>2, <2>3, DuplicatesOfRunFacts DEF Findable
<1>4. CASE f \in target
  <2>1. f \in Taken(target, e)
    BY <1>4, TakenFacts
  <2>2. Taken(target, e) \subseteq {e}
    BY <1>1, EntityFacts DEF Legal
  <2> QED BY <2>1, <2>2
<1> QED
  BY <1>2, <1>3, <1>4

\* So no key is held twice in it.
LEMMA CopyIsUnambiguous ==
  ASSUME TypeInv, KeysInv, RunState, ~noDeletes, NEW e \in current
  PROVE  Taken(current, e) \subseteq {e}
<1> SUFFICES ASSUME NEW f \in Taken(current, e) PROVE f = e
  OBVIOUS
<1>1. f \in current /\ e \in Taken(current, f)
  BY TakenFacts, TakenSymmetric
<1>2. ASSUME e \in before, f \in before PROVE f = e
  <2>1. f \in Taken(before, e)
    BY <1>2, TakenFacts
  <2> QED BY <1>2, <2>1 DEF KeysInv
<1>3. CASE Phase = "deleteDuplicates"
  <2>1. current \subseteq before
    BY <1>3 DEF RunState, DuplicatesInv
  <2> QED BY <1>1, <1>2, <2>1
<1>4. CASE Phase # "deleteDuplicates"
  <2>1. current \subseteq Remaining \cup target
    BY <1>4, PhaseFacts DEF PhasesInOrder, StageOps, RunState, CreatesInv, DeletesInv
  <2>2. e \in target \/ f \in target => f.id = e.id
    BY <1>1, <2>1, NameIsFree
  <2>3. f.id = e.id => f = e
    BY <1>1 DEF TypeInv, UniqueIds
  <2>4. Remaining \subseteq before
    BY DEF Remaining
  <2> QED BY <1>1, <1>2, <2>1, <2>2, <2>3, <2>4
<1> QED
  BY <1>3, <1>4

\* What the gateway has in the two phases that delete is in the copy too.
LEMMA DeletesAreBehind ==
  ASSUME TypeInv, RunState, ~dry, Phase # "createUpdate" PROVE kong \subseteq current
<1>1. \A a \in Answers : a.op = "delete"
  BY Underway DEF Answers, EventOK
<1> QED
  BY <1>1 DEF RunState, MirrorInv

\* The gateway refuses no request: references are there, keys are free, a service has
\* lost its routes, and nothing uses what is deleted.
LEMMA NotRejected ==
  ASSUME TypeInv, KeysInv, RunState, ~noDeletes, ~dry, NEW ev \in inFlight, ev.pc = "queued"
  PROVE  ~KongRejects(ev.op, ev.obj)
<1> DEFINE e == ev.obj
<1>1. EventOK(ev) /\ e \in Entities /\ Doing(e.kind) /\ e.kind \in Kinds
  BY Underway, EventFields DEF EventOK
<1>2. /\ family \in DOMAIN States /\ before \subseteq Entities /\ target \in States[family]
      /\ target \subseteq Entities /\ current \subseteq Entities /\ kong \subseteq Entities
  BY Underway DEF TypeInv
<1>3. CASE Phase = "createUpdate"
  <2>1. ev.op # "delete" /\ e \in target
    BY <1>1, <1>3 DEF EventOK
  <2>2. CreatesInv!2
    BY <1>3 DEF RunState, CreatesInv
  <2>3. \A a \in Answers : a.op # "delete" /\ EventOK(a) /\ a.obj \in target
    BY <1>3, Underway DEF Answers, EventOK
  <2>4. kong = {x \in current : \A a \in Answers : ~Hits(a, x)}
                 \cup {a.obj : a \in {a \in Answers : a.op # "delete"}}
    BY DEF RunState, MirrorInv
  <2>5. ASSUME NEW i \in e.refs \cup e.uses PROVE \E f \in kong : f.id = i
    <3>1. PICK g \in target : g.id = i
      BY <1>2, <2>1, EntityFacts DEF Legal
    <3>2. g.kind \in Needs(e.kind) /\ g.kind \in Kinds /\ g \in Entities
      BY <1>1, <1>2, <2>5, <3>1, EntityFacts
    <3>3. Passed("createUpdate", g.kind)
      BY <1>1, <1>3, <3>2, DoingFacts
    <3>4. g \in current
      BY <2>2, <3>3
    <3>5. ASSUME NEW a \in Answers, Hits(a, g) PROVE FALSE
      <4>1. g.id = a.obj.id
        BY <2>3, <3>5 DEF Hits
      <4>2. a.obj \in Entities /\ Doing(a.obj.kind)
        BY <1>2, <2>3 DEF EventOK
      <4>3. a.obj.kind = g.kind
        BY <1>2, <3>2, <4>1, <4>2, EntityFacts
      <4> QED BY <1>3, <3>3, <4>2, <4>3, DoingFacts
    <3> QED BY <2>4, <3>1, <3>4, <3>5
  <2>6. kong \subseteq Remaining \cup target
    BY <2>2, <2>3, <2>4
  <2>7. \A f \in Taken(kong, e) : f.id = e.id
    BY <2>1, <2>6, NameIsFree
  <2> QED BY <2>1, <2>5, <2>7 DEF KongRejects
<1>4. CASE Phase # "createUpdate"
  <2>1. ev.op = "delete" /\ e \in before
    BY <1>1, <1>4 DEF EventOK
  <2>2. kong \subseteq current
    BY <1>4, DeletesAreBehind
  <2>3. CASE Phase = "delete"
    BY <2>1, <2>2, <2>3, NothingDepends DEF KongRejects, OfKind
  <2>4. CASE Phase = "deleteDuplicates"
    <3>1. DuplicatesInv!2
      BY <2>4 DEF RunState, DuplicatesInv
    <3>2. e \in DuplicatesOfRun
      BY <3>1
    <3>3. ASSUME NEW f \in kong, e.id \in f.uses PROVE FALSE
      <4>1. MayBeDuplicate(e, Entities)
        BY <1>2, <3>2, DuplicatesOfRunFacts
      <4> QED BY <1>1, <1>2, <3>3, <4>1, UsedAssumption DEF Entities
    <3>4. ASSUME e.kind = "service", NEW r \in OfKind("route", kong), e.id \in r.refs PROVE FALSE
      <4>1. r \in current /\ r \in before /\ r.kind = "route" /\ r \in Entities
        BY <1>2, <2>2, <3>1 DEF OfKind
      <4>2. r \in DuplicatesOfRun
        BY <1>2, <3>2, <3>4, <4>1, DuplicatesOfRunFacts
      <4>3. e.kind \in Needs(r.kind) /\ r.kind \in Kinds
        BY <1>1, <1>2, <3>4, <4>1, EntityFacts
      <4>4. Passed("deleteDuplicates", r.kind)
        BY <1>1, <2>4, <4>3, DoingFacts
      <4>5. ~Doing(r.kind)
        BY <2>4, <4>4, DoingFacts
      <4>6. ~Waiting(r) /\ ~UnderWay(r)
        BY <4>5, Underway DEF Waiting, UnderWay, TodoOK, EventOK
      <4>7. Gone(r)
        BY <3>1, <4>2, <4>4, <4>6
      <4> QED BY <4>1, <4>7 DEF Gone
    <3> QED BY <2>1, <3>3, <3>4 DEF KongRejects
  <2> QED BY <1>4, <2>3, <2>4, PhaseFacts DEF PhasesInOrder, StageOps
<1> QED
  BY <1>3, <1>4

\* No collection refuses what the answers make of it.
LEMMA NotRefused ==
  ASSUME TypeInv, KeysInv, RunState, ~noDeletes, NEW ev \in inFlight
  PROVE  /\ PostCreate(ev) => errs' = errs
         /\ PostUpdate(ev) => errs' = errs
         /\ PostDelete(ev) => errs' = errs
         /\ \A v \in ev.victims : PostCascade(ev, v) => errs' = errs
<1> DEFINE e == ev.obj
<1>1. EventOK(ev) /\ e \in Entities
  BY Underway, EventFields
<1>2. family \in DOMAIN States /\ target \in States[family] /\ current \subseteq Entities
  BY Underway DEF TypeInv
<1>3. WithId(current, e) = SameId(current, e) /\ (DeleteRefused(current, e) <=> ~HasId(current, e.id))
  BY <1>1, <1>2, LookupFacts, CollectionFacts
<1>4. ASSUME ev.op \in {"create", "update"}
      PROVE  /\ e \in target /\ current \subseteq Remaining \cup target
             /\ ev.op = "create" <=> ~HasId(current, e.id)
  <2>1. Phase = "createUpdate" /\ e \in target
    BY <1>1, <1>4 DEF EventOK
  <2> QED BY <2>1 DEF RunState, CreatesInv
<1>5. ASSUME PostCreate(ev) PROVE errs' = errs
  <2>1. ev.op = "create"
    BY <1>5 DEF PostCreate
  <2>2. ~HasId(current, e.id) /\ e \in target /\ current \subseteq Remaining \cup target
    BY <1>4, <2>1
  <2>3. WithId(current, e) = {}
    BY <1>3, <2>2 DEF SameId, HasId
  <2>4. \A f \in Taken(current, e) : f \in current /\ f.id = e.id
    BY <2>2, NameIsFree, TakenFacts
  <2>5. ~AddRefused(current, e)
    BY <2>2, <2>3, <2>4 DEF AddRefused, HasId
  <2> QED BY <1>5, <2>5 DEF PostCreate, PostEnds
<1>6. ASSUME PostUpdate(ev) PROVE errs' = errs
  <2>1. ev.op = "update"
    BY <1>6 DEF PostUpdate
  <2>2. HasId(current, e.id) /\ e \in target /\ current \subseteq Remaining \cup target
    BY <1>4, <2>1
  <2>3. WithId(current, e) # {}
    BY <1>3, <2>2 DEF SameId, HasId
  <2>4. current \ WithId(current, e) \subseteq Remaining \cup target
    BY <2>2
  <2>5. \A f \in Taken(current \ WithId(current, e), e) : f \in current \ WithId(current, e) /\ f.id = e.id
    BY <2>2, <2>4, NameIsFree, TakenFacts
  <2>6. ~UpdateRefused(current, e)
    BY <1>3, <2>3, <2>5 DEF UpdateRefused, SameId
  <2> QED BY <1>6, <2>6 DEF PostUpdate, PostEnds
<1>7. ASSUME PostDelete(ev) PROVE errs' = errs
  <2>1. e \in current
    BY <1>7 DEF PostDelete, RunState, DeletesOK
  <2>2. ~DeleteRefused(current, e)
    BY <1>3, <2>1 DEF HasId
  <2> QED BY <1>7, <2>2 DEF PostDelete, PostEnds
<1>8. ASSUME NEW v \in ev.victims, PostCascade(ev, v) PROVE errs' = errs
  <2>1. ev.op = "delete"
    BY <1>1 DEF EventOK
  <2>2. v \in current
    BY <2>1 DEF RunState, DeletesOK
  <2>3. ~DeleteRefused(current, v)
    BY <1>2, <2>2, CollectionFacts DEF HasId
  <2> QED BY <1>8, <2>3 DEF PostCascade
<1> QED
  BY <1>5, <1>6, <1>7, <1>8

\* What a step adds to the errors.
LEMMA ErrorsGrow ==
  ASSUME TypeInv, [Next]_vars, ~Rerun
  PROVE  errs \subseteq errs' /\ noDeletes' = noDeletes
BY DEF Next, vars, input, EnterStage, NextStage, Halt, Done, QueueDuplicate, CreateOrUpdate,
       DeleteUnlessWanted, Take, DryRun, Send, SendFails, Fails, PostCreate, PostUpdate, PostEnds,
       PostLookup, PostDelete, PostCascade

\* Every step of a run without errors keeps its state.
LEMMA RunInvNext == TypeInv /\ RunInv /\ [Next]_vars => RunInv'
<1> SUFFICES ASSUME TypeInv, RunInv, [Next]_vars, errs' = {} PROVE RunState'
  BY DEF RunInv
<1>1. CASE Rerun
  BY <1>1, RerunStarts, StartRunNext
<1> SUFFICES ASSUME ~Rerun PROVE RunState'
  BY <1>1
<1>2. errs = {} /\ RunState
  BY ErrorsGrow DEF RunInv
<1>3. CASE EnterStage
  BY <1>2, <1>3, EnterStageRun
<1>4. CASE NextStage
  BY <1>2, <1>4, NextStageRun
<1>5. ~Halt
  BY <1>2 DEF Halt
<1>6. CASE UNCHANGED vars
  <2>1. UNCHANGED <<input, producer, kong, current, inFlight, plan, errs, halted>>
    BY <1>6 DEF vars
  <2>2. Stepped /\ kong' = kong /\ current' = current /\ inFlight' = inFlight
    BY <2>1 DEF Stepped, input, producer
  <2>3. /\ Phase' = Phase /\ Remaining' = Remaining /\ DuplicatesOfRun' = DuplicatesOfRun
        /\ \A op, k : Passed(op, k)' <=> Passed(op, k)
        /\ \A k : Begun(k)' <=> Begun(k)
        /\ \A x : Waiting(x)' <=> Waiting(x)
        /\ \A op, x : Planned(op, x)' <=> Planned(op, x)
        /\ \A t : TargetPlanned(t)' <=> TargetPlanned(t)
        /\ PlanInv'
    BY <1>2, <2>2, SteppedFrame DEF RunState
  <2>4. /\ \A x : UnderWay(x)' <=> UnderWay(x)
        /\ \A x : Gone(x)' <=> Gone(x)
        /\ Answers' = Answers
    BY <2>2 DEF UnderWay, Gone, Answers
  <2>5. EventsApart' /\ DeletesOK'
    BY <1>2, <2>2, <2>3 DEF RunState, EventsApart, DeletesOK, Stepped
  <2>6. DuplicatesInv'
    BY <1>2, <2>2, <2>3, <2>4 DEF RunState, DuplicatesInv, Stepped
  <2>7. CreatesInv'
    BY <1>2, <2>2, <2>3, <2>4 DEF RunState, CreatesInv, Stepped
  <2>8. DeletesInv'
    BY <1>2, <2>2, <2>3, <2>4 DEF RunState, DeletesInv, Stepped, HasId
  <2>9. MirrorInv'
    BY <1>2, <2>2, <2>4 DEF RunState, MirrorInv, Stepped
  <2> QED BY <2>3, <2>5, <2>6, <2>7, <2>8, <2>9 DEF RunState
<1>7. ASSUME NEW d \in todo, QueueDuplicate(d) \/ CreateOrUpdate(d) \/ DeleteUnlessWanted(d)
      PROVE  RunState'
  BY <1>2, <1>7, QueueDuplicateRun, CreateOrUpdateRun, DeleteUnlessWantedRun
<1>8. ASSUME NEW ev \in inFlight, DryRun(ev) \/ Send(ev) PROVE RunState'
  BY <1>2, <1>8, DryRunRun, SendRun
<1>9. ASSUME NEW ev \in inFlight PROVE ~SendFails(ev)
  BY DEF SendFails, Fails
<1>10. ASSUME NEW ev \in inFlight, PostCreate(ev) \/ PostUpdate(ev) PROVE RunState'
  BY <1>2, <1>10, PostCreateUpdateRun
<1>11. ASSUME NEW ev \in inFlight, PostLookup(ev) \/ PostDelete(ev) PROVE RunState'
  BY <1>2, <1>11, PostLookupRun, PostDeleteRun
<1>12. ASSUME NEW ev \in inFlight, NEW v \in ev.victims, PostCascade(ev, v) PROVE RunState'
  BY <1>2, <1>12, PostCascadeRun
<1> QED
  BY <1>3, <1>4, <1>5, <1>6, <1>7, <1>8, <1>9, <1>10, <1>11, <1>12 DEF Next, Done

\* The first error is that of a request without an answer.
LEMMA CauseInvNext == TypeInv /\ KeysInv /\ RunInv /\ CauseInv /\ [Next]_vars => CauseInv'
<1> SUFFICES ASSUME TypeInv, KeysInv, RunInv, CauseInv, [Next]_vars PROVE CauseInv'
  OBVIOUS
<1>1. CASE Rerun
  BY <1>1 DEF Rerun, CauseInv
<1> SUFFICES ASSUME ~Rerun, ~noDeletes, errs = {} PROVE errs' = {} \/ "failed" \in errs'
  BY <1>1, ErrorsGrow DEF CauseInv
<1>2. RunState
  BY DEF RunInv
<1>3. ASSUME \/ EnterStage \/ NextStage \/ Halt \/ UNCHANGED vars
             \/ \E d \in todo : QueueDuplicate(d) \/ CreateOrUpdate(d) \/ DeleteUnlessWanted(d)
             \/ \E ev \in inFlight : DryRun(ev) \/ PostLookup(ev)
      PROVE  errs' = errs
  BY <1>3 DEF vars, EnterStage, NextStage, Halt, QueueDuplicate, CreateOrUpdate,
       DeleteUnlessWanted, Take, DryRun, PostLookup
<1>4. ASSUME NEW ev \in inFlight, Send(ev) PROVE errs' = errs
  <2>1. ~KongRejects(ev.op, ev.obj)
    BY <1>2, <1>4, NotRejected DEF Send
  <2> QED BY <1>4, <2>1 DEF Send
<1>5. ASSUME NEW ev \in inFlight, SendFails(ev) PROVE "failed" \in errs'
  BY <1>5 DEF SendFails, Fails
<1>6. ASSUME NEW ev \in inFlight, PostCreate(ev) \/ PostUpdate(ev) \/ PostDelete(ev) PROVE errs' = errs
  BY <1>2, <1>6, NotRefused
<1>7. ASSUME NEW ev \in inFlight, NEW v \in ev.victims, PostCascade(ev, v) PROVE errs' = errs
  BY <1>2, <1>7, NotRefused
<1> QED
  BY <1>3, <1>4, <1>5, <1>6, <1>7 DEF Next, Done

-----------------------------------------------------------------------------
(* The keys the gateway holds.                                              *)

\* The keys are right in a set of entities.
KeysIn(S, T) == (\A e \in S : Taken(S, e) \subseteq {e}) /\ \A t \in T : Findable(S, t)

LEMMA KeysInBoth == KeysInv <=> KeysIn(before, target) /\ KeysIn(kong, target)
BY DEF KeysInv, KeysIn

\* They are at the start.
LEMMA StartKeys == Init => KeysInv
<1> SUFFICES ASSUME Init PROVE KeysInv
  OBVIOUS
<1>1. family \in DOMAIN States /\ before \in States[family] /\ target \in States[family] /\ kong = before
  BY DEF Init
<1>2. \A e \in before : Taken(before, e) \subseteq {e}
  BY <1>1, LegalAssumption DEF Legal
<1>3. \A t \in target : Findable(before, t)
  BY <1>1, FindableAssumption
<1> QED
  BY <1>1, <1>2, <1>3 DEF KeysInv

\* Less has no key that was not there.
LEMMA KeysOfLess ==
  ASSUME NEW S, NEW T, KeysIn(S, T), NEW R, R \subseteq S
  PROVE  KeysIn(R, T)
<1>1. ASSUME NEW e \in R, NEW f \in Taken(R, e) PROVE f = e
  <2>1. f \in Taken(S, e)
    BY TakenFacts
  <2> QED BY <2>1 DEF KeysIn
<1>2. ASSUME NEW t \in T, NEW c \in Taken(R, t), c.id # t.id PROVE c \in NameTwins(R, t)
  <2>1. c \in R /\ c \in Taken(S, t)
    BY TakenFacts
  <2>2. c \in NameTwins(S, t)
    BY <1>2, <2>1 DEF KeysIn, Findable
  <2>3. Named(R, t) \subseteq Named(S, t)
    BY DEF Named
  <2> QED BY <2>1, <2>2, <2>3, NameTwinsFacts
<1> QED
  BY <1>1, <1>2 DEF KeysIn, Findable

\* A target entity whose keys are free brings no key that was there.
LEMMA KeysOfMore ==
  ASSUME NEW S, NEW T, KeysIn(S, T), NEW e \in T, \A f \in Taken(S, e) : f.id = e.id,
         Legal(T), \A t \in T : t.kind \in Kinds
  PROVE  KeysIn({f \in S : f.id # e.id} \cup {e}, T)
<1> DEFINE R == {f \in S : f.id # e.id} \cup {e}
<1>1. ASSUME NEW x \in R, NEW y \in Taken(R, x) PROVE y = x
  <2>1. y \in R /\ x \in Taken(R, y)
    BY TakenFacts, TakenSymmetric
  <2>2. ASSUME x \in S, y \in S PROVE y = x
    <3>1. y \in Taken(S, x)
      BY <2>2, TakenFacts
    <3> QED BY <2>2, <3>1 DEF KeysIn
  <2>3. ASSUME NEW f \in S, f.id # e.id PROVE f \notin Taken(R, e)
    BY <2>3, TakenFacts
  <2> QED BY <1>1, <2>1, <2>2, <2>3
<1>2. ASSUME NEW t \in T, HasNameOf(e, t), e.kind = t.kind, differOf[t.kind].duplicates PROVE e = t
  <2>1. CASE t.name = {}
    BY <1>2, <2>1 DEF HasNameOf, Legal, UniqueIds
  <2>2. CASE t.name # {}
    <3>1. t.kind \in Twinned
      BY <1>2, KindsWithDuplicates DEF Twinned
    <3>2. "name" \in UniqueKeys(t.kind)
      BY <3>1, TwinnedCollections DEF UniqueKeys
    <3>3. KeyOf("name", e) = <<e.name>> /\ KeyOf("name", t) = <<t.name>>
      BY DEF KeyOf
    <3>4. TakenBy("name", e, t)
      BY <1>2, <2>2, <3>3 DEF HasNameOf, TakenBy, Missing
    <3>5. e \in Taken(T, t)
      BY <1>2, <3>2, <3>4, TakenFacts
    <3> QED BY <3>5 DEF Legal
  <2> QED BY <2>1, <2>2
<1>3. ASSUME NEW t \in T, NEW c \in Taken(R, t), c.id # t.id PROVE c \in NameTwins(R, t)
  <2>1. c # e
    <3>1. c = e => e \in Taken(T, t)
      BY TakenFacts
    <3> QED BY <1>3, <3>1 DEF Legal
  <2>2. c \in S /\ c \in R /\ c.id # e.id /\ c \in Taken(S, t)
    BY <2>1, TakenFacts
  <2>3. c \in NameTwins(S, t)
    BY <1>3, <2>2 DEF KeysIn, Findable
  <2>4. t # e
    BY <2>2
  <2>5. Named(R, t) \subseteq Named(S, t) \cup {e}
    BY DEF Named
  <2>6. e \notin Named(R, t)
    BY <1>2, <2>3, <2>4, NameTwinsFacts DEF Named
  <2> QED BY <2>2, <2>3, <2>5, <2>6, NameTwinsFacts
<1> QED
  BY <1>1, <1>3 DEF KeysIn, Findable

\* Every step keeps the keys right.
LEMMA KeysInvNext == TypeInv /\ KeysInv /\ [Next]_vars => KeysInv'
<1> SUFFICES ASSUME TypeInv, KeysInv, [Next]_vars PROVE KeysInv'
  OBVIOUS
<1>1. KeysIn(before, target) /\ KeysIn(kong, target)
  BY KeysInBoth
<1>2. ASSUME target' = target, before' \in {before, kong}, KeysIn(kong', target) PROVE KeysInv'
  BY <1>1, <1>2 DEF KeysInv, KeysIn
<1>3. CASE Rerun
  BY <1>1, <1>2, <1>3 DEF Rerun
<1>4. ASSUME NEW ev \in inFlight, ~KongRejects(ev.op, ev.obj), kong' = KongAfter(ev.op, ev.obj)
      PROVE  KeysIn(kong', target)
  <2>1. EventOK(ev) /\ family \in DOMAIN States /\ target \in States[family]
    BY Underway DEF TypeInv
  <2>2. CASE ev.op = "delete"
    BY <1>1, <1>4, <2>2, KeysOfLess DEF KongAfter
  <2>3. CASE ev.op # "delete"
    <3>1. ev.obj \in target
      BY <2>1, <2>3 DEF EventOK
    <3>2. Legal(target) /\ \A t \in target : t.kind \in Kinds
      BY <2>1, EntityFacts
    <3>3. \A f \in Taken(kong, ev.obj) : f.id = ev.obj.id
      BY <1>4, <2>3 DEF KongRejects
    <3> QED BY <1>1, <1>4, <2>3, <3>1, <3>2, <3>3, KeysOfMore DEF KongAfter
  <2> QED BY <2>2, <2>3
<1>5. ASSUME NEW ev \in inFlight, Send(ev) \/ SendFails(ev) PROVE KeysInv'
  <2>1. target' = target /\ before' = before
    BY <1>5 DEF Send, SendFails, input
  <2>2. kong' = kong \/ (~KongRejects(ev.op, ev.obj) /\ kong' = KongAfter(ev.op, ev.obj))
    BY <1>5 DEF Send, SendFails
  <2> QED BY <1>1, <1>2, <1>4, <2>1, <2>2
<1>6. ASSUME \/ EnterStage \/ NextStage \/ Halt \/ UNCHANGED vars
             \/ \E d \in todo : QueueDuplicate(d) \/ CreateOrUpdate(d) \/ DeleteUnlessWanted(d)
             \/ \E ev \in inFlight :
                  \/ DryRun(ev) \/ PostCreate(ev) \/ PostUpdate(ev) \/ PostLookup(ev) \/ PostDelete(ev)
                  \/ \E v \in ev.victims : PostCascade(ev, v)
      PROVE  KeysInv'
  <2>1. target' = target /\ before' = before /\ kong' = kong
    BY <1>6 DEF vars, input, EnterStage, NextStage, Halt, QueueDuplicate, CreateOrUpdate,
       DeleteUnlessWanted, Take, DryRun, PostCreate, PostUpdate, PostEnds, PostLookup, PostDelete,
       PostCascade
  <2> QED BY <1>1, <1>2, <2>1
<1> QED
  BY <1>3, <1>5, <1>6 DEF Next, Done

-----------------------------------------------------------------------------
(* The theorems.                                                            *)

\* The inductive invariant holds initially.
LEMMA InitIInv == Init => IInv
BY InitStarts, StartTyped, StartKeys, StartRun DEF Start, IInv, RunInv, CauseInv

\* Every step keeps the inductive invariant.
LEMMA IInvNext == IInv /\ [Next]_vars => IInv'
BY TypeInvNext, KeysInvNext, RunInvNext, CauseInvNext DEF IInv

\* A run without errors ends when all stages are over.
LEMMA AtTheEnd ==
  ASSUME IInv, Clean
  PROVE  /\ RunState /\ inFlight = {} /\ noDeletes \in BOOLEAN
         /\ Phase = IF noDeletes THEN "createUpdate" ELSE "delete"
         /\ \A k \in Kinds : Passed("createUpdate", k) /\ (~noDeletes => Passed("delete", k))
         /\ \A x \in Remaining \cup current \cup target : x.kind \in Kinds
<1>1. TypeInv /\ errs = {} /\ RunState /\ inFlight = {} /\ ~halted
  BY DEF IInv, Clean, Finished, RunInv, TypeInv
<1>2. noDeletes \in BOOLEAN /\ stage \in 1..Len(stages) + 1 /\ ~(stage <= Len(stages))
  BY <1>1, StagesOfRun DEF Clean, Finished, Running
<1>3. stage \in Nat /\ Len(stages) \in Nat /\ stage > Len(stages)
  BY <1>1, <1>2, Underway
<1>4. stage \notin 1..Len(stages)
  BY <1>3
<1>5. Phase = IF noDeletes THEN "createUpdate" ELSE "delete"
  BY <1>4 DEF Phase
<1>6. \A k \in Kinds : Passed("createUpdate", k) /\ (~noDeletes => Passed("delete", k))
  BY <1>1, <1>3, PhaseFacts DEF PhasesInOrder
<1>7. \A x \in Remaining \cup current \cup target : x.kind \in Kinds
  BY <1>1, Underway, EntityFacts DEF Remaining
<1> QED
  BY <1>1, <1>2, <1>5, <1>6, <1>7

\* The copy ends as the target state, or with it.
LEMMA CopyAtTheEnd ==
  ASSUME IInv, Clean
  PROVE  IF noDeletes THEN target \subseteq current ELSE current = target
<1>1. CASE noDeletes
  BY <1>1, AtTheEnd DEF RunState, CreatesInv
<1>2. CASE ~noDeletes
  <2>1. DeletesInv!2
    BY <1>2, AtTheEnd DEF RunState, DeletesInv
  <2>2. \A x \in current : Passed("delete", x.kind)
    BY <1>2, AtTheEnd
  <2>3. current = target
    BY <2>1, <2>2
  <2> QED BY <1>2, <2>3
<1> QED
  BY <1>1, <1>2, AtTheEnd

\* All that was called for has been planned.
LEMMA PlanAtTheEnd ==
  ASSUME IInv, Clean
  PROVE  Expected \subseteq plan
<1>1. \A x \in DuplicatesOfRun : Planned("delete", x)
  BY AtTheEnd DEF RunState, PlanInv
<1>2. \A t \in target : TargetPlanned(t)
  <2>1. CASE noDeletes
    BY <2>1, AtTheEnd DEF RunState, CreatesInv
  <2>2. CASE ~noDeletes
    BY <2>2, AtTheEnd DEF RunState, DeletesInv
  <2> QED BY <2>1, <2>2
<1>3. ASSUME ~noDeletes, NEW x \in Remaining, ~HasId(target, x.id) PROVE Planned("delete", x)
  BY <1>3, AtTheEnd DEF RunState, DeletesInv
<1>4. ASSUME NEW c \in Expected PROVE c \in plan
  <2>1. CASE c \in {[op |-> "delete", obj |-> e] : e \in DuplicatesOfRun}
    BY <1>1, <2>1 DEF Planned
  <2>2. CASE c \in {[op |-> "create", obj |-> t] : t \in {t \in target : \A e \in Remaining : e.id # t.id}}
    BY <1>2, <2>2 DEF TargetPlanned, Planned, HasId
  <2>3. CASE c \in {[op |-> "update", obj |-> t] :
                      t \in {t \in target \ Remaining : \E e \in Remaining : e.id = t.id}}
    <3>1. PICK t \in target : /\ t \notin Remaining /\ HasId(Remaining, t.id)
                              /\ c = [op |-> "update", obj |-> t]
      BY <2>3 DEF HasId
    <3> QED BY <1>2, <3>1 DEF TargetPlanned, Planned
  <2>4. CASE ~noDeletes /\ c \in {[op |-> "delete", obj |-> e] :
                                     e \in {e \in Remaining : \A t \in target : t.id # e.id}}
    BY <1>3, <2>4 DEF Planned, HasId
  <2> QED BY <2>1, <2>2, <2>3, <2>4 DEF Expected
<1> QED
  BY <1>4

\* The types of the variables are among those of the invariant.
LEMMA TypesFollow == TypeInv => TypeOK
<1> SUFFICES ASSUME TypeInv PROVE TypeOK
  OBVIOUS
<1>1. \A ev \in inFlight : /\ ev.op \in Ops /\ ev.obj \in before \cup target
                           /\ ev.pc \in {"queued", "answered"} /\ ev.victims \subseteq before \cup target
  BY Underway, EventFields DEF EventOK
<1>2. ASSUME NEW d \in todo PROVE d.by \in InPlay[family] /\ d.obj \in before \cup target
  <2>1. TodoOK(d) /\ before \subseteq Entities /\ family \in DOMAIN States /\ target \in States[family]
    BY Underway DEF TypeInv
  <2>2. Phase = "deleteDuplicates" => d.obj \in before
    BY <2>1, DuplicatesFacts DEF TodoOK
  <2> QED BY <2>1, <2>2, PhaseFacts DEF TodoOK, PhasesInOrder, StageOps
<1>3. \A c \in plan : c.op \in Ops /\ c.obj \in IF c.op = "delete" THEN before ELSE target
  BY DEF TypeInv, Ops
<1> QED
  BY <1>1, <1>2, <1>3 DEF TypeInv, TypeOK

\* The inductive invariant implies every property.
LEMMA PropertiesFollow ==
  ASSUME IInv
  PROVE  /\ TypeOK /\ OrderRespectsReferences /\ Converges /\ MirrorsKong
         /\ PlanIsExpected /\ DryRunPredicts /\ RejectedOnlyAfterFailure /\ PostProcessSucceeds
<1>1. TypeInv /\ KeysInv /\ RunInv /\ CauseInv
  BY DEF IInv
<1>2. TypeOK
  BY <1>1, TypesFollow
<1>3. OrderRespectsReferences
  BY <1>1, StagesOfRun, OrderOfRuns DEF OrderRespectsReferences, inOrder, stagesOf
<1>4. MirrorsKong
  <2> SUFFICES ASSUME ~dry, errs = {}, inFlight = {} PROVE current = kong
    BY DEF MirrorsKong
  <2>1. Answers = {} /\ MirrorInv
    BY <1>1 DEF Answers, RunInv, RunState
  <2> QED BY <2>1 DEF MirrorInv
<1>5. Converges
  BY <1>4, CopyAtTheEnd, AtTheEnd DEF Converges, MirrorsKong, Clean
<1>6. PlanIsExpected
  <2>1. errs = {} => plan \subseteq Expected
    BY <1>1 DEF RunInv, RunState, PlanInv
  <2> QED BY <2>1, PlanAtTheEnd DEF PlanIsExpected, Clean
<1>7. DryRunPredicts
  BY <1>1, CopyAtTheEnd DEF TypeInv, DryRunPredicts
<1>8. RejectedOnlyAfterFailure /\ PostProcessSucceeds
  <2>1. ~noDeletes /\ errs = {} => \A e \in current : Taken(current, e) \subseteq {e}
    BY <1>1, CopyIsUnambiguous DEF RunInv
  <2> QED BY <1>1, <2>1 DEF CauseInv, RejectedOnlyAfterFailure, PostProcessSucceeds
<1> QED
  BY <1>2, <1>3, <1>4, <1>5, <1>6, <1>7, <1>8
\* What there is to do and what the gateway holds are as IInv says in every reachable
\* state, for any families of entities that satisfy the assumptions.
THEOREM RunInvariance == Spec => []IInv
BY InitIInv, IInvNext, PTL DEF Spec

\* The variables keep their types: no entity comes from anywhere but the gateway and
\* the target.
THEOREM RunTypesHold == Spec => []TypeOK
BY RunInvariance, PropertiesFollow, PTL

\* Nothing is created before, or deleted after, what it belongs to or uses.
THEOREM StagesRespectReferences == Spec => []OrderRespectsReferences
BY RunInvariance, PropertiesFollow, PTL

\* A run without errors leaves the gateway with the target state.
THEOREM RunConverges == Spec => []Converges
BY RunInvariance, PropertiesFollow, PTL

\* Between events the in-memory copy is what the gateway holds.
THEOREM CopyMirrorsKong == Spec => []MirrorsKong
BY RunInvariance, PropertiesFollow, PTL

\* The events of a run without errors are those that the two states call for.
THEOREM PlanIsWhatIsCalledFor == Spec => []PlanIsExpected
BY RunInvariance, PropertiesFollow, PTL

\* A dry run leaves the gateway alone and ends with the copy of a real one.
THEOREM DryRunIsFaithful == Spec => []DryRunPredicts
BY RunInvariance, PropertiesFollow, PTL

\* The gateway refuses a request only after another has had no answer.
THEOREM RejectionHasCause == Spec => []RejectedOnlyAfterFailure
BY RunInvariance, PropertiesFollow, PTL

\* The post-processing of an answer fails only after another request has failed, and takes
\* no key from another entity of the copy.
THEOREM PostProcessHasCause == Spec => []PostProcessSucceeds
BY RunInvariance, PropertiesFollow, PTL
=============================================================================
