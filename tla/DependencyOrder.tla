-------------------------- MODULE DependencyOrder --------------------------
(* The levels of pkg/diff/order.go, and the stages that diff() makes of    *)
(* them.                                                                   *)
EXTENDS EntityKinds, Integers
Seqs == INSTANCE SequencesExt

\* Mutant: the versions come right after their packages, next to the services.
dependencyOrderByPackage ==
  << <<"service-package", "rbac-role", "certificate", "ca-certificate", "consumer",
       "vault", "license", "partial", "key-set", "cloned-plugin", "custom-plugin">>,
     <<"consumer-group", "rbac-endpoint-permission", "sni", "service-version", "service",
       "upstream", "key", "key-auth", "hmac-auth", "jwt-auth", "basic-auth", "oauth2-cred",
       "acl-group", "mtls-auth">>,
     <<"route", "target", "consumer-group-consumer", "consumer-group-plugin">>,
     <<"plugin", "filter-chain", "document", "degraphql_routes",
       "graphql_ratelimiting_cost_decorations">> >>

dependencyOrder ==
  << <<"service-package", "rbac-role", "certificate", "ca-certificate", "consumer",
       "vault", "license", "partial", "key-set", "cloned-plugin", "custom-plugin">>,
     <<"consumer-group", "rbac-endpoint-permission", "sni", "service", "upstream", "key",
       "key-auth", "hmac-auth", "jwt-auth", "basic-auth", "oauth2-cred", "acl-group",
       "mtls-auth">>,
     <<"service-version", "route", "target", "consumer-group-consumer",
       "consumer-group-plugin">>,
     <<"plugin", "filter-chain", "document", "degraphql_routes",
       "graphql_ratelimiting_cost_decorations">> >>

order == dependencyOrder
reverseOrder == Seqs!Reverse(dependencyOrder)

\* The position of a kind's level in an order, 0 for a kind it does not have
\* (the code's -1).
levelForEvent(kind, levels) ==
  LET has == {i \in 1..Len(levels) : \E j \in 1..Len(levels[i]) : levels[i][j] = kind}
  IN IF has = {} THEN 0 ELSE CHOOSE i \in has : \A h \in has : i <= h

\* The kinds of all levels, in their order.
kindsOf(levels) == levels[1] \o levels[2] \o levels[3] \o levels[4]

\* The stages of an operation that calls wait() after every entity type.
StagePerKind(operation, levels) ==
  [i \in 1..Len(kindsOf(levels)) |-> [op |-> operation, kinds |-> {kindsOf(levels)[i]}]]

\* deleteDuplicates calls wait() after every level, for the kinds whose differ
\* finds duplicates.
StagePerLevel(levels) ==
  [i \in 1..Len(levels) |->
     [op |-> "deleteDuplicates",
      kinds |-> {k \in Kinds : levelForEvent(k, levels) = i}]]

\* diff(): the operations, in their order; noDeletes leaves out the deletes.
stagesOfDiff(withDeletes) ==
  (IF withDeletes THEN StagePerLevel(reverseOrder) ELSE <<>>)
  \o StagePerKind("createUpdate", order)
  \o (IF withDeletes THEN StagePerKind("delete", reverseOrder) ELSE <<>>)

\* Every kind has one stage to be created in, after those of the kinds it refers
\* to, and its deletes come before theirs.
InOrder(stages) ==
  LET at(op, k) == {i \in 1..Len(stages) : stages[i].op = op /\ k \in stages[i].kinds}
  IN \A k \in Kinds :
       /\ Cardinality(at("createUpdate", k)) = 1
       /\ \A r \in differOf[k].refs \cup differOf[k].uses :
            /\ \A i \in at("createUpdate", k), j \in at("createUpdate", r) : j < i
            /\ \A op \in {"deleteDuplicates", "delete"} : \A i \in at(op, k), j \in at(op, r) : i < j
=============================================================================
