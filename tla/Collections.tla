---------------------------- MODULE Collections ----------------------------
(***************************************************************************)
(* The collections of pkg/state, one row for each:                         *)
(*   second   what Add looks up besides the id, to refuse a duplicate      *)
(*   third    what it looks up after that; the second key again if nothing *)
(*   checked  whether Update inserts with the checks of Add                *)
(* and what Add, Update, Delete and the lookups do to a set of entities.   *)
(* Every one of them is one transaction of the memory database.            *)
(*                                                                         *)
(* Taken and what is built on it are about entities whose name and custom  *)
(* are sets of at most one element, empty if the entity has none.          *)
(***************************************************************************)
EXTENDS EntityKinds

collection(kind, second, checked) ==
  [kind |-> kind, second |-> second, third |-> second, checked |-> checked]

servicesCollection == collection("service", "name", FALSE)
routesCollection == collection("route", "name", FALSE)
upstreamsCollection == collection("upstream", "name", FALSE)
targetsCollection == collection("target", "prop", FALSE)
certificatesCollection == collection("certificate", "id", FALSE)
caCertificatesCollection == collection("ca-certificate", "name", FALSE)
snisCollection == collection("sni", "name", FALSE)
pluginsCollection == collection("plugin", "prop", TRUE)
filterChainsCollection == collection("filter-chain", "refs", TRUE)
consumersCollection == [collection("consumer", "name", FALSE) EXCEPT !.third = "custom"]
consumerGroupsCollection == collection("consumer-group", "name", FALSE)
consumerGroupConsumersCollection == collection("consumer-group-consumer", "refs", FALSE)
consumerGroupPluginsCollection == collection("consumer-group-plugin", "child", FALSE)
keyAuthsCollection == collection("key-auth", "name", FALSE)
hmacAuthsCollection == collection("hmac-auth", "name", FALSE)
jwtAuthsCollection == collection("jwt-auth", "name", FALSE)
basicAuthsCollection == collection("basic-auth", "name", FALSE)
oauth2CredsCollection == collection("oauth2-cred", "name", FALSE)
aclGroupsCollection == collection("acl-group", "prop", TRUE)
mtlsAuthsCollection == collection("mtls-auth", "id", FALSE)
rbacRolesCollection == collection("rbac-role", "name", FALSE)
rbacEndpointPermissionsCollection == collection("rbac-endpoint-permission", "name", FALSE)
vaultsCollection == collection("vault", "name", FALSE)
licensesCollection == collection("license", "id", FALSE)
partialsCollection == collection("partial", "name", FALSE)
keysCollection == collection("key", "name", FALSE)
keySetsCollection == collection("key-set", "name", FALSE)
clonedPluginDefinitionsCollection == collection("cloned-plugin", "name", FALSE)
customPluginDefinitionsCollection == collection("custom-plugin", "name", FALSE)
degraphqlRoutesCollection == collection("degraphql_routes", "id", FALSE)
graphqlRateLimitingCostDecorationsCollection == collection("graphql_ratelimiting_cost_decorations", "id", FALSE)
servicePackagesCollection == collection("service-package", "name", FALSE)
serviceVersionsCollection == collection("service-version", "prop", FALSE)
documentsCollection == collection("document", "prop", FALSE)

KongState ==
  { servicesCollection, routesCollection, upstreamsCollection, targetsCollection,
    certificatesCollection, caCertificatesCollection, snisCollection,
    pluginsCollection, filterChainsCollection, consumersCollection,
    consumerGroupsCollection, consumerGroupConsumersCollection,
    consumerGroupPluginsCollection, keyAuthsCollection, hmacAuthsCollection,
    jwtAuthsCollection, basicAuthsCollection, oauth2CredsCollection,
    aclGroupsCollection, mtlsAuthsCollection, rbacRolesCollection,
    rbacEndpointPermissionsCollection, vaultsCollection, licensesCollection,
    partialsCollection, keysCollection, keySetsCollection,
    clonedPluginDefinitionsCollection, customPluginDefinitionsCollection,
    degraphqlRoutesCollection, graphqlRateLimitingCostDecorationsCollection,
    servicePackagesCollection, serviceVersionsCollection, documentsCollection }

collectionOf == [k \in Kinds |-> CHOOSE c \in KongState : c.kind = k]

OfKind(k, S) == {e \in S : e.kind = k}

\* The entities of S that a lookup of e by a key finds.
Lookup(S, key, e) == {f \in OfKind(e.kind, S) : KeyOf(key, f) = KeyOf(key, e)}

WithId(S, e) == Lookup(S, "id", e)

\* What is missing is in no index, and never taken.
Missing(key, e) == (key = "name" /\ e.name = {}) \/ (key = "custom" /\ e.custom = {})

\* The entities of S that have a unique key of e.
Taken(S, e) ==
  {f \in OfKind(e.kind, S) :
     \E key \in {collectionOf[e.kind].second, collectionOf[e.kind].third} :
       ~Missing(key, e) /\ KeyOf(key, f) = KeyOf(key, e)}

\* Add refuses an entity whose id or other key is taken.
AddRefused(S, e) == WithId(S, e) # {} \/ Taken(S, e) # {}
Added(S, e) == S \cup {e}

\* Update takes the entity of that id out and puts the new one in.  Where that is
\* not checked and a key is taken, the index forgets who had it: the set has both.
UpdateRefused(S, e) ==
  \/ WithId(S, e) = {}
  \/ collectionOf[e.kind].checked /\ Taken(S \ WithId(S, e), e) # {}
Updated(S, e) == (S \ WithId(S, e)) \cup {e}

DeleteRefused(S, e) == WithId(S, e) = {}
Deleted(S, e) == S \ WithId(S, e)
=============================================================================
