---------------------------- MODULE EntityKinds ----------------------------
(***************************************************************************)
(* The kinds of entities of pkg/types, one row for each differ:            *)
(*   deletes     the key by which Deletes looks for a current entity in    *)
(*               the target ("never": Deletes emits nothing)               *)
(*   finds       the key by which CreateAndUpdates looks for a target      *)
(*               entity in the current state                               *)
(*   duplicates  whether the differ implements DuplicatesDeleter           *)
(*   refs        the kinds an entity of this kind may belong to            *)
(*   uses        the kinds it may refer to besides                         *)
(*                                                                         *)
(* An entity is a record [kind, id, name, custom, refs, uses, body]: name  *)
(* stands for what identifies it to a user (name, username, prefix, key,   *)
(* group ...), custom for the custom_id of a consumer, refs for the ids of *)
(* the entities it belongs to, uses for the ids of the others it refers    *)
(* to, body for all the rest.  The keys are                                *)
(*   id      its id                                                        *)
(*   name    its name                                                      *)
(*   custom  its custom_id                                                 *)
(*   prop    its name and what it belongs to                               *)
(*   child   its id and what it belongs to                                 *)
(*   refs    what it belongs to                                            *)
(***************************************************************************)
EXTENDS Sequences, FiniteSets

row(kind, deletes, finds, duplicates, refs, uses) ==
  [kind |-> kind, deletes |-> deletes, finds |-> finds, duplicates |-> duplicates,
   refs |-> refs, uses |-> uses]

servicePackageDiffer == row("service-package", "id", "id", FALSE, {}, {})
rbacRoleDiffer == row("rbac-role", "name", "name", FALSE, {}, {})
certificateDiffer == row("certificate", "id", "id", FALSE, {}, {})
caCertificateDiffer == row("ca-certificate", "id", "id", FALSE, {}, {})
consumerDiffer == row("consumer", "id", "id", TRUE, {}, {})
vaultDiffer == row("vault", "id", "name", FALSE, {}, {})
licenseDiffer == row("license", "id", "id", FALSE, {}, {})
partialDiffer == row("partial", "id", "name", FALSE, {}, {})
keySetDiffer == row("key-set", "id", "id", FALSE, {}, {})
clonedPluginDefinitionDiffer == row("cloned-plugin", "id", "name", FALSE, {}, {})
customPluginDefinitionDiffer == row("custom-plugin", "id", "name", FALSE, {}, {})

consumerGroupDiffer == row("consumer-group", "id", "name", FALSE, {}, {})
rbacEndpointPermissionDiffer ==
  row("rbac-endpoint-permission", "name", "name", FALSE, {"rbac-role"}, {})
sniDiffer == row("sni", "id", "id", FALSE, {"certificate"}, {})
serviceDiffer == row("service", "id", "id", TRUE, {}, {"certificate", "ca-certificate"})
upstreamDiffer == row("upstream", "id", "name", FALSE, {}, {"certificate"})
keyDiffer == row("key", "id", "id", FALSE, {"key-set"}, {})
keyAuthDiffer == row("key-auth", "id", "id", FALSE, {"consumer"}, {})
hmacAuthDiffer == row("hmac-auth", "id", "id", FALSE, {"consumer"}, {})
jwtAuthDiffer == row("jwt-auth", "id", "id", FALSE, {"consumer"}, {})
basicAuthDiffer == row("basic-auth", "id", "id", FALSE, {"consumer"}, {})
oauth2CredDiffer == row("oauth2-cred", "id", "id", FALSE, {"consumer"}, {})
aclGroupDiffer == row("acl-group", "child", "child", FALSE, {"consumer"}, {})
mtlsAuthDiffer == row("mtls-auth", "id", "id", FALSE, {"consumer"}, {"ca-certificate"})

serviceVersionDiffer ==
  row("service-version", "child", "child", FALSE, {"service-package"}, {"service"})
routeDiffer == row("route", "id", "id", TRUE, {"service"}, {})
targetDiffer == row("target", "child", "child", FALSE, {"upstream"}, {})
consumerGroupConsumerDiffer ==
  row("consumer-group-consumer", "refs", "refs", FALSE, {"consumer", "consumer-group"}, {})
consumerGroupPluginDiffer ==
  row("consumer-group-plugin", "never", "prop", FALSE, {"consumer-group"}, {})

pluginDiffer ==
  row("plugin", "prop", "prop", FALSE, {"service", "route", "consumer", "consumer-group"}, {"partial"})
filterChainDiffer == row("filter-chain", "refs", "refs", FALSE, {"service", "route"}, {})
documentDiffer ==
  row("document", "child", "child", FALSE, {"service-package", "service-version"}, {})
degraphqlRouteDiffer == row("degraphql_routes", "id", "id", FALSE, {"service"}, {})
graphqlRateLimitingCostDecorationDiffer ==
  row("graphql_ratelimiting_cost_decorations", "id", "id", FALSE, {"service"}, {})

\* The differs that NewSyncer registers.
entityDiffers ==
  { servicePackageDiffer, rbacRoleDiffer, certificateDiffer, caCertificateDiffer,
    consumerDiffer, vaultDiffer, licenseDiffer, partialDiffer, keySetDiffer,
    clonedPluginDefinitionDiffer, customPluginDefinitionDiffer, consumerGroupDiffer,
    rbacEndpointPermissionDiffer, sniDiffer, serviceDiffer, upstreamDiffer, keyDiffer,
    keyAuthDiffer, hmacAuthDiffer, jwtAuthDiffer, basicAuthDiffer, oauth2CredDiffer,
    aclGroupDiffer, mtlsAuthDiffer, serviceVersionDiffer, routeDiffer, targetDiffer,
    consumerGroupConsumerDiffer, consumerGroupPluginDiffer, pluginDiffer,
    filterChainDiffer, documentDiffer, degraphqlRouteDiffer,
    graphqlRateLimitingCostDecorationDiffer }

Kinds == {d.kind : d \in entityDiffers}

differOf == [k \in Kinds |-> CHOOSE d \in entityDiffers : d.kind = k]

KeyOf(key, e) ==
  CASE key = "id"     -> <<e.id>>
    [] key = "name"   -> <<e.name>>
    [] key = "custom" -> <<e.custom>>
    [] key = "prop"   -> <<e.name, e.refs>>
    [] key = "child"  -> <<e.id, e.refs>>
    [] key = "refs"   -> <<e.refs>>
=============================================================================
