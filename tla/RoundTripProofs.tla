-------------------------- MODULE RoundTripProofs --------------------------
(***************************************************************************)
(* Why a file that is not edited leads back to the current state, what was *)
(* not edited stays as it was, and a file is refused only for a cause.     *)
(*                                                                         *)
(* The tables of the kinds come first, then what the builder makes in any  *)
(* state that fits the invariants, then the steps: the dump and Load give  *)
(* CurrentInv, the writer and the edits keep FileInv, BuildKind keeps      *)
(* BuiltInv, and what is refused had a cause. FullInv is all of them.      *)
(***************************************************************************)
EXTENDS RoundTripInvariants, GatewayDumpProofs

-----------------------------------------------------------------------------
(* The tables of the kinds.                                                *)

\* The kinds that something is nested in.
NestKinds ==
  {"service", "route", "consumer", "consumer-group", "upstream", "certificate", "rbac-role",
   "service-package", "service-version"}
PropKinds == {"target", "plugin", "acl-group", "service-version", "document"}
RefsKinds == {"filter-chain", "consumer-group-consumer"}
NeverKinds == {"consumer-group-consumer", "rbac-endpoint-permission"}

FormatRow(f) ==
  /\ f.id \in {"always", "never", "unlessNamed"} /\ f.orphan \in {"lost", "error", "kept"}
  /\ f.id = "never" <=> f.kind \in NeverKinds
  /\ f.id = "always" <=> f.kind \in {"certificate", "ca-certificate", "mtls-auth", "partial", "degraphql_routes",
                                     "graphql_ratelimiting_cost_decorations"}
  /\ f.within # {} => f.orphan \in {"lost", "error"}
  /\ f.kind \in Credentials \cup {"consumer-group-consumer"} => f.within = {"consumer"}
  /\ f.kind = "sni" => f.within = {"certificate"}
  /\ f.kind = "route" => f.within = {"service"}
  /\ f.kind = "target" => f.within = {"upstream"}
  /\ f.kind = "consumer-group-plugin" => f.within = {"consumer-group"}
  /\ f.kind = "filter-chain" => f.within = {"service", "route"}
  /\ f.kind = "rbac-endpoint-permission" => f.within = {"rbac-role"}
  /\ f.kind = "service-version" => f.within = {"service-package"}
  /\ f.kind = "document" => f.within = {"service-package", "service-version"}
  /\ f.kind = "plugin" <=> "alone" \in f.within
  /\ f.kind = "plugin" => f.within = {"alone"}

\* What the writer does with the kinds, see format.
LEMMA FormatRows == \A f \in formats : FormatRow(f)
BY SMTT(60) DEF FormatRow, NestKinds, NeverKinds, Credentials, formats, format, serviceFormat, routeFormat,
     pluginFormat, filterChainFormat, upstreamFormat,
     targetFormat, certificateFormat, sniFormat, caCertificateFormat, consumerFormat,
     consumerGroupFormat, consumerGroupConsumerFormat, consumerGroupPluginFormat,
     keyAuthFormat, hmacAuthFormat, jwtAuthFormat, basicAuthFormat, oauth2CredFormat,
     aclGroupFormat, mtlsAuthFormat, rbacRoleFormat, rbacEndpointPermissionFormat,
     vaultFormat, licenseFormat, partialFormat, keyFormat, keySetFormat,
     clonedPluginDefinitionFormat, customPluginDefinitionFormat, degraphqlRouteFormat,
     graphqlRateLimitingCostDecorationFormat, servicePackageFormat, serviceVersionFormat,
     documentFormat

BuildRow(b) ==
  /\ b.lookup \in {"name", "prop", "refs", "none"}
  /\ b.lookup = "refs" <=> b.kind \in RefsKinds
  /\ b.lookup = "prop" <=>
       b.kind \in PropKinds \cup {"consumer-group-plugin", "rbac-endpoint-permission"}
  /\ b.lookup = "none" <=> b.kind \in {"mtls-auth", "license"}

\* The lookups of the builder.
LEMMA BuildRows == DOMAIN build = 1..34 /\ \A i \in 1..34 : BuildRow(build[i])
BY SMTT(60) DEF BuildRow, RefsKinds, PropKinds, NeverKinds, build, ingested, certificates, ingestSNIs, caCertificates, clonedPluginDefinitions,
     customPluginDefinitions, partials, ingestService, ingestRoute, upstreams,
     ingestTargets, consumerGroups, addConsumerGroupPlugins, consumers,
     ingestIntoConsumerGroup, ingestKeyAuths, ingestBasicAuths, ingestHMACAuths,
     ingestJWTAuths, ingestOauth2Creds, ingestACLGroups, ingestMTLSAuths, ingestPlugins,
     ingestFilterChains, keySets, keys, rbacRoles, rbacRolesPermissions, vaults,
     ingestDeGraphqlRoute, ingestGraphqlRateLimitingCostDecoration, licenses,
     konnectPackages, konnectVersions, konnectDocuments

BuiltAt(i, k) ==
    /\ k = "certificate" <=> i = 1
    /\ k = "sni" <=> i = 2
    /\ k = "service" <=> i = 7
    /\ k = "route" <=> i = 8
    /\ k = "upstream" <=> i = 9
    /\ k = "target" <=> i = 10
    /\ k = "consumer-group" <=> i = 11
    /\ k = "consumer-group-plugin" <=> i = 12
    /\ k = "consumer" <=> i = 13
    /\ k = "consumer-group-consumer" <=> i = 14
    /\ k \in Credentials <=> i \in 15..21
    /\ k = "plugin" <=> i = 22
    /\ k = "filter-chain" <=> i = 23
    /\ k = "key-set" <=> i = 24
    /\ k = "key" <=> i = 25
    /\ k = "rbac-role" <=> i = 26
    /\ k = "rbac-endpoint-permission" <=> i = 27
    /\ k = "degraphql_routes" <=> i = 29
    /\ k = "graphql_ratelimiting_cost_decorations" <=> i = 30
    /\ k = "service-package" <=> i = 32
    /\ k = "service-version" <=> i = 33
    /\ k = "document" <=> i = 34

\* When the builder comes to the kinds that are referred to or nested.
LEMMA BuildPositions == \A i \in 1..34 : BuiltAt(i, build[i].kind)
BY SMTT(100) DEF BuiltAt, Credentials, build, ingested, certificates, ingestSNIs, caCertificates, clonedPluginDefinitions,
     customPluginDefinitions, partials, ingestService, ingestRoute, upstreams,
     ingestTargets, consumerGroups, addConsumerGroupPlugins, consumers,
     ingestIntoConsumerGroup, ingestKeyAuths, ingestBasicAuths, ingestHMACAuths,
     ingestJWTAuths, ingestOauth2Creds, ingestACLGroups, ingestMTLSAuths, ingestPlugins,
     ingestFilterChains, keySets, keys, rbacRoles, rbacRolesPermissions, vaults,
     ingestDeGraphqlRoute, ingestGraphqlRateLimitingCostDecoration, licenses,
     konnectPackages, konnectVersions, konnectDocuments

CollectionRow(c) ==
  /\ c.second \in {"id", "name", "prop", "refs", "child"}
  /\ c.second = "prop" <=> c.kind \in PropKinds
  /\ c.second = "refs" <=> c.kind \in RefsKinds
  /\ c.second = "child" <=> c.kind = "consumer-group-plugin"
  /\ c.second = "id" <=> c.kind \in {"certificate", "mtls-auth", "license", "degraphql_routes",
                                     "graphql_ratelimiting_cost_decorations"}

\* The second keys of the collections.
LEMMA CollectionRows == \A c \in KongState : CollectionRow(c)
BY SMTT(60) DEF CollectionRow, PropKinds, RefsKinds, KongState, collection, servicesCollection, routesCollection,
    upstreamsCollection, targetsCollection, certificatesCollection, caCertificatesCollection,
    snisCollection, pluginsCollection, filterChainsCollection, consumersCollection,
    consumerGroupsCollection, consumerGroupConsumersCollection,
    consumerGroupPluginsCollection, keyAuthsCollection, hmacAuthsCollection,
    jwtAuthsCollection, basicAuthsCollection, oauth2CredsCollection,
    aclGroupsCollection, mtlsAuthsCollection, rbacRolesCollection,
    rbacEndpointPermissionsCollection, vaultsCollection, licensesCollection,
    partialsCollection, keysCollection, keySetsCollection,
    clonedPluginDefinitionsCollection, customPluginDefinitionsCollection,
    degraphqlRoutesCollection, graphqlRateLimitingCostDecorationsCollection,
    servicePackagesCollection, serviceVersionsCollection, documentsCollection

DifferRow(d) ==
  /\ d.kind \in {"service", "certificate", "upstream", "consumer-group", "consumer", "rbac-role",
                 "service-package", "key-set"} => d.refs = {}
  /\ d.kind = "sni" => d.refs = {"certificate"}
  /\ d.kind = "route" => d.refs = {"service"}
  /\ d.kind = "target" => d.refs = {"upstream"}
  /\ d.kind = "consumer-group-plugin" => d.refs = {"consumer-group"}
  /\ d.kind = "consumer-group-consumer" => d.refs = {"consumer", "consumer-group"}
  /\ d.kind \in Credentials => d.refs = {"consumer"}
  /\ d.kind = "plugin" => d.refs = {"service", "route", "consumer", "consumer-group"}
  /\ d.kind = "filter-chain" => d.refs = {"service", "route"}
  /\ d.kind = "key" => d.refs = {"key-set"}
  /\ d.kind = "rbac-endpoint-permission" => d.refs = {"rbac-role"}
  /\ d.kind \in {"degraphql_routes", "graphql_ratelimiting_cost_decorations"} => d.refs = {"service"}
  /\ d.kind = "service-version" => d.refs = {"service-package"}
  /\ d.kind = "document" => d.refs = {"service-package", "service-version"}
  /\ \/ d.refs = {}
     \/ d.kind \in {"sni", "route", "target", "consumer-group-plugin", "consumer-group-consumer",
                    "plugin", "filter-chain", "key", "rbac-endpoint-permission", "degraphql_routes",
                    "graphql_ratelimiting_cost_decorations", "service-version", "document"} \cup Credentials

\* What each kind may refer to.
LEMMA DifferRows == \A d \in entityDiffers : DifferRow(d)
BY SMTT(60) DEF DifferRow, Credentials, entityDiffers, row,
     servicePackageDiffer, rbacRoleDiffer, certificateDiffer, caCertificateDiffer,
     consumerDiffer, vaultDiffer, licenseDiffer, partialDiffer, keySetDiffer,
     clonedPluginDefinitionDiffer, customPluginDefinitionDiffer, consumerGroupDiffer,
     rbacEndpointPermissionDiffer, sniDiffer, serviceDiffer, upstreamDiffer, keyDiffer,
     keyAuthDiffer, hmacAuthDiffer, jwtAuthDiffer, basicAuthDiffer, oauth2CredDiffer,
     aclGroupDiffer, mtlsAuthDiffer, serviceVersionDiffer, routeDiffer, targetDiffer,
     consumerGroupConsumerDiffer, consumerGroupPluginDiffer, pluginDiffer,
     filterChainDiffer, documentDiffer, degraphqlRouteDiffer,
     graphqlRateLimitingCostDecorationDiffer

Names34 ==
  {"service-package", "rbac-role", "certificate", "ca-certificate", "consumer", "vault", "license", "partial",
   "key-set", "cloned-plugin", "custom-plugin", "consumer-group", "rbac-endpoint-permission", "sni",
   "service", "upstream", "key", "key-auth", "hmac-auth", "jwt-auth", "basic-auth", "oauth2-cred",
   "acl-group", "mtls-auth", "service-version", "route", "target", "consumer-group-consumer",
   "consumer-group-plugin", "plugin", "filter-chain", "document", "degraphql_routes",
   "graphql_ratelimiting_cost_decorations"}

\* The kinds, written out.
LEMMA KindNames == Kinds = Names34
<1>1. \A d \in entityDiffers : d.kind \in Names34
 BY SMTT(60) DEF Names34, entityDiffers, row,
     servicePackageDiffer, rbacRoleDiffer, certificateDiffer, caCertificateDiffer,
     consumerDiffer, vaultDiffer, licenseDiffer, partialDiffer, keySetDiffer,
     clonedPluginDefinitionDiffer, customPluginDefinitionDiffer, consumerGroupDiffer,
     rbacEndpointPermissionDiffer, sniDiffer, serviceDiffer, upstreamDiffer, keyDiffer,
     keyAuthDiffer, hmacAuthDiffer, jwtAuthDiffer, basicAuthDiffer, oauth2CredDiffer,
     aclGroupDiffer, mtlsAuthDiffer, serviceVersionDiffer, routeDiffer, targetDiffer,
     consumerGroupConsumerDiffer, consumerGroupPluginDiffer, pluginDiffer,
     filterChainDiffer, documentDiffer, degraphqlRouteDiffer,
     graphqlRateLimitingCostDecorationDiffer
<1>2. \A k \in Names34 : \E d \in entityDiffers : d.kind = k
 BY SMTT(60) DEF Names34, entityDiffers, row,
     servicePackageDiffer, rbacRoleDiffer, certificateDiffer, caCertificateDiffer,
     consumerDiffer, vaultDiffer, licenseDiffer, partialDiffer, keySetDiffer,
     clonedPluginDefinitionDiffer, customPluginDefinitionDiffer, consumerGroupDiffer,
     rbacEndpointPermissionDiffer, sniDiffer, serviceDiffer, upstreamDiffer, keyDiffer,
     keyAuthDiffer, hmacAuthDiffer, jwtAuthDiffer, basicAuthDiffer, oauth2CredDiffer,
     aclGroupDiffer, mtlsAuthDiffer, serviceVersionDiffer, routeDiffer, targetDiffer,
     consumerGroupConsumerDiffer, consumerGroupPluginDiffer, pluginDiffer,
     filterChainDiffer, documentDiffer, degraphqlRouteDiffer,
     graphqlRateLimitingCostDecorationDiffer
<1> QED BY <1>1, <1>2 DEF Kinds

\* Each kind has a row of formats.
LEMMA FormatNames == \A k \in Names34 : \E d \in formats : d.kind = k
 BY SMTT(60) DEF Names34, formats, format, serviceFormat, routeFormat,
     pluginFormat, filterChainFormat, upstreamFormat,
     targetFormat, certificateFormat, sniFormat, caCertificateFormat, consumerFormat,
     consumerGroupFormat, consumerGroupConsumerFormat, consumerGroupPluginFormat,
     keyAuthFormat, hmacAuthFormat, jwtAuthFormat, basicAuthFormat, oauth2CredFormat,
     aclGroupFormat, mtlsAuthFormat, rbacRoleFormat, rbacEndpointPermissionFormat,
     vaultFormat, licenseFormat, partialFormat, keyFormat, keySetFormat,
     clonedPluginDefinitionFormat, customPluginDefinitionFormat, degraphqlRouteFormat,
     graphqlRateLimitingCostDecorationFormat, servicePackageFormat, serviceVersionFormat,
     documentFormat

\* Each kind has a collection.
LEMMA CollectionNames == \A k \in Names34 : \E d \in KongState : d.kind = k
 BY SMTT(60) DEF Names34, KongState, collection, servicesCollection, routesCollection,
    upstreamsCollection, targetsCollection, certificatesCollection, caCertificatesCollection,
    snisCollection, pluginsCollection, filterChainsCollection, consumersCollection,
    consumerGroupsCollection, consumerGroupConsumersCollection,
    consumerGroupPluginsCollection, keyAuthsCollection, hmacAuthsCollection,
    jwtAuthsCollection, basicAuthsCollection, oauth2CredsCollection,
    aclGroupsCollection, mtlsAuthsCollection, rbacRolesCollection,
    rbacEndpointPermissionsCollection, vaultsCollection, licensesCollection,
    partialsCollection, keysCollection, keySetsCollection,
    clonedPluginDefinitionsCollection, customPluginDefinitionsCollection,
    degraphqlRoutesCollection, graphqlRateLimitingCostDecorationsCollection,
    servicePackagesCollection, serviceVersionsCollection, documentsCollection

\* The builder goes through each kind once.
LEMMA BuildNames ==
  /\ \A k \in Names34 : \E i \in 1..34 : build[i].kind = k
  /\ \A i \in 1..34 : build[i].kind \in Names34
  /\ \A i, j \in 1..34 : build[i].kind = build[j].kind => i = j
<1>1. \A i \in 1..34 : build[i].kind \in Names34
  BY SMTT(100) DEF Names34, build, ingested, certificates, ingestSNIs, caCertificates, clonedPluginDefinitions,
     customPluginDefinitions, partials, ingestService, ingestRoute, upstreams,
     ingestTargets, consumerGroups, addConsumerGroupPlugins, consumers,
     ingestIntoConsumerGroup, ingestKeyAuths, ingestBasicAuths, ingestHMACAuths,
     ingestJWTAuths, ingestOauth2Creds, ingestACLGroups, ingestMTLSAuths, ingestPlugins,
     ingestFilterChains, keySets, keys, rbacRoles, rbacRolesPermissions, vaults,
     ingestDeGraphqlRoute, ingestGraphqlRateLimitingCostDecoration, licenses,
     konnectPackages, konnectVersions, konnectDocuments
<1>2. \A k \in Names34 : \E i \in 1..34 : build[i].kind = k
  BY SMTT(100) DEF Names34, build, ingested, certificates, ingestSNIs, caCertificates, clonedPluginDefinitions,
     customPluginDefinitions, partials, ingestService, ingestRoute, upstreams,
     ingestTargets, consumerGroups, addConsumerGroupPlugins, consumers,
     ingestIntoConsumerGroup, ingestKeyAuths, ingestBasicAuths, ingestHMACAuths,
     ingestJWTAuths, ingestOauth2Creds, ingestACLGroups, ingestMTLSAuths, ingestPlugins,
     ingestFilterChains, keySets, keys, rbacRoles, rbacRolesPermissions, vaults,
     ingestDeGraphqlRoute, ingestGraphqlRateLimitingCostDecoration, licenses,
     konnectPackages, konnectVersions, konnectDocuments
<1>3. \A i, j \in 1..34 : build[i].kind = build[j].kind => i = j
  BY SMTT(100) DEF build, ingested, certificates, ingestSNIs, caCertificates, clonedPluginDefinitions,
     customPluginDefinitions, partials, ingestService, ingestRoute, upstreams,
     ingestTargets, consumerGroups, addConsumerGroupPlugins, consumers,
     ingestIntoConsumerGroup, ingestKeyAuths, ingestBasicAuths, ingestHMACAuths,
     ingestJWTAuths, ingestOauth2Creds, ingestACLGroups, ingestMTLSAuths, ingestPlugins,
     ingestFilterChains, keySets, keys, rbacRoles, rbacRolesPermissions, vaults,
     ingestDeGraphqlRoute, ingestGraphqlRateLimitingCostDecoration, licenses,
     konnectPackages, konnectVersions, konnectDocuments
<1> QED BY <1>1, <1>2, <1>3

\* The row of build that a kind has.
LEMMA KindIsBuilt ==
  /\ \A k \in Kinds : /\ buildPosition[k] \in 1..34 /\ build[buildPosition[k]].kind = k
                      /\ lookupOf[k] = build[buildPosition[k]].lookup
  /\ \A i \in 1..34 : build[i].kind \in Kinds /\ buildPosition[build[i].kind] = i
<1>1. \A k \in Kinds : buildPosition[k] \in 1..34 /\ build[buildPosition[k]].kind = k
  BY BuildNames, KindNames, BuildRows DEF buildPosition
<1>2. \A i \in 1..34 : build[i].kind \in Kinds /\ buildPosition[build[i].kind] = i
  <2> SUFFICES ASSUME NEW i \in 1..34 PROVE build[i].kind \in Kinds /\ buildPosition[build[i].kind] = i
    OBVIOUS
  <2>1. build[i].kind \in Kinds
    BY BuildNames, KindNames
  <2>2. build[buildPosition[build[i].kind]].kind = build[i].kind /\ buildPosition[build[i].kind] \in 1..34
    BY <2>1, <1>1
  <2> QED BY <2>1, <2>2, BuildNames
<1>3. ASSUME NEW k \in Kinds PROVE lookupOf[k] = build[buildPosition[k]].lookup
  <2>1. Range(build) = {build[i] : i \in 1..34}
    BY BuildRows DEF Range
  <2>2. \A b \in Range(build) : b.kind = k => b = build[buildPosition[k]]
    <3>1. \A i \in 1..34 : build[i].kind = k => build[i] = build[buildPosition[k]]
      BY <1>2
    <3> QED BY <3>1, <2>1
  <2>3. build[buildPosition[k]] \in Range(build) /\ build[buildPosition[k]].kind = k
    BY <2>1, <1>1
  <2>4. (CHOOSE b \in Range(build) : b.kind = k) = build[buildPosition[k]]
    BY <2>2, <2>3
  <2> QED BY <2>4 DEF lookupOf
<1> QED BY <1>1, <1>2, <1>3

\* The rows of the tables that a kind has.
LEMMA RowsOf ==
  ASSUME NEW k \in Kinds
  PROVE  /\ differOf[k] \in entityDiffers /\ differOf[k].kind = k
         /\ formatOf[k] \in formats /\ formatOf[k].kind = k
         /\ collectionOf[k] \in KongState /\ collectionOf[k].kind = k
<1>1. differOf[k] \in entityDiffers /\ differOf[k].kind = k
  <2>1. \E d \in entityDiffers : d.kind = k
    BY DEF Kinds
  <2> QED BY <2>1 DEF differOf
<1>2. formatOf[k] \in formats /\ formatOf[k].kind = k
  BY FormatNames, KindNames DEF formatOf
<1>3. collectionOf[k] \in KongState /\ collectionOf[k].kind = k
  BY CollectionNames, KindNames DEF collectionOf
<1> QED BY <1>1, <1>2, <1>3

\* CollectionRows, by kinds.
LEMMA CollectionSeconds ==
  \A k \in Kinds :
    LET c == collectionOf[k].second IN
    /\ c \in {"id", "name", "prop", "refs", "child"}
    /\ c = "prop" <=> k \in PropKinds
    /\ c = "refs" <=> k \in RefsKinds
    /\ c = "child" => k = "consumer-group-plugin"
    /\ c = "id" => k \in {"certificate", "mtls-auth", "license", "degraphql_routes",
                          "graphql_ratelimiting_cost_decorations"}
BY RowsOf, CollectionRows DEF CollectionRow

\* The keys by which the builder looks for a current entity.
LEMMA Lookups ==
  \A k \in Kinds :
    /\ lookupOf[k] \in {"name", "prop", "refs", "none"}
    /\ lookupOf[k] = "refs" <=> collectionOf[k].second = "refs"
    /\ lookupOf[k] = "prop" <=>
         collectionOf[k].second = "prop" \/ k \in {"consumer-group-plugin", "rbac-endpoint-permission"}
    /\ lookupOf[k] = "none" <=> k \in {"mtls-auth", "license"}
<1>1. \A i \in 1..34 : BuildRow(build[i])
  BY BuildRows
<1>2. \A k \in Kinds : LET b == build[buildPosition[k]] IN
        b.kind = k /\ b.lookup = lookupOf[k] /\ BuildRow(b)
  BY <1>1, KindIsBuilt
<1> QED
  BY <1>2, CollectionSeconds DEF BuildRow

\* Consumers are looked up by their names.
LEMMA ConsumersByName == "consumer" \in Kinds /\ lookupOf["consumer"] = "name"
<1>1. "consumer" \in Kinds
  BY KindNames DEF Names34
<1> QED
  BY <1>1, Lookups, CollectionSeconds DEF PropKinds, RefsKinds

\* What an entity refers to is built before it.
LEMMA RefsBefore ==
  \A k \in Kinds : \A p \in FileRefs(k) : p \in Kinds /\ buildPosition[p] < buildPosition[k]
<1> SUFFICES ASSUME NEW k \in Kinds, NEW p \in FileRefs(k)
             PROVE  p \in Kinds /\ buildPosition[p] < buildPosition[k]
  OBVIOUS
<1>1. /\ p \in differOf[k].refs
      /\ differOf[k].kind = k /\ DifferRow(differOf[k])
  BY RowsOf, DifferRows DEF FileRefs
<1>2. p \in Kinds
  BY <1>1, KindNames DEF DifferRow, Names34, Credentials
<1> DEFINE i == buildPosition[k]
           j == buildPosition[p]
<1>3. i \in 1..34 /\ j \in 1..34 /\ BuiltAt(i, k) /\ BuiltAt(j, p)
  BY <1>2, KindIsBuilt, BuildPositions
<1> QED
  BY <1>1, <1>2, <1>3 DEF DifferRow, BuiltAt, Credentials

Parent10 ==
  {"service", "route", "consumer", "consumer-group", "upstream", "certificate", "rbac-role",
   "key-set", "service-package", "service-version"}

\* What is referred to, and by what.
LEMMA ParentKinds ==
  \A k \in Kinds : \A p \in FileRefs(k) :
    /\ p \in Parent10
    /\ k = "route" => p = "service"
    /\ k = "service-version" => p = "service-package"
    /\ k \notin {"service", "consumer", "consumer-group", "upstream", "certificate", "rbac-role",
                 "key-set", "service-package"}
    /\ k \in Credentials => p = "consumer"
    /\ k = "consumer-group-consumer" => p \in {"consumer", "consumer-group"}
<1> SUFFICES ASSUME NEW k \in Kinds, NEW p \in FileRefs(k)
             PROVE  /\ p \in Parent10
                    /\ k = "route" => p = "service"
                    /\ k = "service-version" => p = "service-package"
                    /\ k \notin {"service", "consumer", "consumer-group", "upstream", "certificate", "rbac-role",
                                 "key-set", "service-package"}
                    /\ k \in Credentials => p = "consumer"
                    /\ k = "consumer-group-consumer" => p \in {"consumer", "consumer-group"}
  OBVIOUS
<1>1. /\ p \in differOf[k].refs
      /\ differOf[k].kind = k /\ DifferRow(differOf[k])
  BY RowsOf, DifferRows DEF FileRefs
<1> QED
  BY <1>1 DEF DifferRow, Credentials, Parent10

\* How kinds are written.
LEMMA Formats ==
  \A k \in Kinds :
    LET f == formatOf[k] IN
    /\ f.id \in {"always", "never", "unlessNamed"} /\ f.orphan \in {"lost", "error", "kept"}
    /\ f.id = "never" <=> k \in NeverKinds
    /\ f.id = "always" <=> k \in {"certificate", "ca-certificate", "mtls-auth", "partial", "degraphql_routes",
                                  "graphql_ratelimiting_cost_decorations"}
    /\ f.within # {} => f.orphan \in {"lost", "error"}
    /\ k \in Credentials => f.within = {"consumer"}
    /\ k = "consumer-group-consumer" => f.within = {"consumer"}
BY RowsOf, FormatRows DEF FormatRow

\* Nothing is nested more than two deep.
LEMMA NestedKinds ==
  \A k \in Kinds : \A p \in FileRefs(k) :
    k \in Parent10 \/ (\E c \in Kinds : k \in FileRefs(c) /\ Nests(c, k)) =>
      (k = "route" /\ p = "service") \/ (k = "service-version" /\ p = "service-package")
BY ParentKinds DEF Parent10

\* What is not nested in its parent refers to it by a name of its own.
LEMMA NamedParents ==
  \A k \in Kinds : \A p \in FileRefs(k) :
    /\ ~Nests(k, p) => p \in {"service", "consumer-group", "key-set"} \/ k = "plugin"
    /\ p # "service-version" => lookupOf[p] = "name"
    /\ p \notin {"service-version", "certificate"} => collectionOf[p].second = "name"
<1> SUFFICES ASSUME NEW k \in Kinds, NEW p \in FileRefs(k)
             PROVE  /\ ~Nests(k, p) => p \in {"service", "consumer-group", "key-set"} \/ k = "plugin"
                    /\ p # "service-version" => lookupOf[p] = "name"
                    /\ p \notin {"service-version", "certificate"} => collectionOf[p].second = "name"
  OBVIOUS
<1>1. /\ p \in differOf[k].refs
      /\ differOf[k].kind = k /\ DifferRow(differOf[k])
      /\ formatOf[k].kind = k /\ FormatRow(formatOf[k])
  BY RowsOf, DifferRows, FormatRows DEF FileRefs
<1>2. ~Nests(k, p) => p \in {"service", "consumer-group", "key-set"} \/ k = "plugin"
  BY <1>1 DEF DifferRow, FormatRow, Nests, Credentials
<1>3. p \in Kinds /\ p \in Parent10
  BY RefsBefore, ParentKinds
<1> QED
  BY <1>2, <1>3, Lookups, CollectionSeconds DEF Parent10, PropKinds, RefsKinds

-----------------------------------------------------------------------------
(* What the builder has made, in any state.                               *)

\* Why a file may be refused.
Cause ==
  \/ \E s, t \in Slots : Contradict(s, t)
  \/ \E s \in Slots : \E r \in file[s].refs : Unresolved(r)

Pre == CurrentInv /\ FileInv /\ BuiltInv

\* An id that is made up is no other, and that of no other slot.
LEMMA FreshIsNew == ASSUME NEW a \in Nat, a # 0, NEW i \in 0..1000 PROVE FreshId(a) # i
BY DEF FreshId

\* Nor are two of those that are made up the same.
LEMMA FreshIsOwn == ASSUME NEW a \in Nat, NEW b \in Nat, a # b PROVE FreshId(a) # FreshId(b)
BY DEF FreshId

\* FirstOf finds one.
LEMMA FirstIsLeast ==
  ASSUME FileInv, NEW X \in SUBSET Slots, X # {}
  PROVE  FirstOf(X) \in X /\ \A t \in X : FirstOf(X) <= t
<1>1. IsFiniteSet(X) /\ X \in SUBSET Nat
  BY FS_Subset DEF FileInv
<1>2. PICK m \in X : \A t \in X : m <= t
  BY <1>1, HasLeast
<1> QED
  BY <1>2 DEF FirstOf

\* What becomes of a slot.
BuiltRefs(s) == {[kind |-> r.kind, id |-> ResolvedId(built, r)] : r \in file[s].refs}
ByKey(s, c) ==
  /\ c.kind = file[s].kind
  /\ lookupOf[c.kind] \in {"name", "prop"} => c.name = file[s].name
  /\ lookupOf[c.kind] \in {"refs", "prop"} => c.refs = built[s].refs
  /\ lookupOf[c.kind] # "none"
  /\ c.kind = "consumer" => c.name # NoName
LooksUp(s, c) ==
  /\ c.kind = file[s].kind /\ c.id = built[s].id
  /\ ByKey(s, c) \/ IdentifiedBy(s, c)

BuiltOK(s) ==
  /\ built[s].kind = file[s].kind /\ built[s].name = file[s].name
  /\ built[s].custom = file[s].custom /\ built[s].refs = BuiltRefs(s)
  /\ built[s] = [kind |-> built[s].kind, id |-> built[s].id, name |-> built[s].name, custom |-> built[s].custom, refs |-> built[s].refs]
  /\ file[s].id # NoId => built[s].id = file[s].id
  /\ file[s].id = NoId => built[s].id = FreshId(s) \/ \E c \in current : LooksUp(s, c)

\* What is found has the key, or else the custom_id.
LEMMA FoundIsLookedUp ==
  ASSUME NEW s \in Slots, SlotOK(file[s]), built[s].refs = BuiltRefs(s), NEW x,
         NEW c \in Found(current, [kind |-> file[s].kind, id |-> x, name |-> file[s].name,
                                   custom |-> file[s].custom, refs |-> BuiltRefs(s)])
  PROVE  c \in current /\ c.kind = file[s].kind /\ (ByKey(s, c) \/ IdentifiedBy(s, c))
<1> DEFINE f == file[s]
           e == [kind |-> f.kind, id |-> x, name |-> f.name, custom |-> f.custom, refs |-> BuiltRefs(s)]
<1>1. e.kind = f.kind /\ e.name = f.name /\ e.custom = f.custom /\ e.refs = BuiltRefs(s)
  OBVIOUS
<1>2. f.kind \in Kinds /\ lookupOf[f.kind] \in {"name", "prop", "refs", "none"}
  BY Lookups DEF SlotOK
<1> HIDE DEF e
<1>3. ASSUME NEW d \in Keyed(current, e) PROVE d \in current /\ ByKey(s, d)
  <2>1. /\ d \in current /\ d.kind = f.kind /\ lookupOf[f.kind] # "none"
        /\ KeyOf(lookupOf[f.kind], d) = KeyOf(lookupOf[f.kind], e)
        /\ f.kind = "consumer" => f.name # NoName
    BY <1>1, <1>3 DEF Keyed, OfKind
  <2>2. /\ lookupOf[f.kind] \in {"name", "prop"} => d.name = f.name
        /\ lookupOf[f.kind] \in {"refs", "prop"} => d.refs = BuiltRefs(s)
    BY <1>1, <1>2, <2>1 DEF KeyOf
  <2>3. f.kind = "consumer" => lookupOf[f.kind] = "name"
    BY ConsumersByName
  <2> QED BY <2>1, <2>2, <2>3 DEF ByKey
<1>4. CASE Keyed(current, e) # {}
  <2>1. c \in Keyed(current, e)
    BY <1>4 DEF Found, e
  <2> QED BY <2>1, <1>3 DEF ByKey
<1>5. CASE Keyed(current, e) = {}
  <2>1. c \in current /\ c.kind = f.kind /\ f.custom # NoName /\ c.custom = f.custom
    BY <1>1, <1>5 DEF Found, OfKind, e
  <2>2. f.kind = "consumer"
    BY <2>1 DEF SlotOK
  <2>3. ASSUME f.name # NoName, NEW d \in OfKind(c.kind, current), d.name = f.name PROVE FALSE
    <3>1. KeyOf("name", d) = KeyOf("name", e)
      BY <1>1, <2>3 DEF KeyOf
    <3>2. d \in Keyed(current, e)
      BY <1>1, <2>1, <2>2, <2>3, <3>1, ConsumersByName DEF Keyed, OfKind
    <3> QED BY <3>2, <1>5
  <2> QED BY <2>1, <2>3 DEF IdentifiedBy
<1> QED
  BY <1>4, <1>5

\* Whatever is built has this shape.
LEMMA BuiltShape == ASSUME Pre, NEW s \in DOMAIN built PROVE BuiltOK(s)
<1> DEFINE f == file[s]
           e == [kind |-> f.kind, id |-> f.id, name |-> f.name, custom |-> f.custom, refs |-> BuiltRefs(s)]
           found == Found(current, e)
<1>1. s \in Slots /\ SlotOK(f)
  BY DEF Pre, FileInv, BuiltInv
<1>2. built[s] = IF f.id # NoId THEN e
                 ELSE [e EXCEPT !.id = IF found = {} THEN FreshId(s) ELSE (CHOOSE c \in found : TRUE).id]
  BY DEF Pre, BuiltInv, Built, BuiltRefs
<1>3. CASE f.id # NoId
  BY <1>2, <1>3 DEF BuiltOK
<1>4. CASE f.id = NoId
  <2> DEFINE i == IF found = {} THEN FreshId(s) ELSE (CHOOSE c \in found : TRUE).id
  <2>0. built[s] = [e EXCEPT !.id = i]
    BY <1>2, <1>4
  <2> HIDE DEF i
  <2>1. built[s] = [kind |-> f.kind, id |-> i, name |-> f.name, custom |-> f.custom, refs |-> BuiltRefs(s)]
    BY <2>0
  <2>2. ASSUME found # {} PROVE \E c \in current : LooksUp(s, c)
    <3> HIDE DEF found
    <3>1. PICK c : c \in found /\ i = c.id
      BY <2>2 DEF i
    <3>2. built[s].id = c.id /\ built[s].refs = BuiltRefs(s)
      BY <2>1, <3>1
    <3>3. c \in current /\ c.kind = f.kind /\ (ByKey(s, c) \/ IdentifiedBy(s, c))
      BY <1>1, <3>1, <3>2, FoundIsLookedUp DEF found
    <3> QED
      BY <3>2, <3>3 DEF LooksUp
  <2>3. found = {} => i = FreshId(s)
    BY DEF i
  <2> HIDE DEF found
  <2> QED
    BY <1>4, <2>1, <2>2, <2>3 DEF BuiltOK
<1> QED
  BY <1>3, <1>4

\* What a slot refers to has been built before it.
LEMMA ParentsBuilt ==
  ASSUME Pre, NEW s \in DOMAIN built, NEW r \in file[s].refs, NEW t \in Slots, file[t].kind = r.kind
  PROVE  t \in DOMAIN built
<1>1. s \in Slots /\ SlotOK(file[s]) /\ SlotOK(file[t])
  BY DEF Pre, FileInv, BuiltInv
<1>2. file[s].kind \in Kinds /\ r.kind \in FileRefs(file[s].kind)
  BY <1>1 DEF SlotOK, RefOK
<1>3. buildPosition[file[t].kind] < buildPosition[file[s].kind]
  BY <1>2, RefsBefore
<1>4. buildPosition[file[t].kind] \in Nat /\ buildPosition[file[s].kind] \in Nat
  <2>1. \A k \in Kinds : buildPosition[k] \in Nat
    BY KindIsBuilt
  <2>2. file[t].kind \in Kinds /\ file[s].kind \in Kinds
    BY <1>1 DEF SlotOK
  <2> QED BY <2>1, <2>2
<1> QED
  BY <1>3, <1>4 DEF Pre, BuiltInv

\* A reference that is not an id leads to a slot, and has its id.
LEMMA ReferenceLeads ==
  ASSUME Pre, NEW s \in DOMAIN built, NEW r \in file[s].refs, r.by # "id"
  PROVE  \E t \in LeadsTo(r) \cap DOMAIN built : built[t].id = ResolvedId(built, r)
<1>1. s \in Slots /\ SlotOK(file[s]) /\ RefOK(file[s].kind, r) /\ ~Dangling(built, file[s].kind, r)
  <2>1. s \in Slots /\ ~Dangling(built, file[s].kind, r)
    BY DEF Pre, BuiltInv
  <2>2. SlotOK(file[s])
    BY <2>1 DEF Pre, FileInv
  <2> QED BY <2>1, <2>2 DEF SlotOK
<1>2. r.by \in {"slot", "name", "either"}
  BY <1>1 DEF RefOK
<1>3. CASE r.by = "slot"
  <2>1. r.key \in Slots /\ file[r.key].kind = r.kind
    BY <1>1, <1>3 DEF RefOK
  <2>2. r.key \in DOMAIN built
    BY <2>1, ParentsBuilt
  <2>3. r.key \in LeadsTo(r)
    BY <2>1, <1>3 DEF LeadsTo
  <2>4. ResolvedId(built, r) = built[r.key].id
    BY <1>3 DEF ResolvedId
  <2> QED
    BY <2>2, <2>3, <2>4
<1>4. CASE r.by = "name"
  <2> DEFINE X == ByName(built, r.kind, r.key)
  <2>1. X # {}
    BY <1>1, <1>4 DEF Dangling
  <2>2. X \in SUBSET Slots
    BY DEF ByName, Pre, BuiltInv
  <2>3. FirstOf(X) \in X
    BY <2>1, <2>2, FirstIsLeast DEF Pre
  <2>4. PICK t \in X : t = FirstOf(X)
    BY <2>3
  <2>5. t \in DOMAIN built /\ t \in Slots /\ built[t].kind = r.kind /\ built[t].name = r.key
    BY <2>2 DEF ByName
  <2>6. t \in LeadsTo(r)
    BY <2>5, <1>4, BuiltShape DEF LeadsTo, BuiltOK
  <2>7. ResolvedId(built, r) = built[t].id
    BY <2>4, <1>4 DEF ResolvedId
  <2> QED
    BY <2>5, <2>6, <2>7
<1>5. CASE r.by = "either"
  <2> DEFINE X == ById(built, r.kind, r.key) \cup ByName(built, r.kind, r.alt)
  <2>1. X # {}
    BY <1>1, <1>5 DEF Dangling
  <2>2. X \in SUBSET Slots
    BY DEF ById, ByName, Pre, BuiltInv
  <2>3. FirstOf(X) \in X
    BY <2>1, <2>2, FirstIsLeast DEF Pre
  <2>4. PICK t \in X : t = FirstOf(X)
    BY <2>3
  <2>5. /\ t \in DOMAIN built /\ t \in Slots /\ built[t].kind = r.kind
        /\ built[t].id = r.key \/ built[t].name = r.alt
    BY <2>2 DEF ById, ByName
  <2>6. BuiltOK(t)
    BY <2>5, BuiltShape
  <2>7. t \in LeadsTo(r)
    <3>1. CASE built[t].name = r.alt
      BY <3>1, <2>5, <2>6, <1>5 DEF LeadsTo, BuiltOK
    <3>2. CASE built[t].id = r.key
      <4>1. CASE file[t].id # NoId
        BY <4>1, <3>2, <2>5, <2>6, <1>5 DEF LeadsTo, BuiltOK
      <4>2. CASE file[t].id = NoId
        <5>1. r.key \in 1..999 /\ r.kind = "consumer-group" /\ \A c \in current : c.id = r.key => c.name = r.alt
          BY <1>1, <1>5 DEF RefOK
        <5>2. t \in Nat
          BY <2>5 DEF Pre, FileInv
        <5>3. PICK c \in current : LooksUp(t, c)
          <6>1. built[t].id # FreshId(t)
            <7>1. PICK i \in 1..999 : i = r.key
              BY <5>1
            <7>2. i # FreshId(t)
              BY <5>2 DEF FreshId
            <7> QED BY <3>2, <7>1, <7>2
          <6> QED BY <6>1, <4>2, <2>6 DEF BuiltOK
        <5>4. c.id = r.key /\ c.kind = "consumer-group" /\ c.name = r.alt
          BY <5>3, <5>1, <3>2, <2>5, <2>6 DEF LooksUp, BuiltOK
        <5>5. lookupOf[c.kind] \in {"name", "prop"}
          <6>1. "consumer-group" \in Kinds
            BY KindNames DEF Names34
          <6> QED BY <6>1, <5>4, Lookups, CollectionSeconds DEF PropKinds, RefsKinds
        <5>6. file[t].name = r.alt
          <6>1. SlotOK(file[t]) /\ c.kind = file[t].kind
            BY <2>5, <5>3 DEF LooksUp, Pre, FileInv
          <6>2. file[t].custom = NoName
            BY <6>1, <5>4 DEF SlotOK
          <6>3. ByKey(t, c)
            BY <5>3, <6>2 DEF LooksUp, IdentifiedBy
          <6> QED BY <6>3, <5>4, <5>5 DEF ByKey
        <5> QED BY <5>6, <2>5, <2>6, <1>5 DEF LeadsTo, BuiltOK
      <4> QED BY <4>1, <4>2
    <3> QED BY <3>1, <3>2, <2>5
  <2>8. ResolvedId(built, r) = built[t].id
    BY <2>4, <1>5 DEF ResolvedId
  <2> QED
    BY <2>5, <2>7, <2>8
<1> QED
  BY <1>2, <1>3, <1>4, <1>5

\* Where a reference leads in a file that does not contradict itself.
LEMMA ReferenceMeets ==
  ASSUME Pre, ~Cause, NEW s \in DOMAIN built, NEW r \in file[s].refs
  PROVE  \E t \in LeadsTo(r) \cap DOMAIN built : built[t].kind = r.kind /\ built[t].id = ResolvedId(built, r)
<1>0. s \in Slots /\ SlotOK(file[s])
  BY DEF Pre, FileInv, BuiltInv
<1>1. CASE r.by # "id"
  <2>1. PICK t \in LeadsTo(r) \cap DOMAIN built : built[t].id = ResolvedId(built, r)
    BY <1>1, ReferenceLeads
  <2>2. file[t].kind = r.kind /\ built[t].kind = file[t].kind
    BY <2>1, BuiltShape DEF LeadsTo, BuiltOK
  <2> QED BY <2>1, <2>2
<1>2. CASE r.by = "id"
  <2>1. PICK t \in LeadsTo(r) : TRUE
    BY <1>0 DEF Cause, Unresolved
  <2>2. t \in Slots /\ file[t].kind = r.kind /\ file[t].id = r.key
    BY <2>1, <1>2 DEF LeadsTo
  <2>3. r.key # NoId
    <3>1. RefOK(file[s].kind, r)
      BY <1>0 DEF SlotOK
    <3> QED BY <3>1, <1>2 DEF RefOK, NoId
  <2>4. t \in DOMAIN built
    BY <2>2, ParentsBuilt
  <2>5. built[t].kind = r.kind /\ built[t].id = r.key
    BY <2>2, <2>3, <2>4, BuiltShape DEF BuiltOK
  <2>6. ResolvedId(built, r) = r.key
    BY <1>2 DEF ResolvedId
  <2> QED BY <2>1, <2>4, <2>5, <2>6
<1> QED
  BY <1>1, <1>2

\* A slot without an id stands for what is looked up for it.
LEMMA LookedUpStandsFor ==
  ASSUME NEW s \in DOMAIN built, SlotOK(file[s]), file[s].id = NoId, NEW c \in current, LooksUp(s, c)
  PROVE  StandsFor(s, c)
<1>1. c.kind = file[s].kind /\ c.kind \in Kinds
  BY DEF LooksUp, SlotOK
<1>2. CASE IdentifiedBy(s, c)
  <2>1. c.kind = "consumer"
    BY <1>1, <1>2 DEF IdentifiedBy, SlotOK
  <2> QED BY <1>1, <1>2, <2>1, ConsumersByName DEF StandsFor
<1>3. CASE ByKey(s, c)
  <2>1. file[s].custom # NoName => c.kind = "consumer"
    BY <1>1 DEF SlotOK
  <2>2. c.kind = "consumer" => c.name # NoName
    BY <1>3 DEF ByKey
  <2>3. lookupOf[c.kind] # "refs" => c.name = file[s].name
    BY <1>1, <1>3, Lookups DEF ByKey
  <2>4. lookupOf[c.kind] # "refs" => c.name # NoName
    BY <1>1, <2>1, <2>2, <2>3 DEF SlotOK
  <2> QED BY <1>1, <1>3, <2>3, <2>4 DEF StandsFor, ByKey
<1> QED
  BY <1>2, <1>3 DEF LooksUp

\* Slots of one kind that got the same id.
Twins(s, t) == s # t /\ built[s].kind = built[t].kind /\ built[s].id = built[t].id

\* What has the same references meets the same slots.
LEMMA ReferencesAgree ==
  ASSUME Pre, ~Cause, NEW s \in DOMAIN built, NEW t \in DOMAIN built,
         built[s].kind = built[t].kind, built[s].refs \subseteq built[t].refs,
         \A a, b \in DOMAIN built :
           Twins(a, b) => ~(buildPosition[built[a].kind] < buildPosition[built[s].kind])
  PROVE  Meets(s, t)
<1> SUFFICES ASSUME NEW r \in file[s].refs PROVE \E q \in file[t].refs : LeadsTo(r) \cap LeadsTo(q) # {}
  BY DEF Meets
<1>1. PICK a \in LeadsTo(r) \cap DOMAIN built : built[a].kind = r.kind /\ built[a].id = ResolvedId(built, r)
  BY ReferenceMeets
<1>2. [kind |-> r.kind, id |-> ResolvedId(built, r)] \in built[t].refs
  BY BuiltShape DEF BuiltOK, BuiltRefs
<1>3. PICK q \in file[t].refs : r.kind = q.kind /\ ResolvedId(built, r) = ResolvedId(built, q)
  BY <1>2, BuiltShape DEF BuiltOK, BuiltRefs
<1>4. PICK b \in LeadsTo(q) \cap DOMAIN built : built[b].kind = q.kind /\ built[b].id = ResolvedId(built, q)
  BY ReferenceMeets
<1>5. buildPosition[r.kind] < buildPosition[built[s].kind]
  <2>1. s \in Slots /\ SlotOK(file[s]) /\ built[s].kind = file[s].kind
    BY BuiltShape DEF Pre, FileInv, BuiltInv, BuiltOK
  <2> QED BY <2>1, RefsBefore DEF SlotOK, RefOK
<1>6. a = b
  BY <1>1, <1>3, <1>4, <1>5 DEF Twins
<1> QED
  BY <1>1, <1>4, <1>6

\* Twins of a kind whose parents have none contradict each other.
LEMMA TwinsOfAKind ==
  ASSUME Pre, ~Cause, NEW s \in DOMAIN built, NEW t \in DOMAIN built, Twins(s, t),
         \A a, b \in DOMAIN built :
           Twins(a, b) => ~(buildPosition[built[a].kind] < buildPosition[built[s].kind])
  PROVE  FALSE
<1>1. /\ s \in Slots /\ t \in Slots /\ s \in Nat /\ t \in Nat /\ s # 0 /\ t # 0
      /\ SlotOK(file[s]) /\ SlotOK(file[t]) /\ BuiltOK(s) /\ BuiltOK(t)
  BY BuiltShape DEF Pre, FileInv, BuiltInv, NoId
<1> DEFINE k == file[s].kind
<1>2. /\ file[t].kind = k /\ k \in Kinds /\ built[s].kind = k /\ built[t].kind = k
      /\ s # t /\ built[s].id = built[t].id
  BY <1>1 DEF Twins, BuiltOK, SlotOK
<1>3. ~Contradict(s, t) /\ ~Contradict(t, s)
  BY <1>1 DEF Cause
<1>4. built[s].refs = built[t].refs => SameParents(s, t) /\ SameParents(t, s)
  BY <1>2, ReferencesAgree DEF SameParents
<1>5. ASSUME NEW a \in {s, t}, NEW b \in {s, t}, a # b, file[a].id = NoId, file[b].id # NoId PROVE FALSE
  <2>1. built[a].id = file[b].id /\ file[b].id \in 0..1000
    BY <1>1, <1>2, <1>5 DEF BuiltOK, SlotOK
  <2>2. FreshId(a) # built[a].id
    <3>1. a \in Nat /\ a # 0
      BY <1>1
    <3>2. built[a].id \in 0..1000
      BY <2>1
    <3> QED BY <3>1, <3>2, FreshIsNew, SMTT(20)
  <2>3. PICK c \in current : LooksUp(a, c)
    BY <2>2, <1>1, <1>5 DEF BuiltOK
  <2>4. StandsFor(a, c)
    <3>1. a \in DOMAIN built /\ SlotOK(file[a])
      BY <1>1
    <3> QED BY <2>3, <1>5, <3>1, LookedUpStandsFor
  <2>5. c.id = file[b].id
    BY <2>1, <2>3 DEF LooksUp
  <2> QED
    BY <2>4, <2>5, <1>2, <1>3, <1>5 DEF Contradict
<1>6. CASE file[s].id # NoId /\ file[t].id # NoId
  BY <1>6, <1>1, <1>2, <1>3 DEF BuiltOK, Contradict
<1>7. CASE file[s].id = NoId /\ file[t].id = NoId
  <2>1. ASSUME NEW a \in {s, t}, NEW c \in current, LooksUp(a, c)
        PROVE  built[a].id # FreshId(s) /\ built[a].id # FreshId(t)
    <3>1. c.id \in 1..999 /\ built[a].id = c.id
      BY <2>1 DEF LooksUp, Pre, CurrentInv, InModel
    <3>2. c.id \in 0..1000
      BY <3>1
    <3>3. built[a].id \in 0..1000
      BY <3>1, <3>2
    <3> QED BY <3>3, <1>1, FreshIsNew, SMTT(20)
  <2>2. FreshId(s) # FreshId(t)
    BY <1>1, <1>2, FreshIsOwn
  <2>3. (\E c \in current : LooksUp(s, c)) /\ (\E c \in current : LooksUp(t, c))
    <3>1. \/ built[s].id = FreshId(s) \/ \E c \in current : LooksUp(s, c)
      BY <1>1, <1>7 DEF BuiltOK
    <3>2. \/ built[t].id = FreshId(t) \/ \E c \in current : LooksUp(t, c)
      BY <1>1, <1>7 DEF BuiltOK
    <3>3. built[s].id = FreshId(s) => ~(\E c \in current : LooksUp(t, c))
      BY <2>1, <2>2, <1>2
    <3>4. built[t].id = FreshId(t) => ~(\E c \in current : LooksUp(s, c))
      BY <2>1, <2>2, <1>2
    <3> QED BY <3>1, <3>2, <3>3, <3>4, <2>2, <1>2
  <2>4. PICK c \in current : LooksUp(s, c)
    BY <2>3
  <2>5. PICK d \in current : LooksUp(t, d)
    BY <2>3
  <2>6. c = d
    BY <2>4, <2>5, <1>2 DEF LooksUp, Pre, CurrentInv
  <2>7. k # "consumer"
    <3>1. StandsFor(s, c) /\ StandsFor(t, c)
      BY <2>4, <2>5, <2>6, <1>1, <1>7, LookedUpStandsFor
    <3>2. c.kind = k
      BY <2>4 DEF LooksUp
    <3> QED BY <3>1, <3>2, <1>2, <1>3 DEF Contradict
  <2>71. file[s].custom = NoName /\ file[t].custom = NoName
    BY <2>7, <1>1, <1>2 DEF SlotOK
  <2>72. ByKey(s, c) /\ ByKey(t, c)
    BY <2>4, <2>5, <2>6, <2>71 DEF LooksUp, IdentifiedBy
  <2>73. /\ lookupOf[k] \in {"name", "prop"} => file[s].name = file[t].name
         /\ lookupOf[k] \in {"refs", "prop"} => built[s].refs = built[t].refs
         /\ lookupOf[k] \in {"name", "prop", "refs"}
    BY <2>72, <1>2, Lookups DEF ByKey
  <2>8. file[s].name # NoName \/ lookupOf[k] = "refs"
    BY <2>71, <1>1, <1>7 DEF SlotOK
  <2>9. CASE lookupOf[k] = "refs"
    BY <2>9, <2>73, <1>2, <1>3, <1>4, Lookups DEF Contradict
  <2>10. CASE lookupOf[k] = "prop"
    BY <2>10, <2>73, <2>8, <1>2, <1>3, <1>4 DEF Contradict
  <2>11. CASE lookupOf[k] = "name"
    BY <2>11, <2>73, <2>8, <1>2, <1>3, Lookups DEF Contradict
  <2> QED BY <2>73, <2>9, <2>10, <2>11
<1> QED
  BY <1>5, <1>6, <1>7, <1>2

\* Slots of one kind get one id only if the file contradicts itself.
LEMMA TwinsContradict ==
  ASSUME Pre, NEW s \in DOMAIN built, NEW t \in DOMAIN built, Twins(s, t) PROVE Cause
<1> SUFFICES ASSUME ~Cause PROVE FALSE
  OBVIOUS
<1> DEFINE bad == {buildPosition[built[a].kind] : a \in {b \in DOMAIN built : \E c \in DOMAIN built : Twins(b, c)}}
<1>1. \A a \in DOMAIN built : buildPosition[built[a].kind] \in 1..34
  <2> SUFFICES ASSUME NEW a \in DOMAIN built PROVE buildPosition[built[a].kind] \in 1..34
    OBVIOUS
  <2>1. a \in Slots /\ SlotOK(file[a]) /\ BuiltOK(a)
    BY BuiltShape DEF Pre, FileInv, BuiltInv
  <2> QED BY <2>1, KindIsBuilt DEF BuiltOK, SlotOK
<1>2. bad \subseteq 1..34 /\ bad # {}
  BY <1>1
<1>3. IsFiniteSet(bad) /\ bad \in SUBSET Nat
  <2>1. IsFiniteSet(1..34)
    BY 1 \in Int /\ 34 \in Int, FS_Interval
  <2>2. bad \subseteq 1..34 /\ 1..34 \subseteq Nat
    BY <1>2
  <2> HIDE DEF bad
  <2> QED BY <2>1, <2>2, FS_Subset
<1>4. PICK m \in bad : \A i \in bad : m <= i
  BY <1>2, <1>3, HasLeast
<1>5. PICK a \in DOMAIN built, b \in DOMAIN built : m = buildPosition[built[a].kind] /\ Twins(a, b)
  BY <1>4
<1>6. \A c, d \in DOMAIN built :
        Twins(c, d) => ~(buildPosition[built[c].kind] < buildPosition[built[a].kind])
  <2> SUFFICES ASSUME NEW c \in DOMAIN built, NEW d \in DOMAIN built, Twins(c, d)
               PROVE  ~(buildPosition[built[c].kind] < buildPosition[built[a].kind])
    OBVIOUS
  <2>1. buildPosition[built[c].kind] \in bad
    OBVIOUS
  <2>2. m <= buildPosition[built[c].kind] /\ m = buildPosition[built[a].kind]
    BY <2>1, <1>4, <1>5
  <2> HIDE DEF bad
  <2> QED BY <2>2, <1>1
<1> QED
  BY <1>5, <1>6, TwinsOfAKind

\* A reference that dangles leads to nothing, or to a consumer with the id of
\* another.
LEMMA DanglingHasCause ==
  ASSUME Pre, NEW s \in Slots, NEW r \in file[s].refs,
         \A t \in Slots : file[t].kind = r.kind => t \in DOMAIN built,
         Dangling(built, file[s].kind, r)
  PROVE  Cause
<1> SUFFICES ASSUME ~Cause PROVE FALSE
  OBVIOUS
<1>1. SlotOK(file[s])
  BY DEF Pre, FileInv
<1>2. RefOK(file[s].kind, r)
  BY <1>1 DEF SlotOK
<1>3. PICK t \in LeadsTo(r) : TRUE
  BY DEF Cause, Unresolved
<1>4. t \in Slots /\ file[t].kind = r.kind
  BY <1>3 DEF LeadsTo
<1>5. t \in DOMAIN built
  BY <1>4
<1>6. BuiltOK(t)
  BY <1>5, BuiltShape
<1>7. FirstOfItsId(built, t)
  <2> DEFINE X == ById(built, built[t].kind, built[t].id)
  <2>1. X \in SUBSET Slots /\ t \in X
    BY <1>5 DEF ById, Pre, BuiltInv
  <2>2. FirstOf(X) \in X
    BY <2>1, FirstIsLeast DEF Pre
  <2>3. FirstOf(X) \in DOMAIN built /\ built[FirstOf(X)].kind = built[t].kind /\ built[FirstOf(X)].id = built[t].id
    BY <2>2 DEF ById
  <2>4. ~Twins(FirstOf(X), t)
    BY <2>3, <1>5, TwinsContradict
  <2> QED BY <2>3, <2>4 DEF Twins, FirstOfItsId
<1>8. built[t].kind = r.kind
  BY <1>4, <1>6 DEF BuiltOK
<1>9. r.by \in {"name", "either", "id"}
  BY DEF Dangling
<1>10. CASE r.by = "name"
  BY <1>10, <1>3, <1>5, <1>6, <1>7, <1>8 DEF Dangling, LeadsTo, BuiltOK, ByName
<1>11. CASE r.by \in {"either", "id"}
  <2>1. r.key # NoId
    BY <1>11, <1>2 DEF RefOK, NoId
  <2>2. file[t].id = r.key => built[t].id = r.key
    BY <2>1, <1>6 DEF BuiltOK
  <2>3. CASE r.by = "id"
    BY <2>3, <2>2, <1>3, <1>5, <1>8 DEF Dangling, LeadsTo, ById
  <2>4. CASE r.by = "either"
    BY <2>4, <2>2, <1>3, <1>5, <1>6, <1>7, <1>8 DEF Dangling, LeadsTo, BuiltOK, ById, ByName
  <2> QED BY <2>3, <2>4, <1>11
<1> QED
  BY <1>9, <1>10, <1>11

\* What the state builder refuses contradicts itself.
LEMMA ClashHasCause ==
  ASSUME Pre, NEW s \in DOMAIN built, NEW t \in DOMAIN built, s # t, Clash(built[s], built[t])
  PROVE  Cause
<1> SUFFICES ASSUME ~Cause PROVE FALSE
  OBVIOUS
<1> DEFINE k == file[s].kind
           key == collectionOf[k].second
<1>1. /\ s \in Slots /\ t \in Slots /\ SlotOK(file[s]) /\ SlotOK(file[t]) /\ BuiltOK(s) /\ BuiltOK(t)
  BY BuiltShape DEF Pre, FileInv, BuiltInv
<1>2. /\ k \in Kinds /\ file[t].kind = k /\ built[s].kind = k /\ built[t].kind = k
  BY <1>1 DEF Clash, BuiltOK, SlotOK
<1>3. built[s].id # built[t].id
  BY <1>2, TwinsContradict DEF Twins
<1>31. ~(built[s].custom = built[t].custom /\ built[s].custom # NoName)
  BY <1>1, <1>2 DEF BuiltOK, Contradict, Cause
<1>4. /\ KeyOf(key, built[s]) = KeyOf(key, built[t])
      /\ ~(key = "name" /\ built[s].name = NoName)
  BY <1>2, <1>3, <1>31 DEF Clash
<1>5. key \in {"id", "name", "prop", "refs", "child"}
  BY <1>2, CollectionSeconds
<1>6. key \notin {"id", "child"}
  BY <1>3, <1>4 DEF KeyOf
<1>7. /\ key \in {"name", "prop"} => file[s].name = file[t].name
      /\ key \in {"prop", "refs"} => built[s].refs = built[t].refs
  BY <1>1, <1>4 DEF KeyOf, BuiltOK
<1>8. key \in {"name", "prop"} => file[s].name # NoName
  BY <1>1, <1>4 DEF BuiltOK, SlotOK
<1>9. \A a, b \in DOMAIN built : ~Twins(a, b)
  BY TwinsContradict
<1>10. built[s].refs = built[t].refs => SameParents(s, t)
  BY <1>2, <1>9, ReferencesAgree DEF SameParents
<1> QED
  BY <1>1, <1>2, <1>5, <1>6, <1>7, <1>8, <1>10 DEF Contradict, Cause

\* What LoadTarget refuses had it coming.
LEMMA RejectedHasCause == Pre /\ DOMAIN built = Slots /\ Rejected => Cause
BY ClashHasCause DEF Rejected

-----------------------------------------------------------------------------
(* The current state.                                                     *)

\* What is dumped is of the data model.
EverInv == ever \subseteq UNION Gateways

\* Nothing else is ever dumped.
LEMMA EverSteps == WorldInv /\ EverInv /\ [DumpNext]_dumpVars => EverInv'
<1> SUFFICES ASSUME WorldInv, EverInv, [DumpNext]_dumpVars PROVE EverInv'
  OBVIOUS
<1>1. CASE Change
  BY <1>1 DEF Change, EverInv
<1>2. CASE ~Change
  <2>1. UNCHANGED <<world, selected>>
    BY <1>2, StepSplit DEF AtGroups, At, Quiet, ListGroups, GetGroup, GroupsGot, StartTargets, StartPermissions,
         ListPage, ListOfParent, ParentsListed, ListingFails, DumpFails, DumpSucceeds, dumpVars
  <2> QED BY <2>1 DEF EverInv, world
<1> QED
  BY <1>1, <1>2

\* What an entity of a gateway is like.
LEMMA GatewayEntity ==
  ASSUME NEW e \in UNION Gateways
  PROVE  /\ InModel(e)
         /\ \A r \in e.refs : r.id \in 1..999 /\ \A f \in UNION Gateways : f.id = r.id => f.kind = r.kind
<1>1. PICK S \in Gateways : e \in S
  OBVIOUS
<1>2. WellFormed(S)
  BY DumpAssumption
<1>3. InModel(e)
  BY <1>1, DataModelAssumption
<1>4. ASSUME NEW r \in e.refs
      PROVE  r.id \in 1..999 /\ \A f \in UNION Gateways : f.id = r.id => f.kind = r.kind
  <2>1. PICK p \in S : p.kind = r.kind /\ p.id = r.id
    BY <1>1, <1>2 DEF WellFormed
  <2>2. InModel(p)
    BY DataModelAssumption
  <2> QED BY <2>1, <2>2, IdKindAssumption DEF InModel
<1> QED
  BY <1>3, <1>4

-----------------------------------------------------------------------------
(* The plugins of consumer groups.                                        *)

\* What a plugin of a group refers to.
GroupId(m) == CHOOSE i : m.refs = {[kind |-> "consumer-group", id |-> i]}

\* The reference of a plugin of a consumer group.
LEMMA PluginRefs ==
  ASSUME NEW m \in UNION Gateways, m.kind = "consumer-group-plugin"
  PROVE  GroupId(m) \in Nat /\ m.refs = {[kind |-> "consumer-group", id |-> GroupId(m)]}
<1>1. PICK S \in Gateways : m \in S
  OBVIOUS
<1>2. WellFormed(S) /\ InModel(m)
  BY <1>1, DumpAssumption, DataModelAssumption
<1>3. FileRefs(m.kind) = {"consumer-group"}
  BY <1>2, RowsOf, DifferRows DEF InModel, FileRefs, DifferRow
<1>4. PICK r \in m.refs : r.kind = "consumer-group"
  BY <1>1, <1>2 DEF WellFormed, Owned, Members, OwnerKind
<1>5. \A q \in m.refs : q = r
  BY <1>2, <1>3, <1>4 DEF InModel
<1>6. r = [kind |-> "consumer-group", id |-> r.id] /\ r.id \in Nat
  <2>1. PICK p \in S : p.id = r.id
    BY <1>1, <1>2 DEF WellFormed
  <2>2. r.id \in Nat
    BY <1>2, <2>1 DEF WellFormed
  <2>3. r = [kind |-> r.kind, id |-> r.id]
    BY <1>2 DEF InModel
  <2> QED BY <1>4, <2>2, <2>3
<1>7. m.refs = {[kind |-> "consumer-group", id |-> r.id]}
  BY <1>5, <1>6
<1>8. m.refs = {[kind |-> "consumer-group", id |-> GroupId(m)]}
  BY <1>7 DEF GroupId
<1>9. [kind |-> "consumer-group", id |-> GroupId(m)] = [kind |-> "consumer-group", id |-> r.id]
  BY <1>7, <1>8
<1>10. GroupId(m) = r.id
  BY <1>9
<1> QED
  BY <1>6, <1>8, <1>10

\* The groups are read in the order of their ids, each once and with its
\* plugins.
GroupPlugins == OfKind("consumer-group-plugin", listed["consumer-group"])

PluginsInv ==
  /\ \A j \in Listed \ {"consumer-group"} : OfKind("consumer-group-plugin", listed[j]) = {}
  /\ OneOfAName(listed["consumer-group"]) /\ Numbered(todo["consumer-group"])
  /\ \A g \in todo["consumer-group"] : g.kind = "consumer-group"
  /\ pc["consumer-group"] = "page" => \A m \in GroupPlugins : GroupId(m) <= offset["consumer-group"]
  /\ pc["consumer-group"] = "group" =>
       /\ \A m \in GroupPlugins : \A g \in todo["consumer-group"] : GroupId(m) < g.id
       /\ offset["consumer-group"] # 0 =>
            /\ \A m \in GroupPlugins : GroupId(m) <= offset["consumer-group"]
            /\ \A g \in todo["consumer-group"] : g.id <= offset["consumer-group"]

\* It stays so if none of its parts changes.
LEMMA PluginsKept == PluginsInv /\ (\A j \in Listed : Same(j)) => PluginsInv'
<1> SUFFICES ASSUME PluginsInv, \A j \in Listed : Same(j) PROVE PluginsInv'
  OBVIOUS
<1>1. "consumer-group" \in Listed
  BY ListedKinds
<1> QED
  BY <1>1 DEF PluginsInv, Same, GroupPlugins, Numbered, Counted

\* The plugins of groups have no list of their own.
LEMMA PluginsAreNotListed == "consumer-group-plugin" \notin Listed
<1>1. \A l \in listings : l.kind # "consumer-group-plugin"
  BY DEF listings, listing, GetAllServices, GetAllRoutes, GetAllPlugins, GetAllFilterChains, GetAllCertificates,
    GetAllCACertificates, GetAllSNIs, GetAllConsumers, GetAllUpstreams, GetAllTargets,
    GetAllConsumerGroups, GetAllVaults, GetAllKeyAuths, GetAllHMACAuths, GetAllJWTAuths,
    GetAllBasicAuths, GetAllOauth2Creds, GetAllACLGroups, GetAllMTLSAuths, GetAllRBACRoles,
    GetAllRBACREndpointPermissions, GetAllLicenses, GetAllPartials, GetAllKeys,
    GetAllKeySets, GetAllClonedPluginDefinitions, GetAllCustomPluginDefinitions,
    DegraphqlRoutesListing, DecorationsListing
<1> HIDE DEF listings
<1> QED
  BY <1>1 DEF Listed

\* A listing of another kind.
LEMMA OtherListings ==
  ASSUME DumpTypeOK, PluginsInv, NEW k \in Listed \ {"consumer-group"}, At(k) PROVE PluginsInv'
<1>1. \A j \in Listed \ {k} : Same(j)
  BY OthersSame
<1>2. k # "consumer-group-plugin"
  BY PluginsAreNotListed
<1>3. listed'[k] \subseteq listed[k] \cup OfKind(k, kong)
  <2>1. CASE ListPage(k)
    BY <2>1 DEF DumpTypeOK, ListPage, TakePage, FirstPage, After, OfKind
  <2>2. CASE ListOfParent(k)
    <3> DEFINE parent == First(todo[k])
               S == {e \in After(OfParent(OfKind(k, kong), parent.id), offset[k]) : Selects(k, e)}
               page == IF k = "target" THEN FirstPage(S) ELSE S
    <3>1. page \subseteq OfKind(k, kong)
      BY DEF FirstPage, After, OfParent
    <3>2. listed' = listed \/ TakePage(k, page, S)
      BY <2>2 DEF ListOfParent
    <3> HIDE DEF page, S
    <3>3. listed'[k] \in {listed[k], listed[k] \cup page}
      BY <3>2 DEF TakePage, DumpTypeOK
    <3> QED BY <3>1, <3>3
  <2>3. CASE ParentsListed(k)
    BY <2>3 DEF DumpTypeOK, ParentsListed
  <2>4. CASE ListingFails(k)
    BY <2>4 DEF DumpTypeOK, ListingFails
  <2> QED
    BY <2>1, <2>2, <2>3, <2>4 DEF At
<1>4. OfKind("consumer-group-plugin", listed'[k]) = {}
  BY <1>2, <1>3 DEF PluginsInv, OfKind
<1>5. "consumer-group" \in Listed \ {k}
  BY ListedKinds
<1>6. \A j \in Listed \ {"consumer-group"} : OfKind("consumer-group-plugin", listed'[j]) = {}
  BY <1>1, <1>4 DEF PluginsInv, Same
<1>7. Same("consumer-group")
  BY <1>1, <1>5
<1> QED
  BY <1>6, <1>7 DEF PluginsInv, Same, GroupPlugins, Numbered, Counted

\* The groups are there, none of their plugins yet.
LEMMA GroupsListed == ASSUME DumpTypeOK, WorldInv, EverInv, PluginsInv, ListGroups PROVE PluginsInv'
<1> DEFINE k == "consumer-group"
           S == {e \in After(OfKind(k, kong), offset[k]) : Selects(k, e)}
           page == FirstPage(S)
<1>0. k \in Listed /\ S \in SUBSET kong /\ offset[k] \in Nat
  BY ListedKinds DEF DumpTypeOK, After, OfKind
<1>1. Numbered(S)
  BY <1>0, KongIsNumbered
<1>2. /\ listed' = listed /\ todo'[k] = page
      /\ offset'[k] = IF page # S THEN LastId(page) ELSE 0
      /\ pc'[k] = "group" /\ pc[k] = "page"
  BY <1>0 DEF ListGroups, MoreAfter, DumpTypeOK
<1>3. page \subseteq S /\ \A e \in S : e.id \in Nat /\ offset[k] < e.id /\ e.kind = k
  <2>1. \A e \in S : e.id \in Nat
    BY <1>1 DEF Numbered, Counted
  <2>2. \A e \in S : e.id > offset[k]
    BY DEF After
  <2>3. page \subseteq S
    BY DEF FirstPage
  <2>4. \A e \in S : e.kind = k
    BY DEF After, OfKind
  <2> HIDE DEF S, page
  <2> QED BY <2>1, <2>2, <2>3, <2>4, <1>0
<1>4. Numbered(page)
  <2> HIDE DEF S, page
  <2> QED BY <1>1, <1>3, SubsetIsNumbered
<1>5. \A m \in GroupPlugins : GroupId(m) \in Nat /\ GroupId(m) <= offset[k]
  <2>1. \A m \in GroupPlugins : m \in UNION Gateways /\ m.kind = "consumer-group-plugin"
    BY <1>0 DEF GroupPlugins, OfKind, EverInv, DumpTypeOK
  <2> QED BY <2>1, <1>2, PluginRefs DEF PluginsInv
<1> HIDE DEF S
<1>6. \A m \in GroupPlugins : \A g \in page : GroupId(m) < g.id
  BY <1>0, <1>3, <1>5
<1>7. ASSUME page # S
      PROVE  (\A g \in page : g.id <= LastId(page)) /\ (\A m \in GroupPlugins : GroupId(m) <= LastId(page))
  <2>1. page # {}
    BY <1>1, <1>3, <1>7, PageIsNotEmpty
  <2>2. LastId(page) \in {e.id : e \in page} /\ \A g \in page : g.id <= LastId(page)
    <3> HIDE DEF page
    <3> QED BY <2>1, <1>4, LastIsGreatest DEF Numbered
  <2>3. PICK g \in page : LastId(page) = g.id
    BY <2>2
  <2>4. \A m \in GroupPlugins : GroupId(m) <= g.id
    BY <1>3, <1>5, <1>6
  <2> HIDE DEF page
  <2> QED BY <2>2, <2>3, <2>4
<1>8. GroupPlugins' = GroupPlugins
  BY <1>2 DEF GroupPlugins
<1>9. offset'[k] # 0 => /\ \A m \in GroupPlugins : GroupId(m) <= offset'[k]
                        /\ \A g \in page : g.id <= offset'[k]
  BY <1>2, <1>7
<1> HIDE DEF page
<1>10. Numbered(todo[k])'
  BY <1>2, <1>4 DEF Numbered, Counted
<1> QED
  BY <1>2, <1>3, <1>6, <1>8, <1>9, <1>10 DEF PluginsInv

\* The plugins of a group are read at one time.
LEMMA GroupRead == ASSUME DumpTypeOK, WorldInv, EverInv, PluginsInv, GetGroup PROVE PluginsInv'
<1> DEFINE k == "consumer-group"
           g == First(todo[k])
<1>0. k \in Listed /\ pc[k] = "group" /\ todo[k] # {} /\ offset' = offset
  BY ListedKinds DEF GetGroup
<1>1. \A j \in Listed \ {k} : Same(j)
  BY OthersSame DEF AtGroups
<1>2. \A j \in Listed \ {k} : OfKind("consumer-group-plugin", listed'[j]) = {}
  BY <1>1 DEF PluginsInv, Same
<1>3. CASE g \notin kong
  <2>1. listed'[k] = {} /\ todo'[k] = {} /\ pc'[k] = "cut"
    BY <1>0, <1>3 DEF GetGroup, DumpTypeOK
  <2>2. OneOfAName(listed'[k]) /\ Numbered(todo'[k])
    BY <2>1, FS_EmptySet DEF OneOfAName, OfKind, Numbered, Counted
  <2>3. OneOfAName(listed[k])' /\ Numbered(todo[k])'
    BY <2>2 DEF Numbered, Counted
  <2> QED BY <1>2, <2>1, <2>3 DEF PluginsInv
<1>4. CASE g \in kong
  <2>1. /\ listed'[k] = listed[k] \cup {g} \cup SelectedMembers(g)
        /\ todo'[k] = todo[k] \ {g} /\ pc' = pc
    BY <1>0, <1>4 DEF GetGroup, DumpTypeOK
  <2>2. g \in todo[k] /\ \A h \in todo[k] : g.id <= h.id /\ g.id \in Nat /\ h.id \in Nat
    <3>1. PICK i \in {e.id : e \in todo[k]} : \A t \in {e.id : e \in todo[k]} : i <= t
      BY <1>0, IdsAreFinite, HasLeast DEF PluginsInv, Numbered
    <3>2. \E h \in todo[k] : \A f \in todo[k] : h.id <= f.id
      BY <3>1
    <3>3. g \in todo[k] /\ \A h \in todo[k] : g.id <= h.id
      BY <3>2 DEF First
    <3>4. \A h \in todo[k] : h.id \in Nat
      BY DEF PluginsInv, Numbered, Counted
    <3> QED BY <3>3, <3>4
  <2> HIDE DEF g
  <2>3. \A h \in todo'[k] : g.id < h.id /\ h \in todo[k]
    BY <2>1, <2>2 DEF PluginsInv, Numbered
  <2>4. kong \in Gateways /\ kong \subseteq UNION Gateways /\ listed[k] \subseteq UNION Gateways
    BY <1>0 DEF WorldInv, DumpTypeOK, EverInv
  <2>5. ASSUME NEW m \in GroupPlugins'
        PROVE  /\ m.kind = "consumer-group-plugin" /\ GroupId(m) \in Nat
               /\ m.refs = {[kind |-> "consumer-group", id |-> GroupId(m)]}
               /\ m \in GroupPlugins \/ (m \in kong /\ GroupId(m) = g.id)
    <3>1. m.kind = "consumer-group-plugin" /\ m \in listed'[k]
      BY DEF GroupPlugins, OfKind
    <3>2. m \in GroupPlugins \/ m \in SelectedMembers(g)
      BY <2>1, <2>2, <3>1 DEF GroupPlugins, OfKind, PluginsInv
    <3>3. m \in SelectedMembers(g) => m \in kong /\ \E r \in m.refs : r.id = g.id
      BY DEF SelectedMembers, OfParent
    <3>4. m \in UNION Gateways
      BY <2>4, <3>2, <3>3 DEF GroupPlugins, OfKind
    <3>5. GroupId(m) \in Nat /\ m.refs = {[kind |-> "consumer-group", id |-> GroupId(m)]}
      BY <3>1, <3>4, PluginRefs
    <3> QED BY <3>1, <3>2, <3>3, <3>5
  <2>6. ASSUME NEW e \in GroupPlugins', NEW f \in GroupPlugins', e.name = f.name, e.refs = f.refs
        PROVE  e = f
    <3>1. GroupId(e) = GroupId(f)
      <4>1. [kind |-> "consumer-group", id |-> GroupId(e)] = [kind |-> "consumer-group", id |-> GroupId(f)]
        BY <2>5, <2>6
      <4> QED BY <4>1
    <3>2. \A m \in GroupPlugins : GroupId(m) < g.id
      BY <1>0, <2>2 DEF PluginsInv
    <3>3. \A m \in GroupPlugins : m \in GroupPlugins' /\ GroupId(m) # g.id
      <4>1. \A m \in GroupPlugins : m \in GroupPlugins'
        BY <2>1 DEF GroupPlugins, OfKind
      <4>2. \A m \in GroupPlugins : GroupId(m) \in Nat
        BY <2>5, <4>1
      <4> QED BY <2>2, <3>2, <4>1, <4>2
    <3>4. CASE e \in GroupPlugins /\ f \in GroupPlugins
      BY <2>6, <3>4 DEF PluginsInv, OneOfAName, GroupPlugins
    <3>5. CASE e \in kong /\ f \in kong
      BY <2>4, <2>5, <2>6, <3>5, GroupPluginAssumption DEF OneOfAName, OfKind
    <3> QED BY <2>5, <3>1, <3>3, <3>4, <3>5
  <2>7. OneOfAName(listed[k])'
    BY <2>6 DEF OneOfAName, GroupPlugins
  <2>8. Numbered(todo[k])' /\ \A h \in todo'[k] : h.kind = k
    <3>1. Numbered(todo'[k])
      BY <2>1, SubsetIsNumbered DEF PluginsInv
    <3> QED BY <2>3, <3>1 DEF PluginsInv, Numbered, Counted
  <2>9. ASSUME NEW m \in GroupPlugins', NEW h \in todo'[k] PROVE GroupId(m) < h.id
    BY <1>0, <2>2, <2>3, <2>5 DEF PluginsInv
  <2>10. ASSUME offset'[k] # 0 PROVE /\ \A m \in GroupPlugins' : GroupId(m) <= offset'[k]
                                     /\ \A h \in todo'[k] : h.id <= offset'[k]
    BY <1>0, <2>2, <2>3, <2>5, <2>10 DEF PluginsInv
  <2> QED BY <1>0, <1>2, <2>1, <2>7, <2>8, <2>9, <2>10 DEF PluginsInv
<1> QED
  BY <1>3, <1>4

\* So each step of the dump keeps it.
LEMMA PluginsStep ==
  DumpTypeOK /\ WorldInv /\ GroupInv /\ EverInv /\ PluginsInv /\ [DumpNext]_dumpVars => PluginsInv'
<1> SUFFICES ASSUME DumpTypeOK, WorldInv, GroupInv, EverInv, PluginsInv, [DumpNext]_dumpVars PROVE PluginsInv'
  OBVIOUS
<1> DEFINE k == "consumer-group"
<1>0. k \in Listed /\ pc[k] \notin {"each", "roles"}
  BY ListedKinds DEF GroupInv, GroupAt, Ended
<1>1. CASE Change \/ Quiet
  BY <1>1, OthersSame, PluginsKept
<1>2. CASE StartTargets \/ StartPermissions
  <2>1. Same(k) /\ listed' = listed
    BY <1>0, <1>2, OthersSame DEF StartTargets, StartPermissions
  <2> QED BY <2>1 DEF PluginsInv, Same, GroupPlugins, Numbered, Counted
<1>3. CASE GroupsGot
  <2>1. /\ offset' = offset /\ listed' = listed /\ todo' = todo /\ pc[k] = "group"
        /\ pc'[k] = IF offset[k] = 0 THEN "ok" ELSE "page"
    BY <1>0, <1>3 DEF GroupsGot, DumpTypeOK
  <2> QED BY <2>1 DEF PluginsInv, GroupPlugins, Numbered, Counted
<1>4. CASE ListingFails(k)
  <2>1. pc'[k] \in Ended /\ todo'[k] = {} /\ listed'[k] \in {{}, listed[k]}
    <3>1. pc'[k] \in Ended
      BY <1>0, <1>4, FailureEnds DEF Ended
    <3>2. todo'[k] = {}
      BY <1>0, <1>4 DEF ListingFails, DumpTypeOK
    <3>3. listed'[k] \in {{}, listed[k]}
      BY <1>0, <1>4 DEF ListingFails, DumpTypeOK
    <3> QED BY <3>1, <3>2, <3>3
  <2>2. \A j \in Listed \ {k} : Same(j)
    BY <1>0, <1>4, OthersSame DEF At
  <2>3. Numbered(todo[k])' /\ OneOfAName(listed[k])'
    BY <2>1, FS_EmptySet DEF PluginsInv, OneOfAName, OfKind, Numbered, Counted
  <2> QED BY <2>1, <2>2, <2>3 DEF PluginsInv, Same, Ended
<1>5. ~ListPage(k) /\ ~ListOfParent(k) /\ ~ParentsListed(k)
  BY <1>0 DEF ListPage, ListOfParent, ParentsListed
<1>6. ASSUME NEW j \in Listed, At(j) PROVE PluginsInv'
  BY <1>4, <1>5, <1>6, OtherListings DEF At
<1>7. CASE AtGroups
  BY <1>3, <1>7, GroupsListed, GroupRead DEF AtGroups
<1> QED
  BY <1>1, <1>2, <1>6, <1>7, StepSplit

\* It is true before the dump.
LEMMA PluginsInit == DumpInit => PluginsInv
<1> SUFFICES ASSUME DumpInit PROVE PluginsInv
  OBVIOUS
<1>1. "consumer-group" \in Listed
  BY ListedKinds
<1>2. \A j \in Listed : listed[j] = {} /\ todo[j] = {}
  BY DEF DumpInit
<1>3. pc["consumer-group"] # "group" /\ Numbered({})
  BY <1>1, FS_EmptySet DEF DumpInit, Start, Numbered, Counted
<1> QED
  BY <1>1, <1>2, <1>3 DEF PluginsInv, OneOfAName, OfKind, GroupPlugins

\* So a dump has one plugin of a name in a group, whatever happened meanwhile.
LEMMA DumpedPlugins == PluginsInv => OneOfAName(RawState)
<1> SUFFICES ASSUME PluginsInv PROVE OneOfAName(RawState)
  OBVIOUS
<1>1. OfKind("consumer-group-plugin", RawState) \subseteq GroupPlugins
  BY DEF PluginsInv, RawState, OfKind, GroupPlugins
<1> QED
  BY <1>1 DEF PluginsInv, OneOfAName, GroupPlugins

\* What state.Get accepts of a dump.
LEMMA LoadGivesCurrent == IInv /\ EverInv /\ PluginsInv /\ CurrentInv /\ Load => CurrentInv'
<1> SUFFICES ASSUME IInv, EverInv, PluginsInv, CurrentInv, Load PROVE CurrentInv'
  OBVIOUS
<1> DEFINE D == RawState \cup OfKonnect(kong)
           S == {Entity(e) : e \in D}
<1>1. D \subseteq ever /\ IsFiniteSet(D) /\ D \subseteq UNION Gateways
  <2>1. RawState \subseteq ever /\ kong \subseteq ever
    BY DEF IInv, DumpTypeOK, RawState
  <2>2. IsFiniteSet(ever) /\ D \subseteq ever
    BY <2>1 DEF IInv, WorldInv, Counted, OfKonnect
  <2> QED BY <2>2, FS_Subset DEF EverInv
<1>2. CASE LoadRefused(S)
  BY <1>2 DEF Load, CurrentInv
<1>3. CASE ~LoadRefused(S)
  <2>1. phase' = "write" /\ current' = LoadedFrom(S)
    BY <1>3 DEF Load
  <2>2. IsFiniteSet(S)
    <3> DEFINE f == [e \in D |-> Entity(e)]
    <3>1. f \in Surjection(D, S)
      BY DEF Surjection
    <3> QED BY <3>1, <1>1, FS_Surjection
  <2>3. current' \subseteq S
    BY <2>1 DEF LoadedFrom
  <2>4. IsFiniteSet(current')
    BY <2>2, <2>3, FS_Subset
  <2>5. ASSUME NEW e \in S
        PROVE  /\ InModel(e) /\ e = Entity(e)
               /\ \A r \in e.refs : r.id \in 1..999 /\ \A p \in S : r.id = p.id => r.kind = p.kind
    <3>1. PICK d \in D : e = Entity(d)
      OBVIOUS
    <3>2. e.kind = d.kind /\ e.id = d.id /\ e.name = d.name /\ e.custom = d.custom
          /\ e.refs = d.refs /\ e = Entity(e)
      BY <3>1 DEF Entity
    <3>3. /\ InModel(d)
          /\ \A r \in d.refs : r.id \in 1..999 /\ \A f \in UNION Gateways : f.id = r.id => f.kind = r.kind
      BY <1>1, GatewayEntity
    <3>4. \A p \in S : \E f \in UNION Gateways : p.id = f.id /\ p.kind = f.kind
      BY <1>1 DEF Entity
    <3> QED
      BY <3>2, <3>3, <3>4 DEF InModel
  <2>6. ASSUME NEW e \in S, NEW f \in S, e.id = f.id \/ Clash(e, f) PROVE e = f
    <3>1. e.id = f.id => e.kind = f.kind
      <4>1. PICK c \in D : e = Entity(c)
        OBVIOUS
      <4>2. PICK d \in D : f = Entity(d)
        OBVIOUS
      <4>3. e.id = c.id /\ e.kind = c.kind /\ f.id = d.id /\ f.kind = d.kind
        BY <4>1, <4>2 DEF Entity
      <4>4. c \in UNION Gateways /\ d \in UNION Gateways
        BY <1>1
      <4>5. PICK T \in Gateways : c \in T
        BY <4>4
      <4>6. PICK U \in Gateways : d \in U
        BY <4>4
      <4>7. c.id = d.id => c.kind = d.kind
        BY <4>5, <4>6, IdKindAssumption
      <4> QED BY <4>3, <4>7
    <3>2. Clash(e, f)
      BY <2>6, <3>1 DEF Clash
    <3> QED BY <3>2, <1>3 DEF LoadRefused
  <2> QED
    <3>1. \A e \in current' : /\ InModel(e) /\ e = Entity(e)
                              /\ \A r \in e.refs : r.id \in 1..999
      BY <2>3, <2>5
    <3>2. \A e, f \in current' : e.id = f.id \/ Clash(e, f) => e = f
      BY <2>3, <2>6
    <3>3. \A e, p \in current' : \A r \in e.refs : r.id = p.id => r.kind = p.kind
      BY <2>3, <2>5
    <3>4. phase' \notin {"dump", "loadFailed"}
      BY <2>1
    <3>5. OneOfAName(current')
      <4>1. OneOfAName(RawState)
        BY DumpedPlugins
      <4>2. ASSUME NEW e \in OfKind("consumer-group-plugin", current')
            PROVE  \E d \in OfKind("consumer-group-plugin", RawState) : e = Entity(d)
        <5>1. PICK d \in D : e = Entity(d) /\ e.kind = "consumer-group-plugin"
          BY <2>3 DEF OfKind
        <5> QED BY <5>1 DEF Entity, OfKind, OfKonnect
      <4>3. ASSUME NEW e \in OfKind("consumer-group-plugin", current'),
                   NEW f \in OfKind("consumer-group-plugin", current'), e.name = f.name, e.refs = f.refs
            PROVE  e = f
        <5>1. PICK c \in OfKind("consumer-group-plugin", RawState) : e = Entity(c)
          BY <4>2
        <5>2. PICK d \in OfKind("consumer-group-plugin", RawState) : f = Entity(d)
          BY <4>2
        <5>3. c.name = d.name /\ c.refs = d.refs
          BY <5>1, <5>2, <4>3 DEF Entity
        <5> QED BY <5>1, <5>2, <5>3, <4>1 DEF OneOfAName
      <4> QED BY <4>3 DEF OneOfAName
    <3> HIDE DEF S, D
    <3>6. OneOfAName(current)'
      BY <3>5 DEF OneOfAName, OfKind
    <3> QED BY <2>4, <3>1, <3>2, <3>3, <3>4, <3>6 DEF CurrentInv
<1> QED
  BY <1>2, <1>3

\* What is written early on is nothing yet.
Early == {"dump", "loadFailed", "write", "writeFailed"}

-----------------------------------------------------------------------------
(* The file as it is written.                                             *)

Kept(S) ==
  LET lost == {e \in Orphans(S) : formatOf[e.kind].orphan = "lost"}
  IN {e \in S \ lost : \A r \in e.refs : \A f \in lost : f.id = r.id => ~NestedIn(e, r)}

Line(S, w, e) ==
  [kind |-> e.kind, id |-> WrittenId(e, w), name |-> e.name, custom |-> e.custom, refs |-> {WrittenRef(S, e, r, w) : r \in e.refs}]

\* A file has the lines of what is kept.
LEMMA WrittenLines ==
  ASSUME CurrentInv, NEW w
  PROVE  /\ DOMAIN Written(current, w) = {e.id : e \in Kept(current)}
         /\ Written(current, w) = [s \in DOMAIN Written(current, w) |-> Written(current, w)[s]]
         /\ \A e \in Kept(current) : Written(current, w)[e.id] = Line(current, w, e)
         /\ Kept(current) \subseteq current
<1>1. Written(current, w) =
        [s \in {e.id : e \in Kept(current)} |-> Line(current, w, CHOOSE f \in Kept(current) : f.id = s)]
  BY DEF Written, Kept, Line
<1>2. Kept(current) \subseteq current
  BY DEF Kept
<1>3. \A e \in Kept(current) : (CHOOSE f \in Kept(current) : f.id = e.id) = e
  <2> SUFFICES ASSUME NEW e \in Kept(current) PROVE (CHOOSE f \in Kept(current) : f.id = e.id) = e
    OBVIOUS
  <2>1. \A f \in Kept(current) : f.id = e.id => f = e
    BY <1>2 DEF CurrentInv
  <2> QED BY <2>1
<1> DEFINE W == Written(current, w)
           K == Kept(current)
           line(s) == Line(current, w, CHOOSE f \in K : f.id = s)
<1>4. W = [s \in {e.id : e \in K} |-> line(s)]
  BY <1>1
<1> HIDE DEF W, line
<1>5. DOMAIN W = {e.id : e \in K}
  BY <1>4
<1>6. W = [s \in DOMAIN W |-> W[s]]
  BY <1>4, <1>5
<1>7. ASSUME NEW e \in K PROVE W[e.id] = Line(current, w, e)
  <2>1. W[e.id] = line(e.id)
    BY <1>4
  <2> QED BY <2>1, <1>3 DEF line
<1> QED
  BY <1>2, <1>5, <1>6, <1>7 DEF W

\* The entity a reference leads to.
LEMMA TheParent ==
  ASSUME CurrentInv, NEW r, NEW p \in current, p.id = r.id
  PROVE  HasParent(current, r) /\ Parent(current, r) = p
<1>1. \A q \in current : q.id = r.id => q = p
  BY DEF CurrentInv
<1> QED
  BY <1>1 DEF HasParent, Parent

\* What is nested is of a kind that may be.
LEMMA NestedInNests ==
  ASSUME NEW e, NEW r, NestedIn(e, r) PROVE Nests(e.kind, r.kind) /\ formatOf[e.kind].within # {}
BY DEF NestedIn, Nests

\* What is nested is not written without what it is nested in.
LEMMA ParentKept ==
  ASSUME CurrentInv, ~WriterFails(current), NEW e \in Kept(current), NEW r \in e.refs, NestedIn(e, r)
  PROVE  \E p \in Kept(current) : p.id = r.id /\ p.kind = r.kind
<1>1. e \in current /\ e \notin {x \in Orphans(current) : formatOf[x.kind].orphan = "lost"}
  BY DEF Kept
<1>2. InModel(e) /\ e.kind \in Kinds /\ r.kind \in FileRefs(e.kind) /\ Nests(e.kind, r.kind)
  BY <1>1, NestedInNests DEF CurrentInv, InModel
<1>3. formatOf[e.kind].orphan \in {"lost", "error"}
  BY <1>2, NestedInNests, Formats
<1>4. e \notin Orphans(current)
  BY <1>1, <1>3 DEF WriterFails
<1>5. PICK p \in current : p.id = r.id
  BY <1>1, <1>4 DEF Orphans, HasParent
<1>6. p.kind = r.kind /\ InModel(p)
  BY <1>1, <1>5 DEF CurrentInv
<1>7. p \notin {x \in Orphans(current) : formatOf[x.kind].orphan = "lost"}
  BY <1>5 DEF Kept
<1>8. ASSUME NEW q \in p.refs, NEW f \in Orphans(current), f.id = q.id, NestedIn(p, q) PROVE FALSE
  <2>1. f \in current /\ \E x \in f.refs : TRUE
    BY <1>8 DEF Orphans
  <2>2. f.kind = q.kind /\ InModel(f) /\ q.kind \in FileRefs(p.kind) /\ p.kind \in Kinds
    BY <1>5, <1>6, <1>8, <2>1 DEF CurrentInv, InModel
  <2>3. q.kind \in {"service", "service-package"}
    BY <1>2, <1>6, <2>2, NestedKinds, ParentKinds DEF Parent10
  <2>4. PICK x \in f.refs : x.kind \in FileRefs(f.kind) /\ f.kind \in Kinds
    BY <2>1, <2>2 DEF InModel
  <2> QED BY <2>2, <2>3, <2>4, ParentKinds
<1>9. p \in Kept(current)
  BY <1>5, <1>7, <1>8 DEF Kept
<1> QED
  BY <1>5, <1>6, <1>9

\* How a reference is written.
LEMMA WrittenRefs ==
  ASSUME CurrentInv, ~WriterFails(current), NEW w, NEW e \in Kept(current), NEW r \in e.refs
  PROVE  LET q == WrittenRef(current, e, r, w) IN
         /\ q.kind = r.kind
         /\ NestedIn(e, r) => q.by = "slot" /\ q.key = r.id
         /\ ~NestedIn(e, r) =>
              \/ q.by = "id" /\ q.key = r.id
              \/ /\ HasParent(current, r) /\ Parent(current, r).name # NoName
                 /\ \/ q.by = "name" /\ q.key = Parent(current, r).name
                    \/ /\ q.by = "either" /\ e.kind = "consumer-group-consumer"
                       /\ q.key = r.id /\ q.alt = Parent(current, r).name
BY DEF WrittenRef, GivenById

\* The line of an entity, its references apart.
LEMMA LinesAreOK ==
  ASSUME CurrentInv, ~WriterFails(current), NEW w, NEW e \in Kept(current)
  PROVE  LET f == Line(current, w, e) IN
         /\ f = [kind |-> f.kind, id |-> f.id, name |-> f.name, custom |-> f.custom, refs |-> f.refs]
         /\ f.kind \in Kinds /\ f.id \in 0..1000 /\ f.name \in Nat /\ f.custom \in Nat
         /\ f.kind # "consumer" => f.custom = NoName
         /\ formatOf[f.kind].id = "never" => f.id = NoId
         /\ f.id = NoId => f.name # NoName \/ f.custom # NoName \/ lookupOf[f.kind] = "refs"
         /\ collectionOf[f.kind].second = "prop" => f.name # NoName
<1> DEFINE f == Line(current, w, e)
<1>1. e \in current /\ InModel(e)
  BY DEF Kept, CurrentInv
<1>2. f.kind = e.kind /\ f.id = WrittenId(e, w) /\ f.name = e.name /\ f.custom = e.custom
  BY DEF Line
<1>3. /\ e.kind \in Kinds /\ e.id \in 1..999 /\ e.name \in Nat /\ e.custom \in Nat
      /\ e.kind # "consumer" => e.custom = NoName
  BY <1>1 DEF InModel
<1>4. WrittenId(e, w) \in {e.id, NoId}
  BY DEF WrittenId
<1>5. f.id \in 0..1000 /\ e.id # NoId
  <2>1. e.id \in 0..1000 /\ e.id # NoId /\ NoId \in 0..1000
    BY <1>3 DEF NoId
  <2> QED BY <2>1, <1>2, <1>4
<1>6. formatOf[e.kind].id \in {"always", "never", "unlessNamed"}
  BY <1>3, Formats
<1>7. formatOf[e.kind].id = "never" => WrittenId(e, w) = NoId
  BY DEF WrittenId
<1>8. WrittenId(e, w) = NoId => e.name # NoName \/ formatOf[e.kind].id = "never"
  BY <1>5, <1>6 DEF WrittenId
<1>9. e.name = NoName =>
        /\ collectionOf[e.kind].second # "prop"
        /\ formatOf[e.kind].id = "never" => lookupOf[e.kind] = "refs"
  BY <1>1 DEF InModel
<1>10. f = [kind |-> f.kind, id |-> f.id, name |-> f.name, custom |-> f.custom, refs |-> f.refs]
  BY DEF Line
<1> HIDE DEF f
<1> QED
  BY <1>10, <1>2, <1>3, <1>5, <1>7, <1>8, <1>9 DEF f

\* The references of a line.
LEMMA WrittenRefsAreOK ==
  ASSUME CurrentInv, ~WriterFails(current), NEW w, file' = Written(current, w), current' = current,
         NEW e \in Kept(current), NEW r \in e.refs, NEW q, q = WrittenRef(current, e, r, w)
  PROVE  RefOK(e.kind, q)'
<1>1. e \in current /\ InModel(e) /\ r.id \in 1..999 /\ e.kind \in Kinds /\ r.kind \in FileRefs(e.kind)
  BY DEF Kept, CurrentInv, InModel
<1>2. /\ q.kind = r.kind
      /\ NestedIn(e, r) => q.by = "slot" /\ q.key = r.id
      /\ ~NestedIn(e, r) =>
           \/ q.by = "id" /\ q.key = r.id
           \/ /\ HasParent(current, r) /\ Parent(current, r).name # NoName
              /\ \/ q.by = "name" /\ q.key = Parent(current, r).name
                 \/ /\ q.by = "either" /\ e.kind = "consumer-group-consumer"
                    /\ q.key = r.id /\ q.alt = Parent(current, r).name
  BY WrittenRefs
<1>3. CASE NestedIn(e, r)
  <2>1. PICK p \in Kept(current) : p.id = r.id /\ p.kind = r.kind
    BY <1>3, ParentKept
  <2>2. file'[p.id] = Line(current, w, p) /\ p.id \in DOMAIN file'
    BY WrittenLines
  <2>3. q.key \in Slots' /\ file'[q.key].kind = r.kind
    BY <2>1, <2>2, <1>2, <1>3 DEF Line, Slots
  <2>4. Nests(e.kind, r.kind)
    BY <1>3, NestedInNests
  <2> QED
    BY <1>1, <1>2, <1>3, <2>3, <2>4 DEF RefOK
<1>4. CASE ~NestedIn(e, r)
  <2>1. e.kind \notin Credentials
    <3>1. e.kind \in Credentials => formatOf[e.kind].within = {"consumer"} /\ r.kind = "consumer"
      BY <1>1, Formats, ParentKinds
    <3> QED BY <3>1, <1>4 DEF NestedIn
  <2>2. q.by = "either" => r.kind = "consumer-group"
    <3>1. e.kind = "consumer-group-consumer" =>
            formatOf[e.kind].within = {"consumer"} /\ r.kind \in {"consumer", "consumer-group"}
      BY <1>1, Formats, ParentKinds
    <3> QED BY <3>1, <1>2, <1>4 DEF NestedIn
  <2>3. q.by = "either" => \A c \in current' : c.id = q.key => c.name = q.alt
    BY <1>2, <1>4, TheParent
  <2> QED
    BY <1>1, <1>2, <1>4, <2>1, <2>2, <2>3 DEF RefOK
<1> QED
  BY <1>3, <1>4

\* What KongStateToFile writes.
LEMMA WriteGivesFile == CurrentInv /\ FileInv /\ KongStateToFile => FileInv'
<1> SUFFICES ASSUME CurrentInv, FileInv, KongStateToFile PROVE FileInv'
  OBVIOUS
<1>0. phase = "write" /\ current' = current /\ edited' = edited /\ edited = {} /\ file = NoSlots
  BY DEF KongStateToFile, FileInv
<1>1. CASE WriterFails(current)
  <2>1. phase' = "writeFailed" /\ file' = file
    BY <1>1 DEF KongStateToFile
  <2>2. Slots' = {}
    BY <1>0, <2>1 DEF NoSlots, Slots
  <2>3. file' = [s \in Slots' |-> file'[s]]
    BY <1>0, <2>1, <2>2 DEF NoSlots
  <2> QED BY <1>0, <2>1, <2>2, <2>3, FS_EmptySet DEF FileInv
<1>2. CASE ~WriterFails(current)
  <2>0. PICK w : w = withID'
    OBVIOUS
  <2> DEFINE W == Written(current, w)
             K == Kept(current)
  <2>1. phase' = "edit" /\ file' = W /\ Slots' = DOMAIN W
    BY <1>2, <2>0 DEF KongStateToFile, Slots
  <2>2. /\ DOMAIN W = {e.id : e \in K} /\ K \subseteq current
        /\ W = [s \in DOMAIN W |-> W[s]]
        /\ \A e \in K : W[e.id] = Line(current, w, e)
    BY WrittenLines
  <2> HIDE DEF W, K
  <2>3. IsFiniteSet(Slots')
    <3>1. IsFiniteSet(K)
      BY <2>2, FS_Subset DEF CurrentInv
    <3> DEFINE g == [e \in K |-> e.id]
    <3>2. g \in Surjection(K, {e.id : e \in K})
      BY DEF Surjection
    <3> QED BY <2>1, <2>2, <3>1, <3>2, FS_Surjection
  <2>4. \A e \in K : InModel(e)
    BY <2>2 DEF CurrentInv
  <2>5. Slots' \subseteq Nat \ {NoId}
    <3>1. ASSUME NEW e \in K PROVE e.id \in Nat \ {NoId}
      <4>1. PICK i \in 1..999 : i = e.id
        BY <2>4 DEF InModel
      <4> QED BY <4>1 DEF NoId
    <3> QED BY <3>1, <2>1, <2>2
  <2>6. file' = [s \in Slots' |-> file'[s]]
    BY <2>1, <2>2
  <2>7. ASSUME NEW s \in Slots' PROVE SlotOK(file[s])'
    <3>1. PICK e \in K : s = e.id
      BY <2>1, <2>2
    <3>2. file'[s] = Line(current, w, e)
      BY <3>1, <2>1, <2>2
    <3>3. ASSUME NEW r \in e.refs, NEW q, q = WrittenRef(current, e, r, w) PROVE RefOK(e.kind, q)'
      BY <1>0, <1>2, <2>1, <3>3, WrittenRefsAreOK DEF K, W
    <3>4. file'[s].kind = e.kind /\ file'[s].refs = {WrittenRef(current, e, r, w) : r \in e.refs}
      BY <3>2 DEF Line
    <3>5. \A q \in file'[s].refs : RefOK(file[s].kind, q)'
      <4> SUFFICES ASSUME NEW q \in file'[s].refs PROVE RefOK(file[s].kind, q)'
        OBVIOUS
      <4>1. PICK r \in e.refs : q = WrittenRef(current, e, r, w)
        BY <3>4
      <4>2. RefOK(e.kind, q)'
        BY <4>1, <3>3
      <4> QED BY <4>2, <3>4
    <3>6. /\ file'[s] = [kind |-> file'[s].kind, id |-> file'[s].id, name |-> file'[s].name, custom |-> file'[s].custom, refs |-> file'[s].refs]
          /\ file'[s].kind \in Kinds /\ file'[s].id \in 0..1000 /\ file'[s].name \in Nat /\ file'[s].custom \in Nat
          /\ file'[s].kind # "consumer" => file'[s].custom = NoName
          /\ formatOf[file'[s].kind].id = "never" => file'[s].id = NoId
          /\ file'[s].id = NoId => file'[s].name # NoName \/ file'[s].custom # NoName \/ lookupOf[file'[s].kind] = "refs"
          /\ collectionOf[file'[s].kind].second = "prop" => file'[s].name # NoName
      BY <3>2, <1>2, LinesAreOK DEF K
    <3> QED BY <3>5, <3>6 DEF SlotOK
  <2>8. \A s \in Slots' \ edited' :
          s \in DOMAIN Written(current', withID') /\ file'[s] = Written(current', withID')[s]
    BY <1>0, <2>0, <2>1 DEF W
  <2>9. edited' = {} /\ file' = Written(current', withID') /\ ~WriterFails(current')
    BY <1>0, <1>2, <2>0, <2>1 DEF W
  <2> QED
    BY <2>1, <2>3, <2>5, <2>6, <2>7, <2>8, <2>9 DEF FileInv
<1> QED
  BY <1>1, <1>2

-----------------------------------------------------------------------------
(* The edits.                                                             *)

FieldsOK(f) ==
  /\ f = [kind |-> f.kind, id |-> f.id, name |-> f.name, custom |-> f.custom, refs |-> f.refs]
  /\ f.kind \in Kinds /\ f.id \in 0..1000 /\ f.name \in Nat /\ f.custom \in Nat
  /\ f.kind # "consumer" => f.custom = NoName
  /\ formatOf[f.kind].id = "never" => f.id = NoId
  /\ f.id = NoId => f.name # NoName \/ f.custom # NoName \/ lookupOf[f.kind] = "refs"
  /\ collectionOf[f.kind].second = "prop" => f.name # NoName

\* SlotOK, its references apart.
LEMMA SlotIsOK == \A f : SlotOK(f) <=> FieldsOK(f) /\ \A r \in f.refs : RefOK(f.kind, r)
BY DEF SlotOK, FieldsOK

\* An edit that leaves a file like it was.
LEMMA EditKeeps ==
  ASSUME FileInv, PhaseInv, NEW X, Edit(X, file'),
         IsFiniteSet(Slots'), Slots' \subseteq Nat \ {NoId}, file' = [s \in Slots' |-> file'[s]],
         \A s \in Slots' : SlotOK(file[s])',
         \A s \in Slots' \ X : s \in Slots /\ file'[s] = file[s]
  PROVE  FileInv'
<1>1. /\ phase = "edit" /\ phase' = "edit" /\ edited' = edited \cup X /\ edits' = edits - 1 /\ edits > 0
      /\ current' = current /\ withID' = withID
  BY DEF Edit
<1>2. edits' # MaxEdits
  BY <1>1, EditAssumption DEF PhaseInv
<1>3. /\ ~WriterFails(current)
      /\ \A s \in Slots \ edited :
           s \in DOMAIN Written(current, withID) /\ file[s] = Written(current, withID)[s]
  BY <1>1 DEF FileInv
<1>4. \A s \in Slots' \ edited' :
        s \in DOMAIN Written(current', withID') /\ file'[s] = Written(current', withID')[s]
  BY <1>1, <1>3
<1> QED
  BY <1>1, <1>2, <1>3, <1>4 DEF FileInv

\* What is nested in nothing that goes stays where it is.
LEMMA RefStays ==
  ASSUME current' = current, NEW k, NEW r, RefOK(k, r),
         r.by = "slot" => r.key \in Slots' /\ file'[r.key].kind = file[r.key].kind
  PROVE  RefOK(k, r)'
BY DEF RefOK

\* An edit of one slot.
LEMMA OneSlotEdited ==
  ASSUME FileInv, PhaseInv, NEW s \in Slots, NEW f, Edit({s}, [file EXCEPT ![s] = f]),
         FieldsOK(f), f.kind = file[s].kind, f.refs = file[s].refs
  PROVE  FileInv'
<1>1. /\ file' = [file EXCEPT ![s] = f] /\ current' = current
      /\ file = [t \in Slots |-> file[t]]
  BY DEF Edit, FileInv
<1>2. /\ Slots' = Slots /\ file' = [t \in Slots' |-> file'[t]] /\ file'[s] = f
      /\ \A t \in Slots : t # s => file'[t] = file[t]
  BY <1>1 DEF Slots
<1>3. \A t \in Slots : SlotOK(file[t])
  BY DEF FileInv
<1>4. \A t \in Slots : file'[t].kind = file[t].kind /\ file'[t].refs = file[t].refs /\ FieldsOK(file'[t])
  BY <1>2, <1>3, SlotIsOK
<1>5. ASSUME NEW t \in Slots' PROVE SlotOK(file[t])'
  <2>1. ASSUME NEW r \in file'[t].refs PROVE RefOK(file[t].kind, r)'
    <3>0. t \in Slots /\ SlotOK(file[t])
      BY <1>2, <1>3
    <3>1. r \in file[t].refs /\ file'[t].kind = file[t].kind
      BY <3>0, <1>4
    <3>2. RefOK(file[t].kind, r)
      BY <3>0, <3>1 DEF SlotOK
    <3>3. r.by = "slot" => r.key \in Slots' /\ file'[r.key].kind = file[r.key].kind
      BY <3>2, <1>2, <1>4 DEF RefOK
    <3>4. PICK k : k = file[t].kind
      OBVIOUS
    <3>5. RefOK(k, r)'
      BY <3>2, <3>3, <3>4, <1>1, RefStays
    <3> QED BY <3>1, <3>4, <3>5
  <2> QED BY <2>1, <1>2, <1>4 DEF SlotOK, FieldsOK
<1>6. IsFiniteSet(Slots') /\ Slots' \subseteq Nat \ {NoId}
  BY <1>2 DEF FileInv
<1>7. Edit({s}, file')
  BY <1>1 DEF Edit
<1> QED
  BY <1>2, <1>5, <1>6, <1>7, EditKeeps

\* One edit after the other.
LEMMA RenameKeeps == ASSUME FileInv, PhaseInv, NEW s \in Slots, RenameSlot(s) PROVE FileInv'
<1>1. PICK n \in Names : Edit({s}, [file EXCEPT ![s].name = n])
  BY DEF RenameSlot
<1> DEFINE f == [file[s] EXCEPT !.name = n]
<1>2. FieldsOK(file[s]) /\ n \in Nat /\ n # NoName
  BY EditAssumption, SlotIsOK DEF FileInv
<1>3. f = [kind |-> file[s].kind, id |-> file[s].id, name |-> n, custom |-> file[s].custom, refs |-> file[s].refs]
  BY <1>2 DEF FieldsOK
<1>4. FieldsOK(f) /\ f.kind = file[s].kind /\ f.refs = file[s].refs
  BY <1>2, <1>3 DEF FieldsOK
<1>5. Edit({s}, [file EXCEPT ![s] = f])
  BY <1>1
<1> HIDE DEF f
<1> QED
  BY <1>4, <1>5, OneSlotEdited

\* A custom_id is given to consumers only.
LEMMA IdentifyKeeps == ASSUME FileInv, PhaseInv, NEW s \in Slots, IdentifySlot(s) PROVE FileInv'
<1>1. /\ file[s].kind = "consumer"
      /\ \E x \in Names \cup {NoName} :
           (file[s].name # NoName \/ x # NoName) /\ Edit({s}, [file EXCEPT ![s].custom = x])
  BY DEF IdentifySlot
<1>2. PICK c \in Names \cup {NoName} :
        (file[s].name # NoName \/ c # NoName) /\ Edit({s}, [file EXCEPT ![s].custom = c])
  BY <1>1
<1> DEFINE f == [file[s] EXCEPT !.custom = c]
<1>3. FieldsOK(file[s]) /\ c \in Nat
  BY EditAssumption, SlotIsOK DEF FileInv, NoName
<1>4. f = [kind |-> file[s].kind, id |-> file[s].id, name |-> file[s].name, custom |-> c, refs |-> file[s].refs]
  BY <1>3 DEF FieldsOK
<1>5. FieldsOK(f) /\ f.kind = file[s].kind /\ f.refs = file[s].refs
  BY <1>1, <1>2, <1>3, <1>4 DEF FieldsOK
<1>6. Edit({s}, [file EXCEPT ![s] = f])
  BY <1>2
<1> HIDE DEF f
<1> QED
  BY <1>5, <1>6, OneSlotEdited

\* An id is taken out only where a name or a custom_id is left.
LEMMA StripKeeps == ASSUME FileInv, PhaseInv, NEW s \in Slots, StripId(s) PROVE FileInv'
<1>1. (file[s].name # NoName \/ file[s].custom # NoName) /\ Edit({s}, [file EXCEPT ![s].id = NoId])
  BY DEF StripId
<1> DEFINE f == [file[s] EXCEPT !.id = NoId]
<1>2. FieldsOK(file[s])
  BY SlotIsOK DEF FileInv
<1>3. f = [kind |-> file[s].kind, id |-> NoId, name |-> file[s].name, custom |-> file[s].custom, refs |-> file[s].refs]
  BY <1>2 DEF FieldsOK
<1>4. FieldsOK(f) /\ f.kind = file[s].kind /\ f.refs = file[s].refs
  BY <1>1, <1>2, <1>3 DEF FieldsOK, NoId
<1>5. Edit({s}, [file EXCEPT ![s] = f])
  BY <1>1
<1> HIDE DEF f
<1> QED
  BY <1>4, <1>5, OneSlotEdited

\* An id that is given is a current one or 1000.
LEMMA GiveKeeps == ASSUME CurrentInv, FileInv, PhaseInv, NEW s \in Slots, GiveId(s) PROVE FileInv'
<1>1. PICK id \in {c.id : c \in OfKind(file[s].kind, current)} \cup {FreshId(NoId)} :
        Edit({s}, [file EXCEPT ![s].id = id])
  BY DEF GiveId
<1> DEFINE f == [file[s] EXCEPT !.id = id]
<1>2. FieldsOK(file[s]) /\ formatOf[file[s].kind].id # "never"
  BY SlotIsOK DEF FileInv, GiveId
<1>3. id \in 1..1000
  <2>1. \A c \in current : c.id \in 1..999
    BY DEF CurrentInv, InModel
  <2>2. \A c \in current : c.id \in 1..1000
    BY <2>1
  <2>3. FreshId(NoId) \in 1..1000
    BY DEF FreshId, NoId
  <2> QED BY <1>1, <2>2, <2>3 DEF OfKind
<1>4. f = [kind |-> file[s].kind, id |-> id, name |-> file[s].name, custom |-> file[s].custom, refs |-> file[s].refs]
  BY <1>2 DEF FieldsOK
<1>5. FieldsOK(f) /\ f.kind = file[s].kind /\ f.refs = file[s].refs
  BY <1>2, <1>3, <1>4 DEF FieldsOK, NoId
<1>6. Edit({s}, [file EXCEPT ![s] = f])
  BY <1>1
<1> HIDE DEF f
<1> QED
  BY <1>5, <1>6, OneSlotEdited

\* A copy refers to what its original does.
LEMMA InsertKeeps == ASSUME FileInv, PhaseInv, NEW s \in Slots, InsertSlot(s) PROVE FileInv'
<1> DEFINE m == CHOOSE m \in Slots : \A t \in Slots : t <= m
           new == 1 + m
<1>1. PICK n \in Names :
        Edit({new}, [t \in Slots \cup {new} |->
                       IF t = new THEN [file[s] EXCEPT !.name = n, !.id = NoId] ELSE file[t]])
  BY DEF InsertSlot
<1>2. m \in Slots /\ m \in Nat /\ \A t \in Slots : t \in Nat /\ t <= m
  <2>1. Slots \in SUBSET Nat /\ IsFiniteSet(Slots) /\ Slots # {}
    BY DEF FileInv
  <2>2. \E x \in Slots : \A t \in Slots : t <= x
    BY <2>1, HasGreatest
  <2> QED BY <2>1, <2>2
<1> HIDE DEF m
<1>3. new \in Nat \ {NoId} /\ new \notin Slots
  BY <1>2 DEF NoId
<1> HIDE DEF new
<1> DEFINE f == [file[s] EXCEPT !.name = n, !.id = NoId]
<1>4. FieldsOK(file[s]) /\ n \in Nat /\ n # NoName
  BY EditAssumption, SlotIsOK DEF FileInv
<1>5. f = [kind |-> file[s].kind, id |-> NoId, name |-> n, custom |-> file[s].custom, refs |-> file[s].refs]
  <2>1. PICK a, i, b, c, d : file[s] = [kind |-> a, id |-> i, name |-> b, custom |-> d, refs |-> c]
    BY <1>4 DEF FieldsOK
  <2>2. PICK g : g = [file[s] EXCEPT !.name = n]
    OBVIOUS
  <2>3. g = [kind |-> a, id |-> i, name |-> n, custom |-> d, refs |-> c]
    BY <2>1, <2>2
  <2>4. f = [g EXCEPT !.id = NoId]
    BY <2>2
  <2>5. [g EXCEPT !.id = NoId] = [kind |-> a, id |-> NoId, name |-> n, custom |-> d, refs |-> c]
    BY <2>3
  <2> HIDE DEF f
  <2> QED BY <2>1, <2>4, <2>5
<1>6. FieldsOK(f) /\ f.kind = file[s].kind /\ f.refs = file[s].refs
  BY <1>4, <1>5 DEF FieldsOK, NoId
<1> HIDE DEF f
<1>7. /\ file' = [t \in Slots \cup {new} |-> IF t = new THEN f ELSE file[t]] /\ current' = current
      /\ Edit({new}, file')
  BY <1>1 DEF Edit, f
<1>8. /\ Slots' = Slots \cup {new} /\ file' = [t \in Slots' |-> file'[t]] /\ file'[new] = f
      /\ \A t \in Slots : file'[t] = file[t]
  BY <1>3, <1>7 DEF Slots
<1>9. \A t \in Slots : SlotOK(file[t])
  BY DEF FileInv
<1>10. ASSUME NEW t \in Slots' PROVE SlotOK(file[t])'
  <2>1. PICK u \in Slots : file'[t].kind = file[u].kind /\ file'[t].refs = file[u].refs
    BY <1>6, <1>8
  <2>2. FieldsOK(file'[t])
    BY <1>6, <1>8, <1>9, SlotIsOK
  <2>3. ASSUME NEW r \in file'[t].refs PROVE RefOK(file[t].kind, r)'
    <3>1. RefOK(file[u].kind, r)
      BY <2>1, <1>9, SlotIsOK
    <3>2. r.by = "slot" => r.key \in Slots' /\ file'[r.key].kind = file[r.key].kind
      BY <3>1, <1>8 DEF RefOK
    <3>3. RefOK(file[u].kind, r) /\ file[u].kind = file'[t].kind
      BY <3>1, <2>1
    <3>4. PICK k : k = file'[t].kind
      OBVIOUS
    <3>5. RefOK(k, r)'
      BY <3>2, <3>3, <3>4, <1>7, RefStays
    <3> QED BY <3>4, <3>5
  <2> QED BY <2>2, <2>3 DEF SlotOK, FieldsOK
<1>11. IsFiniteSet(Slots') /\ Slots' \subseteq Nat \ {NoId}
  BY <1>3, <1>8, FS_AddElement DEF FileInv
<1>12. \A t \in Slots' \ {new} : t \in Slots /\ file'[t] = file[t]
  BY <1>8
<1> QED
  BY <1>7, <1>8, <1>10, <1>11, <1>12, EditKeeps

\* What is removed takes with it what is nested in it.
LEMMA RemoveKeeps == ASSUME FileInv, PhaseInv, NEW s \in Slots, RemoveSlot(s) PROVE FileInv'
<1> DEFINE X == WithNested(s)
           n == UNION {Nested(t) : t \in Nested(s)}
<1>1. /\ file' = [t \in Slots \ X |-> file[t]] /\ current' = current /\ Edit(X, file')
  BY DEF RemoveSlot, Edit
<1>2. /\ Slots' = Slots \ X /\ file' = [t \in Slots' |-> file'[t]]
      /\ \A t \in Slots' : t \in Slots /\ file'[t] = file[t]
  BY <1>1 DEF Slots
<1>3. \A t \in Slots : SlotOK(file[t])
  BY DEF FileInv
<1>4. ASSUME NEW t \in Slots, NEW u \in X, t \in Nested(u) PROVE t \in X
  <2>0. X = {s} \cup Nested(s) \cup n \cup UNION {Nested(x) : x \in n}
    BY DEF WithNested
  <2>1. CASE u = s
    BY <2>1, <1>4, <2>0
  <2>2. CASE u \in Nested(s)
    BY <2>2, <1>4, <2>0
  <2>3. CASE u \in n
    BY <2>3, <1>4, <2>0
  <2>4. CASE \E x \in n : u \in Nested(x)
    <3>1. PICK x \in n : u \in Nested(x)
      BY <2>4
    <3>2. PICK y \in Nested(s) : x \in Nested(y)
      BY <3>1
    <3>3. ASSUME NEW a \in Slots, NEW b, b \in Nested(a)
          PROVE  /\ b \in Slots /\ file[b].kind \in Kinds
                 /\ file[a].kind \in FileRefs(file[b].kind) /\ Nests(file[b].kind, file[a].kind)
      <4>1. b \in Slots /\ SlotOK(file[b])
        BY <3>3, <1>3 DEF Nested
      <4>2. PICK r \in file[b].refs : r.by = "slot" /\ r.key = a
        BY <3>3 DEF Nested
      <4>3. RefOK(file[b].kind, r)
        BY <4>1 DEF SlotOK
      <4> QED BY <4>1, <4>2, <4>3 DEF RefOK, SlotOK
    <3>4. y \in Slots /\ x \in Slots /\ u \in Slots
      BY <3>1, <3>2 DEF Nested
    <3>5. file[x].kind \in Parent10 /\ file[y].kind \in Parent10
      <4>1. file[x].kind \in FileRefs(file[u].kind) /\ file[u].kind \in Kinds
        BY <3>1, <3>3, <3>4
      <4>2. file[y].kind \in FileRefs(file[x].kind) /\ file[x].kind \in Kinds
        BY <3>2, <3>3, <3>4
      <4> QED BY <4>1, <4>2, ParentKinds
    <3>6. file[y].kind \in {"service", "service-package"}
      <4>1. file[y].kind \in FileRefs(file[x].kind) /\ file[x].kind \in Kinds
        BY <3>2, <3>3, <3>4
      <4> QED BY <4>1, <3>5, NestedKinds
    <3>7. file[s].kind \in FileRefs(file[y].kind) /\ file[y].kind \in Kinds
      BY <3>2, <3>3
    <3> QED BY <3>6, <3>7, ParentKinds
  <2> QED BY <2>0, <2>1, <2>2, <2>3, <2>4
<1>5. ASSUME NEW t \in Slots' PROVE SlotOK(file[t])'
  <2>1. t \in Slots /\ SlotOK(file[t]) /\ file'[t] = file[t] /\ t \notin X
    BY <1>2, <1>3
  <2>2. ASSUME NEW r \in file'[t].refs PROVE RefOK(file[t].kind, r)'
    <3>1. r \in file[t].refs /\ RefOK(file[t].kind, r)
      BY <2>1 DEF SlotOK
    <3>2. r.by = "slot" => r.key \in Slots' /\ file'[r.key].kind = file[r.key].kind
      <4> SUFFICES ASSUME r.by = "slot" PROVE r.key \in Slots' /\ file'[r.key].kind = file[r.key].kind
        OBVIOUS
      <4>1. r.key \in Slots /\ t \in Nested(r.key)
        BY <2>1, <3>1 DEF RefOK, Nested
      <4>2. r.key \notin X
        BY <4>1, <2>1, <1>4
      <4> QED BY <4>1, <4>2, <1>2
    <3>3. PICK k : k = file[t].kind
      OBVIOUS
    <3>4. RefOK(k, r)'
      BY <3>1, <3>2, <3>3, <1>1, RefStays
    <3> QED BY <3>3, <3>4, <2>1
  <2> QED BY <2>1, <2>2 DEF SlotOK
<1>6. IsFiniteSet(Slots') /\ Slots' \subseteq Nat \ {NoId}
  BY <1>2, FS_Subset DEF FileInv
<1> HIDE DEF X
<1> QED
  BY <1>1, <1>2, <1>5, <1>6, EditKeeps

-----------------------------------------------------------------------------
(* The builder.                                                           *)

\* What comes later changes nothing for a reference to a kind that is there.
LEMMA LaterChangesNothing ==
  ASSUME FileInv, NEW k, NEW r, RefOK(k, r), NEW B, NEW C, DOMAIN B \subseteq Slots,
         DOMAIN B \subseteq DOMAIN C, \A x \in DOMAIN B : C[x] = B[x],
         \A x \in DOMAIN C \ DOMAIN B : C[x].kind # r.kind,
         r.by = "slot" => r.key \in DOMAIN B, ~Dangling(B, k, r)
  PROVE  ResolvedId(C, r) = ResolvedId(B, r) /\ ~Dangling(C, k, r)
<1>1. \A i : ById(C, r.kind, i) = ById(B, r.kind, i)
  BY DEF ById
<1>2. \A x \in DOMAIN B : B[x].kind = r.kind => (FirstOfItsId(C, x) <=> FirstOfItsId(B, x))
  BY <1>1 DEF FirstOfItsId
<1>3. \A n : ByName(C, r.kind, n) = ByName(B, r.kind, n)
  <2>1. ASSUME NEW n, NEW x PROVE x \in ByName(C, r.kind, n) <=> x \in ByName(B, r.kind, n)
    BY <1>2 DEF ByName
  <2>2. ASSUME NEW n PROVE ByName(C, r.kind, n) = ByName(B, r.kind, n)
    <3> DEFINE X == ByName(C, r.kind, n)
               Y == ByName(B, r.kind, n)
    <3>1. \A x : x \in X <=> x \in Y
      BY <2>1
    <3> HIDE DEF X, Y
    <3>2. X = Y
      BY <3>1
    <3> QED BY <3>2 DEF X, Y
  <2> QED BY <2>2
<1>4. ~Dangling(C, k, r)
  BY <1>1, <1>3 DEF Dangling
<1>5. CASE r.by = "slot"
  BY <1>4, <1>5 DEF ResolvedId
<1>6. CASE r.by = "name"
  <2> DEFINE X == ByName(B, r.kind, r.key)
  <2>1. X # {} /\ X \in SUBSET Slots /\ X \subseteq DOMAIN B
    BY <1>6 DEF Dangling, ByName
  <2>2. FirstOf(X) \in DOMAIN B
    BY <2>1, FirstIsLeast
  <2>3. ByName(C, r.kind, r.key) = X
    BY <1>3
  <2> HIDE DEF X
  <2> QED BY <1>4, <1>6, <2>2, <2>3 DEF ResolvedId, X
<1>7. CASE r.by = "either"
  <2> DEFINE X == ById(B, r.kind, r.key) \cup ByName(B, r.kind, r.alt)
  <2>1. X # {} /\ X \in SUBSET Slots /\ X \subseteq DOMAIN B
    BY <1>7 DEF Dangling, ByName, ById
  <2>2. FirstOf(X) \in DOMAIN B
    BY <2>1, FirstIsLeast
  <2>3. ById(C, r.kind, r.key) \cup ByName(C, r.kind, r.alt) = X
    BY <1>1, <1>3
  <2> HIDE DEF X
  <2> QED BY <1>4, <1>7, <2>2, <2>3 DEF ResolvedId, X
<1>8. CASE r.by = "id"
  BY <1>4, <1>8 DEF ResolvedId
<1> QED
  BY <1>5, <1>6, <1>7, <1>8 DEF RefOK

\* The next slots are those of a kind, and no slot of an earlier kind is left.
LEMMA NextIsAKind ==
  ASSUME FileInv, BuiltInv, Unbuilt # {}
  PROVE  \E k \in Kinds :
           /\ NextSlots = {s \in Unbuilt : file[s].kind = k} /\ NextSlots # {}
           /\ \A s \in Unbuilt : buildPosition[k] <= buildPosition[file[s].kind]
           /\ \A s \in Slots : file[s].kind = k => s \in Unbuilt
<1> DEFINE pos(s) == buildPosition[file[s].kind]
           P == {pos(s) : s \in Unbuilt}
           IsNext(i) == /\ \E s \in Unbuilt : file[s].kind = build[i].kind
                       /\ \A j \in 1..(i - 1) : \A s \in Unbuilt : file[s].kind # build[j].kind
           i0 == CHOOSE i \in DOMAIN build : IsNext(i)
<1>0. DOMAIN build = 1..34
  BY BuildRows
<1>1. \A s \in Slots : file[s].kind \in Kinds /\ pos(s) \in 1..34 /\ build[pos(s)].kind = file[s].kind
  BY KindIsBuilt DEF FileInv, SlotOK
<1>2. PICK m \in P : \A i \in P : m <= i
  <2>1. P # {} /\ P \subseteq 1..34
    BY <1>1 DEF Unbuilt
  <2>2. IsFiniteSet(1..34)
    BY 1 \in Int /\ 34 \in Int, FS_Interval
  <2> HIDE DEF P
  <2>3. IsFiniteSet(P)
    BY <2>1, <2>2, FS_Subset
  <2>4. P \in SUBSET Nat
    BY <2>1
  <2> QED BY <2>1, <2>3, <2>4, HasLeast
<1>3. m \in 1..34 /\ \A s \in Unbuilt : m <= pos(s)
  BY <1>1, <1>2 DEF Unbuilt
<1>4. IsNext(m)
  <2>1. PICK s \in Unbuilt : m = pos(s)
    BY <1>2
  <2>2. file[s].kind = build[m].kind
    BY <1>1, <2>1 DEF Unbuilt
  <2>3. ASSUME NEW j \in 1..(m - 1), NEW t \in Unbuilt, file[t].kind = build[j].kind PROVE FALSE
    <3>1. j \in 1..34 /\ j < m
      BY <1>3
    <3>2. pos(t) = j
      BY <3>1, <2>3, KindIsBuilt
    <3> QED BY <3>1, <3>2, <1>3
  <2> QED BY <2>1, <2>2, <2>3
<1>5. i0 \in 1..34 /\ IsNext(i0)
  <2>1. \E i \in DOMAIN build : IsNext(i)
    BY <1>0, <1>3, <1>4
  <2> HIDE DEF IsNext
  <2> QED BY <2>1, <1>0
<1> DEFINE k == build[i0].kind
<1>6. NextSlots = {s \in Unbuilt : file[s].kind = k}
  BY DEF NextSlots
<1> HIDE DEF i0
<1>7. k \in Kinds /\ buildPosition[k] = i0
  BY <1>5, KindIsBuilt
<1>8. PICK s0 \in Unbuilt : file[s0].kind = k
  BY <1>5
<1>9. ASSUME NEW t \in Unbuilt PROVE i0 <= pos(t)
  <2>1. pos(t) \in 1..34 /\ build[pos(t)].kind = file[t].kind
    BY <1>1 DEF Unbuilt
  <2>2. ~(pos(t) \in 1..(i0 - 1))
    BY <2>1, <1>5
  <2> QED BY <2>1, <2>2, <1>5
<1>10. ASSUME NEW t \in Slots, file[t].kind = k, t \in DOMAIN built PROVE FALSE
  <2>1. pos(s0) <= pos(t) /\ s0 \in Slots
    BY <1>8, <1>10, <1>5, <1>7 DEF Unbuilt
  <2>2. s0 \in DOMAIN built
    BY <2>1, <1>10 DEF BuiltInv
  <2> QED BY <2>2, <1>8 DEF Unbuilt
<1>11. NextSlots # {}
  BY <1>6, <1>8
<1> QED
  <2>1. \A s \in Unbuilt : buildPosition[k] <= buildPosition[file[s].kind]
    BY <1>7, <1>9
  <2>2. \A s \in Slots : file[s].kind = k => s \in Unbuilt
    BY <1>10 DEF Unbuilt
  <2> HIDE DEF k, P, IsNext
  <2> QED BY <1>6, <1>7, <1>11, <2>1, <2>2

\* What the next slots refer to is there.
LEMMA BeforeNext ==
  ASSUME FileInv, BuiltInv, NEW s \in Slots, NEW r \in file[s].refs, s \in DOMAIN built \cup NextSlots,
         Unbuilt # {}
  PROVE  /\ RefOK(file[s].kind, r) /\ file[s].kind \in Kinds
         /\ \A t \in Slots : file[t].kind = r.kind => t \in DOMAIN built
         /\ r.by = "slot" => r.key \in DOMAIN built
         /\ \A t \in NextSlots : file[t].kind # r.kind
<1>1. SlotOK(file[s]) /\ s \in Slots
  BY DEF FileInv
<1>2. RefOK(file[s].kind, r) /\ file[s].kind \in Kinds /\ r.kind \in FileRefs(file[s].kind)
  BY <1>1 DEF SlotOK, RefOK
<1>3. r.kind \in Kinds /\ buildPosition[r.kind] < buildPosition[file[s].kind]
  BY <1>2, RefsBefore
<1>4. buildPosition[r.kind] \in Nat /\ buildPosition[file[s].kind] \in Nat
  BY <1>2, <1>3, KindIsBuilt
<1>5. PICK k \in Kinds :
           /\ NextSlots = {x \in Unbuilt : file[x].kind = k} /\ NextSlots # {}
           /\ \A x \in Unbuilt : buildPosition[k] <= buildPosition[file[x].kind]
           /\ \A x \in Slots : file[x].kind = k => x \in Unbuilt
  BY NextIsAKind
<1>6. buildPosition[k] \in Nat
  BY <1>5, KindIsBuilt
<1>7. ASSUME NEW t \in Slots, file[t].kind = r.kind, t \notin DOMAIN built PROVE FALSE
  <2>1. t \in Unbuilt
    BY <1>7 DEF Unbuilt
  <2>2. CASE s \in DOMAIN built
    <3>1. buildPosition[file[t].kind] <= buildPosition[file[s].kind]
      BY <1>3, <1>4, <1>7
    <3> QED BY <3>1, <2>2, <1>7 DEF BuiltInv
  <2>3. CASE s \in NextSlots
    <3>1. buildPosition[k] <= buildPosition[r.kind] /\ file[s].kind = k
      BY <2>1, <2>3, <1>5, <1>7
    <3> QED BY <3>1, <1>3, <1>4, <1>6
  <2> QED BY <2>2, <2>3
<1>8. r.by = "slot" => r.key \in DOMAIN built
  BY <1>2, <1>7 DEF RefOK
<1>9. \A t \in NextSlots : file[t].kind # r.kind
  <2>1. \A t \in NextSlots : t \in Slots /\ t \notin DOMAIN built
    BY <1>5 DEF Unbuilt
  <2> QED BY <2>1, <1>7
<1> QED
  BY <1>2, <1>7, <1>8, <1>9

\* The builder does not change a kind.
LEMMA BuiltKind == ASSUME NEW B, NEW s PROVE Built(file, current, B, s).kind = file[s].kind
<1> DEFINE f == file[s]
           e == [kind |-> f.kind, id |-> f.id, name |-> f.name, custom |-> f.custom,
                 refs |-> {[kind |-> r.kind, id |-> ResolvedId(B, r)] : r \in f.refs}]
           found == Found(current, e)
           i == IF found = {} THEN FreshId(s) ELSE (CHOOSE c \in found : TRUE).id
<1>1. Built(file, current, B, s) = IF f.id # NoId THEN e ELSE [e EXCEPT !.id = i]
  BY DEF Built
<1> HIDE DEF i
<1>2. e.kind = f.kind /\ [e EXCEPT !.id = i].kind = f.kind
  OBVIOUS
<1> HIDE DEF e
<1> QED BY <1>1, <1>2

\* A kind is built.
LEMMA BuildKindBuilds ==
  ASSUME FileInv, BuiltInv, BuildKind, phase' = phase
  PROVE  BuiltInv'
<1>1. /\ phase = "build" /\ Unbuilt # {} /\ file' = file /\ current' = current
      /\ \A s \in NextSlots : \A r \in file[s].refs : ~Dangling(built, file[s].kind, r)
      /\ built' = [s \in DOMAIN built \cup NextSlots |->
                     IF s \in DOMAIN built THEN built[s] ELSE Built(file, current, built, s)]
  BY DEF BuildKind
<1> DEFINE New == DOMAIN built \cup NextSlots
<1>2. PICK C : C = built'
  OBVIOUS
<1>3. PICK k \in Kinds :
           /\ NextSlots = {s \in Unbuilt : file[s].kind = k} /\ NextSlots # {}
           /\ \A s \in Unbuilt : buildPosition[k] <= buildPosition[file[s].kind]
           /\ \A s \in Slots : file[s].kind = k => s \in Unbuilt
  BY <1>1, NextIsAKind
<1>4. /\ DOMAIN C = New /\ C = [s \in New |-> C[s]]
      /\ \A s \in DOMAIN built : C[s] = built[s]
      /\ \A s \in NextSlots : C[s] = Built(file, current, built, s)
  <2>1. C = [s \in New |-> IF s \in DOMAIN built THEN built[s] ELSE Built(file, current, built, s)]
    BY <1>1, <1>2
  <2>2. NextSlots \cap DOMAIN built = {}
    BY <1>3 DEF Unbuilt
  <2> QED BY <2>1, <2>2
<1>5. New \subseteq Slots /\ DOMAIN built \subseteq Slots
  BY <1>3 DEF BuiltInv, Unbuilt
<1>6. ASSUME NEW s \in NextSlots PROVE C[s].kind = file[s].kind
  BY <1>4, BuiltKind
<1>7. ASSUME NEW s \in New, NEW t \in Slots, buildPosition[file[t].kind] <= buildPosition[file[s].kind]
      PROVE  t \in New
  <2>1. CASE s \in DOMAIN built
    BY <2>1, <1>7 DEF BuiltInv
  <2>2. CASE s \in NextSlots /\ t \notin DOMAIN built
    <3>1. t \in Unbuilt /\ file[s].kind = k
      BY <2>2, <1>3 DEF Unbuilt
    <3>2. file[t].kind \in Kinds
      BY DEF FileInv, SlotOK
    <3>3. buildPosition[k] <= buildPosition[file[t].kind]
      BY <3>1, <1>3
    <3>4. buildPosition[k] \in Nat /\ buildPosition[file[t].kind] \in Nat
      BY <3>2, KindIsBuilt
    <3>5. buildPosition[file[t].kind] = buildPosition[k]
      BY <3>1, <3>3, <3>4, <1>7
    <3>6. file[t].kind = k
      BY <3>2, <3>5, KindIsBuilt
    <3> QED BY <3>1, <3>6, <1>3
  <2> QED BY <2>1, <2>2
<1>8. ASSUME NEW s \in New
      PROVE  /\ C[s] = Built(file, current, built, s)
             /\ \A r \in file[s].refs : ResolvedId(C, r) = ResolvedId(built, r) /\ ~Dangling(C, file[s].kind, r)
  <2>1. C[s] = Built(file, current, built, s)
    BY <1>4 DEF BuiltInv
  <2>2. ASSUME NEW r \in file[s].refs
        PROVE  ResolvedId(C, r) = ResolvedId(built, r) /\ ~Dangling(C, file[s].kind, r)
    <3>1. s \in Slots
      BY <1>5
    <3>2. /\ RefOK(file[s].kind, r)
          /\ r.by = "slot" => r.key \in DOMAIN built
          /\ \A t \in NextSlots : file[t].kind # r.kind
      BY <3>1, <1>1, BeforeNext
    <3>3. ~Dangling(built, file[s].kind, r)
      BY <1>1 DEF BuiltInv
    <3>4. \A x \in DOMAIN C \ DOMAIN built : C[x].kind # r.kind
      BY <1>4, <1>6, <3>2
    <3>5. DOMAIN built \subseteq DOMAIN C /\ \A x \in DOMAIN built : C[x] = built[x]
      BY <1>4
    <3>6. PICK c : c = file[s].kind
      OBVIOUS
    <3>7. RefOK(file[s].kind, r)
      BY <3>2
    <3>9. RefOK(c, r)
      BY <3>7, <3>6
    <3>10. ~Dangling(built, c, r)
      BY <3>3, <3>6
    <3>11. r.by = "slot" => r.key \in DOMAIN built
      BY <3>2
    <3>12. DOMAIN built \subseteq Slots
      BY <1>5
    <3>8. ResolvedId(C, r) = ResolvedId(built, r) /\ ~Dangling(C, c, r)
      BY <3>4, <3>5, <3>9, <3>10, <3>11, <3>12, LaterChangesNothing
    <3> QED BY <3>6, <3>8
  <2> QED BY <2>1, <2>2
<1>9. ASSUME NEW s \in New PROVE C[s] = Built(file, current, C, s)
  <2>1. {[kind |-> r.kind, id |-> ResolvedId(C, r)] : r \in file[s].refs} =
        {[kind |-> r.kind, id |-> ResolvedId(built, r)] : r \in file[s].refs}
    BY <1>8
  <2>2. Built(file, current, C, s) = Built(file, current, built, s)
    BY <2>1 DEF Built
  <2> QED BY <2>2, <1>8
<1> HIDE DEF New
<1> QED
  BY <1>1, <1>2, <1>4, <1>5, <1>7, <1>8, <1>9, ZenonT(60) DEF BuiltInv, Slots

-----------------------------------------------------------------------------
(* The steps.                                                             *)

\* The cause of a refusal does not go away.
LEMMA CauseKept == Cause /\ UNCHANGED <<file, current, built>> => Cause'
<1> SUFFICES ASSUME Cause, UNCHANGED <<file, current, built>> PROVE Cause'
  OBVIOUS
<1>1. ASSUME NEW r PROVE LeadsTo(r)' = LeadsTo(r)
  BY DEF LeadsTo, Slots
<1>2. ASSUME NEW s, NEW t, SameParents(s, t) PROVE SameParents(s, t)'
  BY <1>1, <1>2 DEF SameParents, Meets
<1>3. ASSUME NEW s, NEW t, Contradict(s, t) PROVE Contradict(s, t)'
  <2>1. ASSUME NEW x, NEW c, StandsFor(x, c) PROVE StandsFor(x, c)'
    <3>1. IdentifiedBy(x, c) => IdentifiedBy(x, c)'
      BY DEF IdentifiedBy, OfKind
    <3> QED BY <2>1, <3>1 DEF StandsFor
  <2> QED BY <1>2, <1>3, <2>1 DEF Contradict
<1>4. Slots' = Slots
  BY DEF Slots
<1>5. CASE \E s, t \in Slots : Contradict(s, t)
  BY <1>3, <1>4, <1>5 DEF Cause
<1>6. CASE \E s \in Slots : \E r \in file[s].refs : Unresolved(r)
  BY <1>1, <1>4, <1>6 DEF Cause, Unresolved
<1> QED
  BY <1>5, <1>6 DEF Cause

\* BuiltInv speaks of file, current and built only.
LEMMA BuiltKept == BuiltInv /\ UNCHANGED <<file, current, built>> => BuiltInv'
BY DEF BuiltInv, Slots

\* It is true as long as nothing is built.
LEMMA NothingBuilt == built' = NoSlots => BuiltInv'
<1> SUFFICES ASSUME built' = NoSlots PROVE BuiltInv'
  OBVIOUS
<1>1. DOMAIN built' = {} /\ built' = [s \in DOMAIN built' |-> built'[s]]
  BY DEF NoSlots
<1> QED
  BY <1>1 DEF BuiltInv

\* CurrentInv speaks of current only, once it is loaded.
LEMMA CurrentKept ==
  CurrentInv /\ current' = current /\ (phase' \in {"dump", "loadFailed"} => phase \in {"dump", "loadFailed"})
    => CurrentInv'
BY DEF CurrentInv, OneOfAName, OfKind

\* FileInv stays while nothing is written or edited.
LEMMA FileKept ==
  FileInv /\ UNCHANGED <<file, current, withID, edited, edits>> /\ (phase \in Early <=> phase' \in Early)
    => FileInv'
BY DEF FileInv, Early, SlotOK, RefOK, Slots

\* Before anything is built.
LEMMA EarlyPhase ==
  ASSUME phase' \in Phases \ {"rejected", "built"}, withID' \in BOOLEAN, edits' \in 0..MaxEdits,
         built' = NoSlots, target' = {}
  PROVE  PhaseInv'
BY DEF PhaseInv, RejectedForCause

\* The steps that change no variable of the way to the target.
LEMMA DumpKeeps == RoundTripInv /\ UNCHANGED fileVars => RoundTripInv'
<1> SUFFICES ASSUME RoundTripInv, UNCHANGED fileVars PROVE RoundTripInv'
  OBVIOUS
<1>1. CurrentInv' /\ FileInv' /\ BuiltInv'
  BY CurrentKept, FileKept, BuiltKept DEF RoundTripInv, fileVars
<1>2. phase = "rejected" => Cause
  BY DEF RoundTripInv, PhaseInv, RejectedForCause, Cause
<1>3. phase = "rejected" => Cause'
  BY <1>2, CauseKept DEF fileVars
<1>4. RejectedForCause'
  BY <1>3 DEF RejectedForCause, Cause, fileVars
<1>5. PhaseInv'
  BY <1>4 DEF RoundTripInv, PhaseInv, fileVars, Slots, Rejected, InRawState
<1> QED
  BY <1>1, <1>5 DEF RoundTripInv

\* Load.
LEMMA LoadKeeps == IInv /\ EverInv /\ PluginsInv /\ RoundTripInv /\ Load => RoundTripInv'
<1> SUFFICES ASSUME IInv, EverInv, PluginsInv, RoundTripInv, Load PROVE RoundTripInv'
  OBVIOUS
<1>1. /\ phase = "dump" /\ phase' \in {"loadFailed", "write"}
      /\ UNCHANGED <<withID, file, edited, edits, built, target>>
  BY DEF Load
<1>2. CurrentInv'
  BY LoadGivesCurrent DEF RoundTripInv
<1>3. file' = NoSlots /\ edited' = {} /\ Slots' = {}
  BY <1>1 DEF RoundTripInv, FileInv, NoSlots, Slots
<1>4. FileInv'
  <2>1. IsFiniteSet(Slots') /\ Slots' \subseteq Nat \ {NoId} /\ file' = [s \in Slots' |-> file'[s]]
    BY <1>3, FS_EmptySet DEF NoSlots
  <2> QED BY <1>1, <1>3, <2>1 DEF FileInv
<1>5. built' = NoSlots /\ BuiltInv'
  BY <1>1, NothingBuilt DEF RoundTripInv, PhaseInv
<1>6. PhaseInv'
  BY <1>1, <1>5, EarlyPhase DEF RoundTripInv, PhaseInv, Phases
<1> QED
  BY <1>2, <1>4, <1>5, <1>6 DEF RoundTripInv

\* KongStateToFile.
LEMMA WriteKeeps == RoundTripInv /\ KongStateToFile => RoundTripInv'
<1> SUFFICES ASSUME RoundTripInv, KongStateToFile PROVE RoundTripInv'
  OBVIOUS
<1>1. /\ phase = "write" /\ phase' \in {"writeFailed", "edit"} /\ withID' \in BOOLEAN
      /\ UNCHANGED <<current, edited, edits, built, target>>
  BY DEF KongStateToFile
<1>2. CurrentInv' /\ FileInv'
  BY <1>1, CurrentKept, WriteGivesFile DEF RoundTripInv
<1>3. built' = NoSlots /\ BuiltInv'
  BY <1>1, NothingBuilt DEF RoundTripInv, PhaseInv
<1>4. PhaseInv'
  BY <1>1, <1>3, EarlyPhase DEF RoundTripInv, PhaseInv, Phases
<1> QED
  BY <1>2, <1>3, <1>4 DEF RoundTripInv

\* The edits.
LEMMA EditInvKeeps ==
  ASSUME RoundTripInv, NEW s \in Slots,
         RemoveSlot(s) \/ RenameSlot(s) \/ IdentifySlot(s) \/ StripId(s) \/ GiveId(s) \/ InsertSlot(s)
  PROVE  RoundTripInv'
<1>1. PICK X, f : Edit(X, f)
  BY DEF RemoveSlot, RenameSlot, IdentifySlot, StripId, GiveId, InsertSlot
<1>2. /\ phase = "edit" /\ phase' = "edit" /\ edits > 0 /\ edits' = edits - 1
      /\ UNCHANGED <<current, withID, built, target>>
  BY <1>1 DEF Edit
<1>3. CurrentInv' /\ FileInv'
  BY <1>2, CurrentKept, RemoveKeeps, RenameKeeps, IdentifyKeeps, StripKeeps, GiveKeeps, InsertKeeps DEF RoundTripInv
<1>4. built' = NoSlots /\ BuiltInv'
  BY <1>2, NothingBuilt DEF RoundTripInv, PhaseInv
<1>5. edits' \in 0..MaxEdits
  <2>1. edits \in 0..MaxEdits /\ MaxEdits \in Nat
    BY EditAssumption DEF RoundTripInv, PhaseInv
  <2> QED BY <2>1, <1>2
<1>6. PhaseInv'
  BY <1>2, <1>4, <1>5, EarlyPhase DEF RoundTripInv, PhaseInv, Phases
<1> QED
  BY <1>3, <1>4, <1>6 DEF RoundTripInv

\* StartBuild.
LEMMA StartKeeps == RoundTripInv /\ StartBuild => RoundTripInv'
<1> SUFFICES ASSUME RoundTripInv, StartBuild PROVE RoundTripInv'
  OBVIOUS
<1>1. phase = "edit" /\ phase' = "build" /\ UNCHANGED <<current, withID, file, edited, edits, built, target>>
  BY DEF StartBuild
<1>2. CurrentInv' /\ FileInv' /\ BuiltInv'
  BY <1>1, CurrentKept, FileKept, BuiltKept DEF RoundTripInv, Early
<1>3. PhaseInv'
  BY <1>1, EarlyPhase DEF RoundTripInv, PhaseInv, Phases
<1> QED
  BY <1>2, <1>3 DEF RoundTripInv

\* Why a file is refused.
LEMMA RejectionKeeps ==
  ASSUME RoundTripInv, phase = "build", phase' = "rejected", Cause,
         UNCHANGED <<current, withID, file, edited, edits, built, target>>
  PROVE  RoundTripInv'
<1>1. CurrentInv' /\ FileInv' /\ BuiltInv'
  BY CurrentKept, FileKept, BuiltKept DEF RoundTripInv, Early
<1>2. Cause'
  BY CauseKept
<1>3. RejectedForCause'
  BY <1>2 DEF RejectedForCause, Cause
<1>4. PhaseInv'
  BY <1>3 DEF RoundTripInv, PhaseInv, Phases
<1> QED
  BY <1>1, <1>4 DEF RoundTripInv

\* BuildKind, which refuses what dangles.
LEMMA BuildKeeps == RoundTripInv /\ BuildKind => RoundTripInv'
<1> SUFFICES ASSUME RoundTripInv, BuildKind PROVE RoundTripInv'
  OBVIOUS
<1>1. /\ phase = "build" /\ Unbuilt # {}
      /\ UNCHANGED <<current, withID, file, edited, edits, target>>
  BY DEF BuildKind
<1>2. CASE \E s \in NextSlots : \E r \in file[s].refs : Dangling(built, file[s].kind, r)
  <2>1. phase' = "rejected" /\ built' = built
    BY <1>2 DEF BuildKind
  <2>2. PICK s \in NextSlots : \E r \in file[s].refs : Dangling(built, file[s].kind, r)
    BY <1>2
  <2>3. PICK r \in file[s].refs : Dangling(built, file[s].kind, r)
    BY <2>2
  <2>4. s \in Slots
    BY <1>1, NextIsAKind DEF Unbuilt, RoundTripInv
  <2>5. \A t \in Slots : file[t].kind = r.kind => t \in DOMAIN built
    BY <1>1, <2>4, BeforeNext DEF RoundTripInv
  <2>6. Cause
    BY <2>3, <2>4, <2>5, DanglingHasCause DEF RoundTripInv, Pre
  <2> QED BY <1>1, <2>1, <2>6, RejectionKeeps
<1>3. CASE ~\E s \in NextSlots : \E r \in file[s].refs : Dangling(built, file[s].kind, r)
  <2>1. phase' = phase
    BY <1>3 DEF BuildKind
  <2>2. CurrentInv' /\ FileInv' /\ BuiltInv'
    BY <1>1, <2>1, CurrentKept, FileKept, BuildKindBuilds DEF RoundTripInv, Early
  <2>3. PhaseInv'
    BY <1>1, <2>1 DEF RoundTripInv, PhaseInv, RejectedForCause
  <2> QED BY <2>2, <2>3 DEF RoundTripInv
<1> QED
  BY <1>2, <1>3

\* LoadTarget, which refuses what clashes.
LEMMA TargetKeeps == RoundTripInv /\ LoadTarget => RoundTripInv'
<1> SUFFICES ASSUME RoundTripInv, LoadTarget PROVE RoundTripInv'
  OBVIOUS
<1>1. /\ phase = "build" /\ Unbuilt = {}
      /\ UNCHANGED <<current, withID, file, edited, edits, built>>
  BY DEF LoadTarget
<1>2. DOMAIN built = Slots
  BY <1>1 DEF RoundTripInv, BuiltInv, Unbuilt
<1>3. CASE Rejected
  <2>1. Cause
    BY <1>2, <1>3, RejectedHasCause DEF RoundTripInv, Pre
  <2>2. phase' = "rejected" /\ target' = target
    BY <1>3 DEF LoadTarget
  <2> QED BY <1>1, <2>1, <2>2, RejectionKeeps
<1>4. CASE ~Rejected
  <2>1. phase' = "built" /\ target' = LoadedFrom({built[s] : s \in {t \in Slots : InRawState(t)}})
    BY <1>4 DEF LoadTarget
  <2>2. CurrentInv' /\ FileInv' /\ BuiltInv'
    BY <1>1, <2>1, CurrentKept, FileKept, BuiltKept DEF RoundTripInv, Early
  <2>3. Slots' = Slots /\ \A t \in Slots : InRawState(t)' = InRawState(t)
    BY <1>1 DEF Slots, InRawState
  <2>4. ~Rejected'
    BY <1>1, <1>4, <2>3 DEF Rejected
  <2>5. target' = LoadedFrom({built[s] : s \in {t \in Slots : InRawState(t)}})'
    BY <1>1, <2>1, <2>3
  <2>6. PhaseInv'
    BY <1>1, <1>2, <2>1, <2>3, <2>4, <2>5 DEF RoundTripInv, PhaseInv, RejectedForCause, Phases
  <2> QED BY <2>2, <2>6 DEF RoundTripInv
<1> QED
  BY <1>3, <1>4

-----------------------------------------------------------------------------
(* The inductive invariant.                                               *)

\* Nothing that is done with the raw state disturbs the dump.
LEMMA StepDumps == [Next]_vars => [DumpNext]_dumpVars
<1> SUFFICES ASSUME [Next]_vars PROVE DumpNext \/ UNCHANGED dumpVars
  OBVIOUS
<1>1. CASE Dump
  BY <1>1 DEF Dump
<1>2. ASSUME NEW s, RemoveSlot(s) \/ RenameSlot(s) \/ IdentifySlot(s) \/ StripId(s) \/ GiveId(s) \/ InsertSlot(s)
      PROVE  UNCHANGED dumpVars
  BY <1>2 DEF RemoveSlot, RenameSlot, IdentifySlot, StripId, GiveId, InsertSlot, Edit
<1>3. CASE Load \/ KongStateToFile \/ StartBuild \/ BuildKind \/ LoadTarget \/ Done
  BY <1>3 DEF Load, KongStateToFile, StartBuild, BuildKind, LoadTarget, Done, vars
<1> QED
  BY <1>1, <1>2, <1>3 DEF Next, vars

FullInv == IInv /\ EverInv /\ PluginsInv /\ RoundTripInv

\* It is true at the start.
LEMMA InitFull == Init => FullInv
<1> SUFFICES ASSUME Init PROVE FullInv
  OBVIOUS
<1>1. IInv /\ PluginsInv
  BY InitIInv, PluginsInit DEF Init
<1>2. EverInv
  BY DEF Init, DumpInit, EverInv, world
<1>3. CurrentInv
  BY FS_EmptySet DEF Init, CurrentInv, OneOfAName, OfKind
<1>4. Slots = {} /\ file = NoSlots /\ edited = {} /\ phase = "dump" /\ NoSlots = [s \in {} |-> NoSlots[s]]
  BY DEF Init, NoSlots, Slots
<1>5. FileInv
  BY <1>4, FS_EmptySet DEF FileInv
<1>6. BuiltInv
  <2>1. built = NoSlots /\ DOMAIN NoSlots = {}
    BY DEF Init, NoSlots
  <2> QED BY <2>1, <1>4 DEF BuiltInv
<1>7. PhaseInv
  <2>1. MaxEdits \in 0..MaxEdits
    BY EditAssumption
  <2> QED BY <2>1 DEF Init, PhaseInv, Phases, RejectedForCause
<1> QED
  BY <1>1, <1>2, <1>3, <1>5, <1>6, <1>7 DEF FullInv, RoundTripInv

\* Every step keeps it.
LEMMA FullStep == FullInv /\ [Next]_vars => FullInv'
<1> SUFFICES ASSUME FullInv, [Next]_vars PROVE FullInv'
  OBVIOUS
<1>1. IInv' /\ EverInv' /\ PluginsInv'
  BY StepDumps, IInvStep, EverSteps, PluginsStep DEF FullInv, IInv
<1>2. (Dump \/ Done \/ UNCHANGED vars) => RoundTripInv'
  BY DumpKeeps DEF FullInv, Dump, Done, vars
<1>3. Load => RoundTripInv'
  BY LoadKeeps DEF FullInv
<1>4. KongStateToFile => RoundTripInv'
  BY WriteKeeps DEF FullInv
<1>5. ASSUME NEW s \in Slots, RemoveSlot(s) \/ RenameSlot(s) \/ IdentifySlot(s) \/ StripId(s) \/ GiveId(s) \/ InsertSlot(s)
      PROVE  RoundTripInv'
  BY <1>5, EditInvKeeps DEF FullInv
<1>6. StartBuild => RoundTripInv'
  BY StartKeeps DEF FullInv
<1>7. BuildKind => RoundTripInv'
  BY BuildKeeps DEF FullInv
<1>8. LoadTarget => RoundTripInv'
  BY TargetKeeps DEF FullInv
<1>9. RoundTripInv'
  BY <1>2, <1>3, <1>4, <1>5, <1>6, <1>7, <1>8 DEF Next, FullInv
<1> QED
  BY <1>1, <1>9 DEF FullInv

\* What is true of the file and of what is built stays true.
THEOREM RoundTripInvariance == Spec => []FullInv
BY InitFull, FullStep, PTL DEF Spec

-----------------------------------------------------------------------------
(* What follows from it.                                                  *)

\* What is built has a kind and an id.
LEMMA BuiltIds == ASSUME Pre, NEW s \in DOMAIN built PROVE built[s].kind \in Kinds /\ built[s].id \in Nat \ {NoId}
<1>1. s \in Slots /\ SlotOK(file[s]) /\ BuiltOK(s) /\ s \in Nat
  BY BuiltShape DEF Pre, FileInv, BuiltInv
<1>2. CASE file[s].id # NoId
  <2>1. file[s].kind \in Kinds /\ file[s].id \in 0..1000 /\ built[s].id = file[s].id /\ built[s].kind = file[s].kind
    BY <1>1, <1>2 DEF SlotOK, BuiltOK
  <2>2. \A i \in 0..1000 : i # NoId => i \in Nat \ {NoId}
    OBVIOUS
  <2> QED BY <1>2, <2>1, <2>2, ZenonT(60)
<1>3. CASE built[s].id = FreshId(s)
  BY <1>1, <1>3 DEF FreshId, NoId, SlotOK, BuiltOK
<1>4. CASE \E c \in current : LooksUp(s, c)
  <2>1. PICK c \in current : LooksUp(s, c)
    BY <1>4
  <2>2. c.id \in 1..999 /\ built[s].id = c.id
    BY <2>1 DEF LooksUp, Pre, CurrentInv, InModel
  <2>3. \A i \in 1..999 : i \in Nat \ {NoId}
    BY DEF NoId
  <2>4. c.id \in Nat \ {NoId}
    BY <2>2, <2>3
  <2> QED BY <1>1, <2>2, <2>4 DEF SlotOK, BuiltOK
<1> QED
  BY <1>1, <1>2, <1>3, <1>4 DEF BuiltOK

\* The types follow from it.
LEMMA TypesFollow == FullInv => TypeOK
<1> SUFFICES ASSUME FullInv PROVE TypeOK
  OBVIOUS
<1>1. Pre
  BY DEF FullInv, RoundTripInv, Pre
<1>2. DumpTypeOK /\ phase \in Phases /\ withID \in BOOLEAN /\ edits \in 0..MaxEdits
  BY DEF FullInv, IInv, RoundTripInv, PhaseInv
<1>3. \A e \in current : e.kind \in Kinds /\ e.id \in Nat \ {NoId}
  <2>1. \A e \in current : e.kind \in Kinds /\ e.id \in 1..999
    BY <1>1 DEF Pre, CurrentInv, InModel
  <2> QED BY <2>1, SMTT(20) DEF NoId
<1>4. \A e \in target : \E s \in DOMAIN built : e = built[s]
  BY DEF FullInv, RoundTripInv, PhaseInv, LoadedFrom
<1>5. \A e \in target : e.kind \in Kinds /\ e.id \in Nat \ {NoId}
  BY <1>1, <1>4, BuiltIds
<1>6. DOMAIN built \subseteq Slots /\ \A s \in DOMAIN built : built[s].kind = file[s].kind /\ built[s].name = file[s].name
  BY <1>1, BuiltShape DEF Pre, BuiltInv, BuiltOK
<1> QED
  BY <1>2, <1>3, <1>5, <1>6 DEF TypeOK

\* A refusal has a cause.
LEMMA CauseFollows == FullInv => RejectedForCause
BY DEF FullInv, RoundTripInv, PhaseInv

\* A slot of the same id that is in the raw state.
LEMMA FirstIsInRawState ==
  ASSUME Pre, NEW s \in DOMAIN built
  PROVE  \E t \in DOMAIN built : InRawState(t) /\ built[t].kind = built[s].kind /\ built[t].id = built[s].id
<1> DEFINE X == ById(built, built[s].kind, built[s].id)
<1>1. X \in SUBSET Slots /\ s \in X
  BY DEF ById, Pre, BuiltInv
<1>2. PICK t \in X : t = FirstOf(X)
  BY <1>1, FirstIsLeast DEF Pre
<1>3. t \in DOMAIN built /\ built[t].kind = built[s].kind /\ built[t].id = built[s].id
  BY <1>2 DEF ById
<1>4. FirstOfItsId(built, t)
  BY <1>2, <1>3 DEF FirstOfItsId
<1> QED
  BY <1>3, <1>4 DEF InRawState

\* Everything in the raw state is in the target, and its references too.
LEMMA TargetFollows == FullInv => TargetFollowsFile
<1> SUFFICES ASSUME FullInv, phase = "built", NEW s \in Slots
             PROVE  /\ built[s] \in target \/ (file[s].kind = "consumer" /\ ~InRawState(s))
                    /\ \A r \in file[s].refs : r.by # "id" =>
                         \E p \in target : p.kind = r.kind /\ [kind |-> p.kind, id |-> p.id] \in built[s].refs
  BY DEF TargetFollowsFile
<1> DEFINE Raw == {built[t] : t \in {u \in Slots : InRawState(u)}}
<1>1. Pre
  BY DEF FullInv, RoundTripInv, Pre
<1>2. DOMAIN built = Slots /\ target = LoadedFrom(Raw)
  BY DEF FullInv, RoundTripInv, PhaseInv
<1>3. ASSUME NEW t \in Slots, NEW r \in file[t].refs, r.by # "id"
      PROVE  \E p \in Raw : p.kind = r.kind /\ p.id = ResolvedId(built, r)
  <2>1. PICK u \in LeadsTo(r) \cap DOMAIN built : built[u].id = ResolvedId(built, r)
    BY <1>1, <1>2, <1>3, ReferenceLeads
  <2>2. built[u].kind = r.kind
    BY <1>1, <2>1, BuiltShape DEF LeadsTo, BuiltOK
  <2>3. PICK v \in DOMAIN built : InRawState(v) /\ built[v].kind = built[u].kind /\ built[v].id = built[u].id
    BY <1>1, <2>1, FirstIsInRawState
  <2> QED BY <1>2, <2>1, <2>2, <2>3
<1>4. ASSUME NEW t \in Slots, InRawState(t) PROVE built[t] \in target
  <2>1. SlotOK(file[t]) /\ BuiltOK(t)
    BY <1>1, <1>2, BuiltShape DEF Pre, FileInv
  <2>2. ASSUME built[t].kind \in Credentials, NEW q \in built[t].refs PROVE HasParent(Raw, q)
    <3>1. PICK r \in file[t].refs : q = [kind |-> r.kind, id |-> ResolvedId(built, r)]
      BY <2>1 DEF BuiltOK, BuiltRefs
    <3>2. r.by = "slot"
      BY <2>1, <2>2 DEF SlotOK, RefOK, BuiltOK
    <3>3. \E p \in Raw : p.id = q.id
      BY <3>1, <3>2, <1>3
    <3> QED BY <3>3 DEF HasParent
  <2>3. built[t] \in Raw
    BY <1>4
  <2> HIDE DEF Raw
  <2> QED BY <1>2, <2>2, <2>3 DEF LoadedFrom
<1>5. built[s] \in target \/ (file[s].kind = "consumer" /\ ~InRawState(s))
  <2>1. built[s].kind = file[s].kind
    BY <1>1, <1>2, BuiltShape DEF BuiltOK
  <2> QED BY <2>1, <1>4 DEF InRawState
<1>6. ASSUME NEW r \in file[s].refs, r.by # "id"
      PROVE  \E p \in target : p.kind = r.kind /\ [kind |-> p.kind, id |-> p.id] \in built[s].refs
  <2>1. PICK p \in Raw : p.kind = r.kind /\ p.id = ResolvedId(built, r)
    BY <1>3, <1>6
  <2>2. p \in target
    BY <1>4, <2>1
  <2>3. [kind |-> p.kind, id |-> p.id] \in built[s].refs
    BY <2>1, <1>1, <1>2, BuiltShape DEF BuiltOK, BuiltRefs
  <2> QED BY <2>1, <2>2, <2>3
<1> QED
  BY <1>5, <1>6

\* The types of the dump, the file and the target.
THEOREM RoundTripTypes == Spec => []TypeOK
BY RoundTripInvariance, TypesFollow, PTL

\* A file that is refused had it coming.
THEOREM RefusedForCause == Spec => []RejectedForCause
BY RoundTripInvariance, CauseFollows, PTL

\* Nothing of an accepted file is lost.
THEOREM FileIsFollowed == Spec => []TargetFollowsFile
BY RoundTripInvariance, TargetFollows, PTL

-----------------------------------------------------------------------------
(* What was not edited.                                                   *)

\* The current entity that a lookup finds is the only one.
LEMMA LookupIsUnique ==
  ASSUME CurrentInv, NEW e \in current, NEW d \in current, d.kind = e.kind,
         lookupOf[e.kind] # "none", formatOf[e.kind].id # "always",
         e.name # NoName \/ lookupOf[e.kind] = "refs",
         lookupOf[e.kind] \in {"name", "prop"} => d.name = e.name,
         lookupOf[e.kind] \in {"refs", "prop"} => d.refs = e.refs
  PROVE  d = e
<1> DEFINE k == e.kind
           second == collectionOf[k].second
<1>1. k \in Kinds
  BY DEF CurrentInv, InModel
<1>2. /\ lookupOf[k] \in {"name", "prop", "refs"} /\ second \in {"id", "name", "prop", "refs", "child"}
      /\ lookupOf[k] = "refs" <=> second = "refs"
      /\ second = "prop" => lookupOf[k] = "prop"
      /\ lookupOf[k] = "prop" => second = "prop" \/ k \in {"consumer-group-plugin", "rbac-endpoint-permission"}
      /\ second = "child" => k = "consumer-group-plugin"
      /\ second = "id" => k \in {"certificate", "mtls-auth", "license", "degraphql_routes",
                                 "graphql_ratelimiting_cost_decorations"}
  BY <1>1, Lookups, CollectionSeconds
<1>3. second # "id"
  BY <1>1, <1>2, Formats, Lookups
<1>4. CASE second = "child"
  <2>1. k = "consumer-group-plugin" /\ lookupOf[k] = "prop"
    BY <1>1, <1>2, <1>4, Lookups
  <2> QED BY <2>1 DEF CurrentInv, OneOfAName, OfKind
<1>5. CASE second # "child"
  <2>1. KeyOf(second, d) = KeyOf(second, e)
    BY <1>2, <1>3, <1>5 DEF KeyOf
  <2>2. second = "name" => e.name # NoName
    BY <1>2
  <2>3. KeyOf(collectionOf[e.kind].second, e) = KeyOf(collectionOf[e.kind].second, d)
    BY <2>1
  <2>4. collectionOf[e.kind].second = "name" => e.name # NoName
    BY <2>2
  <2>5. Clash(e, d)
    BY <2>3, <2>4 DEF Clash
  <2> QED BY <2>5 DEF CurrentInv
<1> QED
  BY <1>4, <1>5

\* What a lookup may find is found, or another that fits as well.
LEMMA BuiltLookup ==
  ASSUME Pre, NEW s \in DOMAIN built, file[s].id = NoId, NEW c \in current, ByKey(s, c)
  PROVE  \E d \in current : d.id = built[s].id /\ ByKey(s, d)
<1> DEFINE f == file[s]
           e == [kind |-> f.kind, id |-> f.id, name |-> f.name, custom |-> f.custom, refs |-> BuiltRefs(s)]
           found == Found(current, e)
<1>1. SlotOK(f) /\ BuiltOK(s)
  BY BuiltShape DEF Pre, FileInv, BuiltInv
<1>2. built[s] = [e EXCEPT !.id = IF found = {} THEN FreshId(s) ELSE (CHOOSE x \in found : TRUE).id]
  BY DEF Pre, BuiltInv, Built, BuiltRefs
<1>3. /\ lookupOf[f.kind] \in {"name", "prop", "refs"} /\ c.kind = f.kind
      /\ f.kind = "consumer" => lookupOf[f.kind] = "name"
  BY <1>1, Lookups, ConsumersByName DEF SlotOK, ByKey
<1>4. KeyOf(lookupOf[f.kind], c) = KeyOf(lookupOf[f.kind], e)
  BY <1>1, <1>3 DEF KeyOf, BuiltOK, ByKey
<1>5. c \in Keyed(current, e)
  <2>1. e.kind = f.kind /\ e.name = f.name
    OBVIOUS
  <2> HIDE DEF e
  <2> QED BY <1>3, <1>4, <2>1 DEF Keyed, OfKind, ByKey
<1>6. found = Keyed(current, e)
  BY <1>5 DEF Found
<1>7. PICK d : d \in found /\ d = (CHOOSE x \in found : TRUE)
  BY <1>5, <1>6
<1>8. built[s].id = d.id
  <2>1. built[s] = [e EXCEPT !.id = d.id]
    BY <1>2, <1>7
  <2> HIDE DEF found
  <2> QED BY <2>1
<1>9. /\ d \in current /\ d.kind = f.kind /\ KeyOf(lookupOf[f.kind], d) = KeyOf(lookupOf[f.kind], e)
      /\ f.kind = "consumer" => f.name # NoName
  <2>1. e.kind = f.kind /\ e.name = f.name
    OBVIOUS
  <2> HIDE DEF e
  <2> QED BY <1>6, <1>7, <2>1 DEF Keyed, OfKind
<1>10. /\ lookupOf[f.kind] \in {"name", "prop"} => d.name = f.name
       /\ lookupOf[f.kind] \in {"refs", "prop"} => d.refs = BuiltRefs(s)
  BY <1>3, <1>9 DEF KeyOf
<1> QED
  BY <1>1, <1>3, <1>8, <1>9, <1>10 DEF ByKey, BuiltOK

\* The line of an entity that was not edited.
LEMMA UneditedLine ==
  ASSUME CurrentInv, FileInv, phase \notin Early, NEW e \in current, e.id \in Slots \ edited
  PROVE  /\ ~WriterFails(current) /\ e \in Kept(current) /\ file[e.id] = Line(current, withID, e)
         /\ file[e.id].kind = e.kind /\ file[e.id].name = e.name /\ file[e.id].id = WrittenId(e, withID)
<1>1. ~WriterFails(current) /\ e.id \in DOMAIN Written(current, withID)
      /\ file[e.id] = Written(current, withID)[e.id]
  BY DEF FileInv, Early
<1>2. e.id \in {x.id : x \in Kept(current)} /\ Kept(current) \subseteq current
  BY <1>1, WrittenLines
<1>3. e \in Kept(current)
  BY <1>2 DEF CurrentInv
<1>4. file[e.id] = Line(current, withID, e)
  BY <1>1, <1>3, WrittenLines
<1> QED
  BY <1>1, <1>3, <1>4 DEF Line

\* An entity that what refers to it by name finds.
Ready(p) ==
  /\ p.id \in DOMAIN built /\ built[p.id] = p /\ InRawState(p.id)
  /\ collectionOf[p.kind].second = "name" /\ p.name # NoName =>
       \A x \in DOMAIN built :
         built[x].kind = p.kind /\ built[x].name = p.name /\ InRawState(x) => built[x].id = p.id

\* By a name goes only what has one of its own.
LEMMA NamedRefs ==
  ASSUME NEW e, InModel(e), NEW r \in e.refs, ~NestedIn(e, r)
  PROVE  collectionOf[r.kind].second = "name"
<1>1. e.kind \in Kinds /\ r.kind \in FileRefs(e.kind)
  BY DEF InModel
<1>2. r.kind \notin {"service-version", "certificate"} => collectionOf[r.kind].second = "name"
  BY <1>1, NamedParents
<1>3. e.kind # "plugin" => ~Nests(e.kind, r.kind)
  <2>1. formatOf[e.kind].kind = e.kind /\ FormatRow(formatOf[e.kind])
    BY <1>1, RowsOf, FormatRows
  <2>2. e.kind # "plugin" => "alone" \notin formatOf[e.kind].within
    BY <2>1 DEF FormatRow
  <2> QED BY <2>2 DEF NestedIn, Nests
<1>4. ~Nests(e.kind, r.kind) => r.kind \in {"service", "consumer-group", "key-set"} \/ e.kind = "plugin"
  BY <1>1, NamedParents
<1>5. e.kind = "plugin" => r.kind \notin {"service-version", "certificate"}
  BY <1>1, RowsOf, DifferRows DEF FileRefs, DifferRow
<1> QED
  BY <1>2, <1>3, <1>4, <1>5

\* The references of an entity that was not edited are built as they were.
LEMMA UneditedRefs ==
  ASSUME Pre, phase \notin Early, NEW e \in current, e.id \in DOMAIN built \ edited,
         \A p \in Parents(e) : Ready(p), NEW r \in e.refs,
         NEW q, q = WrittenRef(current, e, r, withID)
  PROVE  q.kind = r.kind /\ ResolvedId(built, q) = r.id
<1>1. /\ e.id \in Slots \ edited /\ e.id \in Slots /\ InModel(e)
      /\ ~WriterFails(current) /\ e \in Kept(current) /\ file[e.id] = Line(current, withID, e)
  BY UneditedLine DEF Pre, BuiltInv, CurrentInv
<1>2. /\ q.kind = r.kind
      /\ NestedIn(e, r) => q.by = "slot" /\ q.key = r.id
      /\ ~NestedIn(e, r) =>
           \/ q.by = "id" /\ q.key = r.id
           \/ /\ HasParent(current, r) /\ Parent(current, r).name # NoName
              /\ \/ q.by = "name" /\ q.key = Parent(current, r).name
                 \/ /\ q.by = "either" /\ e.kind = "consumer-group-consumer"
                    /\ q.key = r.id /\ q.alt = Parent(current, r).name
  BY <1>1, WrittenRefs DEF Pre
<1>3. ASSUME NEW p \in current, p.id = r.id
      PROVE  Ready(p) /\ p.kind = r.kind /\ Parent(current, r) = p
  <2>1. p \in Parents(e)
    BY <1>3 DEF Parents
  <2> QED BY <2>1, <1>3, TheParent DEF Pre, CurrentInv
<1>4. CASE NestedIn(e, r)
  <2>1. PICK p \in current : p.id = r.id
    BY <1>1, <1>4, ParentKept DEF Pre, Kept
  <2>2. built[r.id] = p
    BY <1>3, <2>1 DEF Ready
  <2> QED BY <1>2, <1>4, <2>1, <2>2 DEF ResolvedId
<1>5. CASE q.by = "id"
  BY <1>2, <1>4, <1>5 DEF ResolvedId
<1>6. CASE ~NestedIn(e, r) /\ q.by # "id"
  <2>1. PICK p \in current : p.id = r.id
    BY <1>2, <1>6 DEF HasParent
  <2>2. Ready(p) /\ p.kind = r.kind /\ Parent(current, r) = p /\ p.name # NoName
    BY <1>2, <1>3, <1>6, <2>1
  <2>3. collectionOf[p.kind].second = "name"
    BY <1>1, <1>6, <2>2, NamedRefs
  <2>4. \A x \in DOMAIN built :
          built[x].kind = p.kind /\ built[x].name = p.name /\ InRawState(x) => built[x].id = p.id
    BY <2>2, <2>3 DEF Ready
  <2>5. ByName(built, r.kind, p.name) \subseteq DOMAIN built /\ ById(built, r.kind, r.id) \subseteq DOMAIN built
    BY DEF ByName, ById
  <2>6. \A x \in ByName(built, r.kind, p.name) \cup ById(built, r.kind, r.id) : built[x].id = r.id
    BY <2>1, <2>2, <2>4 DEF ByName, ById, InRawState
  <2>7. p.id \in ByName(built, r.kind, p.name)
    BY <2>2 DEF Ready, ByName, InRawState
  <2>8. ASSUME NEW X, X \subseteq ByName(built, r.kind, p.name) \cup ById(built, r.kind, r.id), X # {}
        PROVE  built[FirstOf(X)].id = r.id
    <3>1. X \in SUBSET Slots
      BY <2>5, <2>8 DEF Pre, BuiltInv
    <3>2. FirstOf(X) \in X
      BY <2>8, <3>1, FirstIsLeast DEF Pre
    <3> QED BY <2>6, <2>8, <3>2
  <2>9. CASE q.by = "name"
    <3>1. q.key = p.name
      BY <1>2, <1>6, <2>2, <2>9
    <3>2. built[FirstOf(ByName(built, r.kind, p.name))].id = r.id
      BY <2>7, <2>8
    <3> QED BY <1>2, <2>9, <3>1, <3>2 DEF ResolvedId
  <2>10. CASE q.by = "either"
    <3>1. q.key = r.id /\ q.alt = p.name
      BY <1>2, <1>6, <2>2, <2>10
    <3>2. built[FirstOf(ById(built, r.kind, r.id) \cup ByName(built, r.kind, p.name))].id = r.id
      <4> DEFINE X == ById(built, r.kind, r.id) \cup ByName(built, r.kind, p.name)
      <4>1. X # {} /\ X \subseteq ByName(built, r.kind, p.name) \cup ById(built, r.kind, r.id)
        BY <2>7
      <4> HIDE DEF X
      <4>2. built[FirstOf(X)].id = r.id
        BY <4>1, <2>8
      <4> QED BY <4>2 DEF X
    <3> QED BY <1>2, <2>10, <3>1, <3>2 DEF ResolvedId
  <2> QED BY <1>2, <1>6, <2>9, <2>10
<1> QED
  BY <1>2, <1>4, <1>5, <1>6

\* An entity that was not edited, nor what it refers to, is itself.
LEMMA UneditedIsBuilt ==
  ASSUME Pre, phase \notin Early, NEW e \in current, e.id \in DOMAIN built \ edited,
         \A p \in Parents(e) : Ready(p)
  PROVE  built[e.id] = Renewed(e)
<1> DEFINE s == e.id
<1>1. /\ s \in Slots \ edited /\ s \in Slots /\ InModel(e) /\ e = Entity(e)
      /\ file[s] = Line(current, withID, e)
      /\ file[s].kind = e.kind /\ file[s].name = e.name /\ file[s].id = WrittenId(e, withID)
  BY UneditedLine DEF Pre, BuiltInv, CurrentInv
<1>2. BuiltOK(s) /\ SlotOK(file[s])
  BY <1>1, BuiltShape DEF Pre, FileInv
<1>3. file[s].refs = {WrittenRef(current, e, r, withID) : r \in e.refs}
  BY <1>1 DEF Line
<1>4. BuiltRefs(s) = e.refs
  <2>1. BuiltRefs(s) = {[kind |-> q.kind, id |-> ResolvedId(built, q)] : q \in file[s].refs}
    BY DEF BuiltRefs
  <2>2. \A r \in e.refs : LET q == WrittenRef(current, e, r, withID) IN
          q.kind = r.kind /\ ResolvedId(built, q) = r.id
    BY UneditedRefs
  <2>3. \A r \in e.refs : r = [kind |-> r.kind, id |-> r.id]
    BY <1>1 DEF InModel
  <2> QED BY <1>3, <2>1, <2>2, <2>3
<1>5. /\ built[s] = [kind |-> e.kind, id |-> built[s].id, name |-> e.name, custom |-> e.custom, refs |-> e.refs]
      /\ e = [kind |-> e.kind, id |-> e.id, name |-> e.name, custom |-> e.custom, refs |-> e.refs]
  <2>1. e = [kind |-> e.kind, id |-> e.id, name |-> e.name, custom |-> e.custom, refs |-> e.refs]
    BY <1>1 DEF Entity
  <2>2. file[s].custom = e.custom
    BY <1>1 DEF Line
  <2>3. /\ built[s].kind = e.kind /\ built[s].name = e.name /\ built[s].custom = e.custom
        /\ built[s].refs = e.refs
    BY <1>1, <1>2, <1>4, <2>2 DEF BuiltOK
  <2>4. built[s] = [kind |-> built[s].kind, id |-> built[s].id, name |-> built[s].name,
                    custom |-> built[s].custom, refs |-> built[s].refs]
    BY <1>2 DEF BuiltOK
  <2> QED BY <2>1, <2>3, <2>4
<1>6. WrittenId(e, withID) \in {e.id, NoId}
  BY DEF WrittenId
<1>7. CASE WrittenId(e, withID) # NoId
  <2>1. built[s].id = e.id
    BY <1>1, <1>2, <1>6, <1>7 DEF BuiltOK
  <2>2. Renewed(e) = e
    BY <1>7 DEF Renewed
  <2> QED BY <1>5, <2>1, <2>2
<1>8. CASE WrittenId(e, withID) = NoId /\ lookupOf[e.kind] = "none"
  <2>1. built[s].id = FreshId(s)
    <3>1. e.kind # "consumer"
      BY <1>8, ConsumersByName
    <3>2. ASSUME NEW c \in current, LooksUp(s, c) PROVE FALSE
      BY <1>1, <1>2, <1>8, <3>1, <3>2 DEF LooksUp, ByKey, IdentifiedBy, SlotOK
    <3> QED BY <1>1, <1>2, <1>8, <3>2 DEF BuiltOK
  <2>2. Renewed(e) = [e EXCEPT !.id = FreshId(s)]
    BY <1>8 DEF Renewed
  <2>3. [e EXCEPT !.id = FreshId(s)] = [kind |-> e.kind, id |-> FreshId(s), name |-> e.name, custom |-> e.custom, refs |-> e.refs]
    BY <1>5
  <2> QED BY <1>5, <2>1, <2>2, <2>3
<1>9. CASE WrittenId(e, withID) = NoId /\ lookupOf[e.kind] # "none"
  <2>1. built[s].refs = e.refs
    BY <1>2, <1>4 DEF BuiltOK
  <2>3. e.id # NoId
    BY <1>1, SMTT(20) DEF InModel, NoId
  <2>4. formatOf[e.kind].id # "always" /\ (formatOf[e.kind].id = "never" \/ e.name # NoName)
    BY <1>1, <1>9, <2>3, Formats DEF WrittenId, InModel
  <2>5. e.name # NoName \/ lookupOf[e.kind] = "refs"
    BY <1>1, <2>4 DEF InModel
  <2>51. e.kind = "consumer" => e.name # NoName
    BY <2>5, ConsumersByName
  <2>52. ByKey(s, e)
    BY <1>1, <1>9, <2>1, <2>51 DEF ByKey
  <2>2. PICK d \in current : d.id = built[s].id /\ ByKey(s, d)
    BY <1>1, <1>9, <2>52, BuiltLookup
  <2>6. d.kind = e.kind /\ d.id = built[s].id
    BY <1>1, <2>2 DEF ByKey
  <2>7. /\ lookupOf[e.kind] \in {"name", "prop"} => d.name = e.name
        /\ lookupOf[e.kind] \in {"refs", "prop"} => d.refs = e.refs
    BY <1>1, <2>1, <2>2, <2>6 DEF ByKey
  <2>8. d = e
    BY <1>9, <2>4, <2>5, <2>6, <2>7, LookupIsUnique DEF Pre
  <2>9. Renewed(e) = e
    BY <1>9 DEF Renewed
  <2> QED BY <1>5, <2>6, <2>8, <2>9
<1> QED
  BY <1>7, <1>8, <1>9

\* What is referred to has its id looked up.
LEMMA ParentOf ==
  ASSUME CurrentInv, NEW e \in current, NEW p \in Parents(e)
  PROVE  /\ p \in current /\ e.kind \in Kinds /\ p.kind \in Kinds
         /\ p.kind \in FileRefs(e.kind) /\ p.kind \in Parent10
         /\ lookupOf[p.kind] # "none"
<1>1. PICK r \in e.refs : r.id = p.id
  BY DEF Parents
<1>2. p \in current /\ InModel(e) /\ InModel(p) /\ r.kind = p.kind
  BY <1>1 DEF Parents, CurrentInv
<1>3. e.kind \in Kinds /\ p.kind \in Kinds /\ p.kind \in FileRefs(e.kind)
  BY <1>2 DEF InModel
<1>4. p.kind \in Parent10
  BY <1>3, ParentKinds
<1>5. p.kind \notin {"mtls-auth", "license"}
  BY <1>4 DEF Parent10
<1> QED
  BY <1>2, <1>3, <1>4, <1>5, Lookups

\* What an entity refers to refers to at most one more, which refers to none.
LEMMA NoMoreParents ==
  ASSUME CurrentInv, NEW e \in current, NEW p \in Parents(e), NEW q \in Parents(p)
  PROVE  Parents(q) = {}
<1>1. p \in current /\ q \in current /\ p.kind \in Kinds /\ p.kind \in Parent10 /\ q.kind \in FileRefs(p.kind)
  BY ParentOf
<1>2. q.kind \in {"service", "service-package"}
  BY <1>1, NestedKinds
<1>3. ASSUME NEW x \in Parents(q) PROVE FALSE
  <2>1. q.kind \in Kinds /\ x.kind \in FileRefs(q.kind)
    BY <1>1, <1>3, ParentOf
  <2> QED BY <1>2, <2>1, ParentKinds
<1> QED
  BY <1>3

\* In an accepted file nothing else has the name of what is referred to.
LEMMA ParentIsReady ==
  ASSUME FullInv, phase = "built", NEW p \in current, p.id \in Slots \ edited, InRawState(p.id),
         lookupOf[p.kind] # "none", \A q \in Parents(p) : Ready(q)
  PROVE  Ready(p)
<1>1. Pre /\ DOMAIN built = Slots /\ ~Rejected /\ phase \notin Early
  BY DEF FullInv, RoundTripInv, Pre, PhaseInv, Early
<1>2. built[p.id] = Renewed(p)
  BY <1>1, UneditedIsBuilt
<1>3. built[p.id] = p
  BY <1>2 DEF Renewed
<1>4. ASSUME collectionOf[p.kind].second = "name", p.name # NoName, NEW x \in DOMAIN built,
             built[x].kind = p.kind, built[x].name = p.name, InRawState(x)
      PROVE  x = p.id
  <2>1. KeyOf("name", p) = KeyOf("name", built[x])
    BY <1>4 DEF KeyOf
  <2>2. Clash(built[p.id], built[x])
    BY <1>3, <1>4, <2>1 DEF Clash
  <2> QED BY <1>1, <1>4, <2>2 DEF Rejected
<1> QED
  BY <1>1, <1>3, <1>4 DEF Ready

\* From the grandparents down, what was not edited is built as it was.
LEMMA EditsFollow == FullInv => EditsAreLocal
<1> SUFFICES ASSUME FullInv, phase = "built", NEW e \in current,
                    \A p \in {e} \cup Ancestors(e) : p.id \in Slots \ edited /\ InRawState(p.id)
             PROVE  Renewed(e) \in target
  BY DEF EditsAreLocal
<1>1. Pre /\ CurrentInv /\ DOMAIN built = Slots /\ phase \notin Early
  BY DEF FullInv, RoundTripInv, Pre, PhaseInv, Early
<1>2. ASSUME NEW p \in Parents(e), NEW q \in Parents(p) PROVE Ready(q)
  <2>1. q \in Ancestors(e) /\ Parents(q) = {}
    BY <1>1, <1>2, NoMoreParents DEF Ancestors
  <2>2. p \in current /\ q \in current
    BY <1>1, ParentOf
  <2>3. lookupOf[q.kind] # "none"
    BY <1>1, <2>2, ParentOf
  <2> QED BY <2>1, <2>2, <2>3, ParentIsReady
<1>3. ASSUME NEW p \in Parents(e) PROVE Ready(p)
  <2>1. p \in Ancestors(e) /\ p \in current /\ lookupOf[p.kind] # "none"
    BY <1>1, ParentOf DEF Ancestors
  <2> QED BY <1>2, <2>1, ParentIsReady
<1>4. built[e.id] = Renewed(e)
  BY <1>1, <1>3, UneditedIsBuilt
<1>5. file[e.id].kind = built[e.id].kind
  BY <1>1, BuiltShape DEF BuiltOK
<1>6. built[e.id] \in target \/ (file[e.id].kind = "consumer" /\ ~InRawState(e.id))
  BY TargetFollows DEF TargetFollowsFile
<1> QED
  BY <1>4, <1>6

\* Whatever has been done to the rest of the file, what was not edited is in
\* the target as it was.
THEOREM WhatIsNotEditedStays == Spec => []EditsAreLocal
BY RoundTripInvariance, EditsFollow, PTL

-----------------------------------------------------------------------------
(* A file that is not edited.                                             *)

\* The file is that of the current state, which has all that it refers to.
AsWritten == Pre /\ Untouched /\ phase \notin Early

\* There is one slot for each entity, and all that it refers to is there.
LEMMA WrittenSlots ==
  ASSUME AsWritten
  PROVE  /\ edited = {} /\ ~WriterFails(current) /\ Kept(current) = current
         /\ Slots = {e.id : e \in current}
         /\ \A e \in current : e.id \in Slots \ edited /\ file[e.id] = Line(current, withID, e)
                               /\ file[e.id].kind = e.kind /\ file[e.id].name = e.name
         /\ \A e \in current : \A r \in e.refs : \E p \in Parents(e) : p.id = r.id /\ p.kind = r.kind
<1>1. edited = {} /\ ~WriterFails(current) /\ file = Written(current, withID) /\ CurrentInv /\ FileInv
  BY DEF AsWritten, Untouched, Pre, FileInv, Early
<1>2. Kept(current) = current
  BY DEF Kept, AsWritten, Untouched
<1>3. Slots = {e.id : e \in current}
  BY <1>1, <1>2, WrittenLines DEF Slots
<1>4. ASSUME NEW e \in current
      PROVE  e.id \in Slots \ edited /\ file[e.id] = Line(current, withID, e)
             /\ file[e.id].kind = e.kind /\ file[e.id].name = e.name
  BY <1>1, <1>3, UneditedLine DEF AsWritten
<1>5. ASSUME NEW e \in current, NEW r \in e.refs
      PROVE  \E p \in Parents(e) : p.id = r.id /\ p.kind = r.kind
  <2>1. PICK p \in current : p.id = r.id
    BY DEF AsWritten, Untouched, Orphans, HasParent
  <2> QED BY <2>1, <1>1 DEF Parents, CurrentInv
<1> QED
  BY <1>1, <1>2, <1>3, <1>4, <1>5

\* If all of a kind are built as they were, what refers to them finds them.
LEMMA KindIsReady ==
  ASSUME AsWritten, NEW k,
         \A e \in current : e.kind = k /\ e.id \in DOMAIN built => built[e.id] = e,
         NEW p \in current, p.kind = k, p.id \in DOMAIN built
  PROVE  Ready(p)
<1>1. Pre /\ CurrentInv /\ FileInv /\ BuiltInv
  BY DEF AsWritten, Pre
<1>2. ASSUME NEW x \in DOMAIN built, built[x].kind = k
      PROVE  built[x] \in current /\ built[x].id = x
  <2>1. x \in Slots
    BY <1>1 DEF BuiltInv
  <2>2. PICK e \in current : e.id = x
    BY <2>1, WrittenSlots
  <2>3. file[x].kind = e.kind
    BY <2>2, WrittenSlots
  <2>4. built[x].kind = file[x].kind
    BY <1>1, BuiltShape DEF BuiltOK
  <2> QED BY <1>2, <2>2, <2>3, <2>4
<1>3. built[p.id] = p
  OBVIOUS
<1>4. InRawState(p.id)
  <2>1. ById(built, p.kind, p.id) = {p.id}
    <3>1. \A x \in ById(built, p.kind, p.id) : x = p.id
      BY <1>2 DEF ById
    <3>2. p.id \in ById(built, p.kind, p.id)
      BY <1>3 DEF ById
    <3> QED BY <3>1, <3>2
  <2>2. {p.id} \in SUBSET Slots
    BY <1>1 DEF BuiltInv
  <2>3. FirstOf({p.id}) = p.id
    BY <1>1, <2>2, FirstIsLeast
  <2> QED BY <1>3, <2>1, <2>3 DEF InRawState, FirstOfItsId
<1>5. ASSUME collectionOf[p.kind].second = "name", p.name # NoName, NEW x \in DOMAIN built,
             built[x].kind = p.kind, built[x].name = p.name
      PROVE  built[x].id = p.id
  <2>1. built[x] \in current
    BY <1>2, <1>5
  <2>2. KeyOf("name", p) = KeyOf("name", built[x])
    BY <1>5 DEF KeyOf
  <2>3. Clash(p, built[x])
    BY <1>5, <2>2 DEF Clash
  <2> QED BY <1>1, <2>1, <2>3 DEF CurrentInv
<1> QED
  BY <1>3, <1>4, <1>5 DEF Ready

\* What an entity refers to is built before it.
LEMMA WrittenParents ==
  ASSUME AsWritten, NEW e \in current, e.id \in DOMAIN built, NEW p \in Parents(e)
  PROVE  p.id \in DOMAIN built
<1>0. p \in current /\ file[e.id] = Line(current, withID, e)
  BY WrittenSlots DEF Parents
<1>1. Pre /\ CurrentInv /\ ~WriterFails(current) /\ e \in Kept(current)
      /\ p.id \in Slots /\ file[p.id].kind = p.kind
  BY <1>0, WrittenSlots DEF AsWritten, Pre
<1>2. PICK r \in e.refs : r.id = p.id
  BY DEF Parents
<1>3. r.kind = p.kind
  BY <1>0, <1>1, <1>2 DEF CurrentInv
<1>4. PICK q \in file[e.id].refs : q.kind = r.kind
  <2>1. file[e.id].refs = {WrittenRef(current, e, x, withID) : x \in e.refs}
    BY <1>0 DEF Line
  <2> QED BY <1>1, <2>1, WrittenRefs
<1> QED
  BY <1>0, <1>1, <1>3, <1>4, ParentsBuilt

\* If all that an entity refers to is ready, it is built as it was.
LEMMA ReadyKind ==
  ASSUME AsWritten, NEW k, k \in Parent10,
         \A e \in current : e.kind = k => \A p \in Parents(e) : p.id \in DOMAIN built => Ready(p)
  PROVE  \A p \in current : p.kind = k /\ p.id \in DOMAIN built => Ready(p)
<1>1. Pre /\ CurrentInv /\ phase \notin Early /\ edited = {}
  BY WrittenSlots DEF AsWritten, Pre
<1>2. ASSUME NEW e \in current, e.kind = k, e.id \in DOMAIN built
      PROVE  built[e.id] = e
  <2>1. \A p \in Parents(e) : Ready(p)
    BY <1>2, WrittenParents
  <2>2. built[e.id] = Renewed(e)
    BY <1>1, <1>2, <2>1, UneditedIsBuilt
  <2>3. e.kind \in Kinds /\ e.kind \notin {"mtls-auth", "license"}
    BY <1>1, <1>2 DEF Parent10, CurrentInv, InModel
  <2> QED BY <2>2, <2>3, Lookups DEF Renewed
<1> QED
  BY <1>2, KindIsReady

\* First the kinds without references, then routes and versions.
LEMMA ParentsAreReady ==
  ASSUME AsWritten, NEW e \in current, NEW p \in Parents(e), p.id \in DOMAIN built
  PROVE  Ready(p)
<1>1. CurrentInv
  BY DEF AsWritten, Pre
<1>2. ASSUME NEW d \in current, NEW q \in Parents(d), q.kind \notin {"route", "service-version"},
             q.id \in DOMAIN built
      PROVE  Ready(q)
  <2>1. q \in current /\ q.kind \in Parent10
    BY <1>1, <1>2, ParentOf
  <2>2. ASSUME NEW c \in current, c.kind = q.kind, NEW x \in Parents(c) PROVE FALSE
    <3>1. c.kind \in Kinds /\ x.kind \in FileRefs(c.kind)
      BY <1>1, <2>2, ParentOf
    <3> QED BY <1>2, <2>1, <2>2, <3>1, ParentKinds DEF Parent10
  <2> QED BY <1>2, <2>1, <2>2, ReadyKind
<1>3. CASE p.kind \in {"route", "service-version"}
  <2>1. p \in current /\ p.kind \in Parent10
    BY <1>1, ParentOf
  <2>2. ASSUME NEW c \in current, c.kind = p.kind, NEW x \in Parents(c), x.id \in DOMAIN built PROVE Ready(x)
    <3>1. c.kind \in Kinds /\ x.kind \in FileRefs(c.kind)
      BY <1>1, <2>2, ParentOf
    <3>2. x.kind \notin {"route", "service-version"}
      BY <1>3, <2>2, <3>1, ParentKinds
    <3> QED BY <1>2, <2>2, <3>2
  <2> QED BY <2>1, <2>2, ReadyKind
<1> QED
  BY <1>2, <1>3

\* Every entity is built as it was, and is in the raw state.
LEMMA BuiltAsWritten ==
  ASSUME AsWritten, NEW e \in current, e.id \in DOMAIN built
  PROVE  built[e.id] = Renewed(e) /\ InRawState(e.id)
<1>1. Pre /\ CurrentInv /\ phase \notin Early /\ edited = {} /\ file[e.id].kind = e.kind
  BY WrittenSlots DEF AsWritten, Pre
<1>2. \A p \in Parents(e) : Ready(p)
  BY WrittenParents, ParentsAreReady
<1>3. built[e.id] = Renewed(e)
  BY <1>1, <1>2, UneditedIsBuilt
<1>4. CASE e.kind = "consumer"
  <2>1. ASSUME NEW c \in current, c.kind = "consumer", NEW x \in Parents(c) PROVE FALSE
    BY <1>1, <2>1, ParentOf, ParentKinds
  <2>2. Ready(e)
    BY <1>4, <2>1, ReadyKind DEF Parent10
  <2> QED BY <1>3, <2>2 DEF Ready
<1>5. CASE e.kind # "consumer"
  <2>1. built[e.id].kind = e.kind
    BY <1>1, BuiltShape DEF BuiltOK
  <2> QED BY <1>3, <1>5, <2>1 DEF InRawState
<1> QED
  BY <1>4, <1>5

\* No reference of it is refused.
LEMMA NothingDangles ==
  ASSUME AsWritten, Unbuilt # {}, NEW s \in NextSlots, NEW q \in file[s].refs
  PROVE  ~Dangling(built, file[s].kind, q)
<1>1. Pre /\ CurrentInv /\ FileInv /\ BuiltInv /\ ~WriterFails(current) /\ Kept(current) = current
  BY WrittenSlots DEF AsWritten, Pre
<1>2. s \in Slots
  BY <1>1, NextIsAKind DEF Unbuilt
<1>3. PICK e \in current : e.id = s
  BY <1>2, WrittenSlots
<1>4. file[s] = Line(current, withID, e)
  BY <1>3, WrittenSlots
<1>5. PICK r \in e.refs : q = WrittenRef(current, e, r, withID)
  BY <1>4 DEF Line
<1>6. PICK p \in Parents(e) : p.id = r.id /\ p.kind = r.kind
  BY WrittenSlots
<1>7. p \in current
  BY DEF Parents
<1>8. p.id \in Slots /\ file[p.id].kind = p.kind
  BY <1>7, WrittenSlots
<1>9. /\ q.kind = r.kind
      /\ \/ q.by \in {"slot", "id"} /\ q.key = r.id
         \/ q.by = "name" /\ q.key = p.name
         \/ q.by = "either" /\ q.key = r.id
  <2>1. HasParent(current, r) /\ Parent(current, r) = p
    BY <1>1, <1>6, <1>7, TheParent
  <2>2. e \in Kept(current)
    BY <1>1
  <2> QED BY <1>1, <1>5, <2>1, <2>2, WrittenRefs
<1>10. p.id \in DOMAIN built
  BY <1>1, <1>2, <1>6, <1>8, <1>9, BeforeNext
<1>11. Ready(p)
  BY <1>10, ParentsAreReady
<1>12. p.id \in ById(built, q.kind, r.id) /\ p.id \in ByName(built, q.kind, p.name)
  BY <1>6, <1>9, <1>11 DEF Ready, ById, ByName, InRawState
<1> QED
  BY <1>9, <1>12 DEF Dangling

\* No two entities clash.
LEMMA NothingClashes ==
  ASSUME AsWritten, DOMAIN built = Slots
  PROVE  ~Rejected
<1> SUFFICES ASSUME NEW s \in Slots, NEW t \in Slots, s # t, Clash(built[s], built[t]) PROVE FALSE
  BY DEF Rejected
<1>1. Pre /\ CurrentInv
  BY DEF AsWritten, Pre
<1>2. PICK e \in current : e.id = s
  BY WrittenSlots
<1>3. PICK f \in current : f.id = t
  BY WrittenSlots
<1>4. built[s] = Renewed(e) /\ built[t] = Renewed(f)
  BY <1>2, <1>3, BuiltAsWritten
<1>5. ASSUME NEW d \in current
      PROVE  /\ Renewed(d).kind = d.kind /\ Renewed(d).name = d.name /\ Renewed(d).refs = d.refs
             /\ Renewed(d).custom = d.custom
             /\ Renewed(d).id \in {d.id, FreshId(d.id)} /\ d.id \in 1..999 /\ d.kind \in Kinds
  <2>1. d = [kind |-> d.kind, id |-> d.id, name |-> d.name, custom |-> d.custom, refs |-> d.refs] /\ d.id \in 1..999 /\ d.kind \in Kinds
    BY <1>1 DEF CurrentInv, InModel, Entity
  <2>2. CASE Renewed(d) = d
    BY <2>1, <2>2
  <2>3. CASE Renewed(d) = [d EXCEPT !.id = FreshId(d.id)]
    <3>1. Renewed(d) = [kind |-> d.kind, id |-> FreshId(d.id), name |-> d.name, custom |-> d.custom, refs |-> d.refs]
      BY <2>1, <2>3
    <3> QED BY <2>1, <3>1
  <2> QED BY <2>2, <2>3 DEF Renewed
<1>6. e.id # f.id /\ e # f
  BY <1>2, <1>3
<1>7. Renewed(e).id # Renewed(f).id
  <2>1. Renewed(e).id \in {e.id, FreshId(e.id)} /\ e.id \in 1..999
    BY <1>5
  <2>2. Renewed(f).id \in {f.id, FreshId(f.id)} /\ f.id \in 1..999
    BY <1>5
  <2>3. e.id # FreshId(f.id) /\ FreshId(e.id) # f.id /\ FreshId(e.id) # FreshId(f.id)
    <3>1. PICK i \in 1..999 : i = e.id
      BY <2>1
    <3>2. PICK j \in 1..999 : j = f.id
      BY <2>2
    <3>3. i # FreshId(j) /\ FreshId(i) # j /\ FreshId(i) # FreshId(j)
      <4>1. i # j
        BY <1>6, <3>1, <3>2
      <4> QED BY <4>1 DEF FreshId
    <3> QED BY <3>1, <3>2, <3>3
  <2>4. CASE Renewed(e).id = e.id
    BY <1>6, <2>2, <2>3, <2>4
  <2>5. CASE Renewed(e).id = FreshId(e.id)
    BY <2>2, <2>3, <2>5
  <2> QED BY <2>1, <2>4, <2>5
<1>8. e.kind = f.kind
  BY <1>4, <1>5 DEF Clash
<1> DEFINE second == collectionOf[e.kind].second
<1>81. ~(e.custom = f.custom /\ e.custom # NoName)
  BY <1>1, <1>6, <1>8 DEF Clash, CurrentInv
<1>9. KeyOf(second, Renewed(e)) = KeyOf(second, Renewed(f)) /\ ~(second = "name" /\ e.name = NoName)
  BY <1>4, <1>5, <1>7, <1>81 DEF Clash
<1>10. second \in {"id", "name", "prop", "refs", "child"}
  BY <1>5, CollectionSeconds
<1>11. second \in {"name", "prop", "refs"}
  BY <1>7, <1>9, <1>10 DEF KeyOf
<1>12. KeyOf(second, e) = KeyOf(second, f)
  BY <1>5, <1>9, <1>11 DEF KeyOf
<1>13. Clash(e, f)
  BY <1>8, <1>9, <1>12 DEF Clash
<1> QED
  BY <1>1, <1>6, <1>13 DEF CurrentInv

-----------------------------------------------------------------------------
(* It is accepted.                                                        *)

\* Only BuildKind and LoadTarget refuse, and they have no reason to.
LEMMA NotRefusedStep == FullInv /\ NotRefused /\ [Next]_vars => NotRefused'
<1> SUFFICES ASSUME FullInv, NotRefused, [Next]_vars, phase' = "rejected", Untouched' PROVE FALSE
  BY DEF NotRefused
<1>1. Pre
  BY DEF FullInv, RoundTripInv, Pre
<1>2. CASE BuildKind
  <2>1. phase = "build" /\ Unbuilt # {} /\ UNCHANGED <<current, edits>>
    BY <1>2 DEF BuildKind
  <2>2. AsWritten
    BY <1>1, <2>1 DEF AsWritten, Untouched, Early
  <2>3. \E s \in NextSlots : \E r \in file[s].refs : Dangling(built, file[s].kind, r)
    BY <1>2, <2>1 DEF BuildKind
  <2> QED BY <2>1, <2>2, <2>3, NothingDangles
<1>3. CASE LoadTarget
  <2>1. phase = "build" /\ Unbuilt = {} /\ UNCHANGED <<current, edits>>
    BY <1>3 DEF LoadTarget
  <2>2. AsWritten
    BY <1>1, <2>1 DEF AsWritten, Untouched, Early
  <2>3. DOMAIN built = Slots
    BY <1>1, <2>1 DEF Pre, BuiltInv, Unbuilt
  <2>4. Rejected
    BY <1>3 DEF LoadTarget
  <2> QED BY <2>2, <2>3, <2>4, NothingClashes
<1>4. ASSUME UNCHANGED <<phase, current, edits>> PROVE FALSE
  BY <1>4 DEF NotRefused, Untouched
<1>5. CASE Dump \/ Done \/ UNCHANGED vars
  BY <1>4, <1>5 DEF Dump, Done, vars, fileVars
<1>6. CASE Load \/ KongStateToFile \/ StartBuild
  BY <1>6 DEF Load, KongStateToFile, StartBuild
<1>7. ASSUME NEW s, RemoveSlot(s) \/ RenameSlot(s) \/ IdentifySlot(s) \/ StripId(s) \/ GiveId(s) \/ InsertSlot(s)
      PROVE  FALSE
  <2>1. phase = "edit" /\ phase' = phase
    BY <1>7 DEF RemoveSlot, RenameSlot, IdentifySlot, StripId, GiveId, InsertSlot, Edit
  <2> QED BY <2>1
<1> QED
  BY <1>2, <1>3, <1>5, <1>6, <1>7 DEF Next

\* So the target is the current state.
LEMMA FaithfulFollows == FullInv /\ NotRefused => FileIsFaithful
<1> SUFFICES ASSUME FullInv, NotRefused, Untouched
             PROVE  phase # "rejected" /\ (phase = "built" => target = {Renewed(e) : e \in current})
  BY DEF FileIsFaithful, Untouched
<1>1. phase # "rejected"
  BY DEF NotRefused
<1>2. ASSUME phase = "built" PROVE target = {Renewed(e) : e \in current}
  <2>1. Pre /\ AsWritten /\ DOMAIN built = Slots
        /\ target = LoadedFrom({built[s] : s \in {t \in Slots : InRawState(t)}})
    BY <1>2 DEF FullInv, RoundTripInv, PhaseInv, Pre, AsWritten, Early
  <2>2. ASSUME NEW x \in target PROVE \E e \in current : x = Renewed(e)
    <3>1. PICK s \in Slots : x = built[s]
      BY <2>1, <2>2 DEF LoadedFrom
    <3>2. PICK e \in current : e.id = s
      BY <2>1, WrittenSlots
    <3> QED BY <2>1, <3>1, <3>2, BuiltAsWritten
  <2>3. ASSUME NEW e \in current PROVE Renewed(e) \in target
    <3>1. \A d \in current : d.id \in Slots \ edited /\ InRawState(d.id)
      BY <2>1, WrittenSlots, BuiltAsWritten
    <3>2. {e} \cup Ancestors(e) \subseteq current
      BY DEF Ancestors, Parents
    <3> QED BY <1>2, <3>1, <3>2, EditsFollow DEF EditsAreLocal
  <2> QED BY <2>2, <2>3
<1> QED
  BY <1>1, <1>2

\* A file that is not edited leads back to the state it was written from.
THEOREM UneditedFileLeadsBack == Spec => []FileIsFaithful
<1>1. Init => NotRefused
  BY DEF Init, NotRefused
<1>2. Spec => [](FullInv /\ NotRefused)
  BY <1>1, InitFull, FullStep, NotRefusedStep, PTL DEF Spec
<1> QED
  BY <1>2, FaithfulFollows, PTL

\* The way from the gateway to the target state begins with a dump, and nothing
\* that follows changes what was dumped.
THEOREM RoundTripDumps == Spec => DumpSpec
<1>1. Init => DumpInit
  BY DEF Init
<1> QED
  BY <1>1, StepDumps, PTL DEF Spec, DumpSpec

\* So what is written to the file comes from a complete dump.
THEOREM CompleteDump == Spec => []DumpComplete
BY RoundTripDumps, DumpIsComplete, PTL
=============================================================================
