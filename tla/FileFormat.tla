----------------------------- MODULE FileFormat -----------------------------
(***************************************************************************)
(* How the entities of a state are written to a file (pkg/file/writer.go)  *)
(* and how those of a file get their ids and references                    *)
(* (pkg/file/builder.go). A row of format says of a kind:                  *)
(*   within    the kinds it is nested in; its other references are written *)
(*             by name ("alone": nested if it has one reference)           *)
(*   id        when its id is written: "always", "never", or "unlessNamed",*)
(*             which WithID makes "always"                                 *)
(*   orphan    what is done if a parent is not in the state: "lost" leaves *)
(*             it out, "error" fails, "kept" writes the id of the parent   *)
(* and a row of ingested by which key one without an id takes the id of a  *)
(* current entity ("none": it always gets a fresh one). A consumer without *)
(* a current one of its name takes that of the one with its custom_id.     *)
(*                                                                         *)
(* A document has a path of one name: others lose their directories in     *)
(* StripLocalDocumentPath. Consumers are not nested in groups.             *)
(***************************************************************************)
EXTENDS Collections, Integers, SequencesExt

format(kind, within, id, orphan) ==
  [kind |-> kind, within |-> within, id |-> id, orphan |-> orphan]

serviceFormat == format("service", {}, "unlessNamed", "kept")
routeFormat == format("route", {"service"}, "unlessNamed", "lost")
pluginFormat == format("plugin", {"alone"}, "unlessNamed", "error")
filterChainFormat == format("filter-chain", {"service", "route"}, "unlessNamed", "error")
upstreamFormat == format("upstream", {}, "unlessNamed", "kept")
targetFormat == format("target", {"upstream"}, "unlessNamed", "lost")
certificateFormat == format("certificate", {}, "always", "kept")
sniFormat == format("sni", {"certificate"}, "unlessNamed", "lost")
caCertificateFormat == format("ca-certificate", {}, "always", "kept")
consumerFormat == format("consumer", {}, "unlessNamed", "kept")
consumerGroupFormat == format("consumer-group", {}, "unlessNamed", "kept")
consumerGroupConsumerFormat ==
  format("consumer-group-consumer", {"consumer"}, "never", "lost")
consumerGroupPluginFormat ==
  format("consumer-group-plugin", {"consumer-group"}, "unlessNamed", "lost")
keyAuthFormat == format("key-auth", {"consumer"}, "unlessNamed", "lost")
hmacAuthFormat == format("hmac-auth", {"consumer"}, "unlessNamed", "lost")
jwtAuthFormat == format("jwt-auth", {"consumer"}, "unlessNamed", "lost")
basicAuthFormat == format("basic-auth", {"consumer"}, "unlessNamed", "lost")
oauth2CredFormat == format("oauth2-cred", {"consumer"}, "unlessNamed", "lost")
aclGroupFormat == format("acl-group", {"consumer"}, "unlessNamed", "lost")
mtlsAuthFormat == format("mtls-auth", {"consumer"}, "always", "lost")
rbacRoleFormat == format("rbac-role", {}, "unlessNamed", "kept")
rbacEndpointPermissionFormat ==
  format("rbac-endpoint-permission", {"rbac-role"}, "never", "lost")
vaultFormat == format("vault", {}, "unlessNamed", "kept")
licenseFormat == format("license", {}, "unlessNamed", "kept")
partialFormat == format("partial", {}, "always", "kept")
keyFormat == format("key", {}, "unlessNamed", "error")
keySetFormat == format("key-set", {}, "unlessNamed", "kept")
clonedPluginDefinitionFormat == format("cloned-plugin", {}, "unlessNamed", "kept")
customPluginDefinitionFormat == format("custom-plugin", {}, "unlessNamed", "kept")
degraphqlRouteFormat == format("degraphql_routes", {}, "always", "kept")
graphqlRateLimitingCostDecorationFormat ==
  format("graphql_ratelimiting_cost_decorations", {}, "always", "kept")
servicePackageFormat == format("service-package", {}, "unlessNamed", "kept")
serviceVersionFormat ==
  format("service-version", {"service-package"}, "unlessNamed", "lost")
documentFormat ==
  format("document", {"service-package", "service-version"}, "unlessNamed", "lost")

formats ==
  { serviceFormat, routeFormat, pluginFormat, filterChainFormat, upstreamFormat,
    targetFormat, certificateFormat, sniFormat, caCertificateFormat, consumerFormat,
    consumerGroupFormat, consumerGroupConsumerFormat, consumerGroupPluginFormat,
    keyAuthFormat, hmacAuthFormat, jwtAuthFormat, basicAuthFormat, oauth2CredFormat,
    aclGroupFormat, mtlsAuthFormat, rbacRoleFormat, rbacEndpointPermissionFormat,
    vaultFormat, licenseFormat, partialFormat, keyFormat, keySetFormat,
    clonedPluginDefinitionFormat, customPluginDefinitionFormat, degraphqlRouteFormat,
    graphqlRateLimitingCostDecorationFormat, servicePackageFormat, serviceVersionFormat,
    documentFormat }

formatOf == [k \in Kinds |-> CHOOSE f \in formats : f.kind = k]

ingested(kind, lookup) == [kind |-> kind, lookup |-> lookup]

certificates == ingested("certificate", "name")
ingestSNIs == ingested("sni", "name")
caCertificates == ingested("ca-certificate", "name")
clonedPluginDefinitions == ingested("cloned-plugin", "name")
customPluginDefinitions == ingested("custom-plugin", "name")
partials == ingested("partial", "name")
ingestService == ingested("service", "name")
ingestRoute == ingested("route", "name")
upstreams == ingested("upstream", "name")
ingestTargets == ingested("target", "prop")
consumerGroups == ingested("consumer-group", "name")
addConsumerGroupPlugins == ingested("consumer-group-plugin", "prop")
consumers == ingested("consumer", "name")
ingestIntoConsumerGroup == ingested("consumer-group-consumer", "refs")
ingestKeyAuths == ingested("key-auth", "name")
ingestBasicAuths == ingested("basic-auth", "name")
ingestHMACAuths == ingested("hmac-auth", "name")
ingestJWTAuths == ingested("jwt-auth", "name")
ingestOauth2Creds == ingested("oauth2-cred", "name")
ingestACLGroups == ingested("acl-group", "prop")
ingestMTLSAuths == ingested("mtls-auth", "none")
ingestPlugins == ingested("plugin", "prop")
ingestFilterChains == ingested("filter-chain", "refs")
keySets == ingested("key-set", "name")
keys == ingested("key", "name")
rbacRoles == ingested("rbac-role", "name")
rbacRolesPermissions == ingested("rbac-endpoint-permission", "prop")
vaults == ingested("vault", "name")
ingestDeGraphqlRoute == ingested("degraphql_routes", "name")
ingestGraphqlRateLimitingCostDecoration ==
  ingested("graphql_ratelimiting_cost_decorations", "name")
licenses == ingested("license", "none")
konnectPackages == ingested("service-package", "name")
konnectVersions == ingested("service-version", "prop")
konnectDocuments == ingested("document", "prop")

\* Mutant: the consumers, and with them the members, before the groups.
buildMembersFirst ==
  << certificates, ingestSNIs, caCertificates, clonedPluginDefinitions,
     customPluginDefinitions, partials, ingestService, ingestRoute, upstreams,
     ingestTargets, consumers, ingestIntoConsumerGroup, ingestKeyAuths,
     ingestBasicAuths, ingestHMACAuths, ingestJWTAuths, ingestOauth2Creds,
     ingestACLGroups, ingestMTLSAuths, consumerGroups, addConsumerGroupPlugins,
     ingestPlugins, ingestFilterChains, keySets, keys, rbacRoles, rbacRolesPermissions,
     vaults, ingestDeGraphqlRoute, ingestGraphqlRateLimitingCostDecoration, licenses,
     konnectPackages, konnectVersions, konnectDocuments >>

\* The order in which build goes through the kinds. The document of a package
\* comes before its versions, which makes no difference.
build ==
  << certificates, ingestSNIs, caCertificates, clonedPluginDefinitions,
     customPluginDefinitions, partials, ingestService, ingestRoute, upstreams,
     ingestTargets, consumerGroups, addConsumerGroupPlugins, consumers,
     ingestIntoConsumerGroup, ingestKeyAuths, ingestBasicAuths, ingestHMACAuths,
     ingestJWTAuths, ingestOauth2Creds, ingestACLGroups, ingestMTLSAuths, ingestPlugins,
     ingestFilterChains, keySets, keys, rbacRoles, rbacRolesPermissions, vaults,
     ingestDeGraphqlRoute, ingestGraphqlRateLimitingCostDecoration, licenses,
     konnectPackages, konnectVersions, konnectDocuments >>

lookupOf == [k \in Kinds |-> (CHOOSE b \in Range(build) : b.kind = k).lookup]

NoId == 0
NoName == 0

(***************************************************************************)
(* A file is a function from slots to what is written there: [kind, id,    *)
(* name, custom, refs], where a reference [by, kind, key, alt] is          *)
(*   "slot"    to the slot it is nested in                                 *)
(*   "name"    to the first slot of that kind with the name                *)
(*   "id"      to an id                                                    *)
(*   "either"  to the first slot with the id, or with the name alt         *)
(* The slot of a dumped entity has the entity's id for its number.         *)
(***************************************************************************)
Parent(S, r) == CHOOSE p \in S : p.id = r.id
HasParent(S, r) == \E p \in S : p.id = r.id
Orphans(S) == {e \in S : \E r \in e.refs : ~HasParent(S, r)}

NestedIn(e, r) ==
  \/ r.kind \in formatOf[e.kind].within
  \/ "alone" \in formatOf[e.kind].within /\ Cardinality(e.refs) = 1

\* A decoration gives the id and the name of its service, a key those of its
\* set if WithID, and then the id counts.
GivenById(S, e, r, withID) ==
  \/ ~HasParent(S, r) \/ Parent(S, r).name = NoName
  \/ e.kind = "graphql_ratelimiting_cost_decorations"
  \/ e.kind = "key" /\ withID

WrittenRef(S, e, r, withID) ==
  LET ref(by, key, alt) == [by |-> by, kind |-> r.kind, key |-> key, alt |-> alt] IN
  CASE NestedIn(e, r) -> ref("slot", r.id, NoName)
    [] ~NestedIn(e, r) /\ GivenById(S, e, r, withID) -> ref("id", r.id, NoName)
    [] OTHER -> IF e.kind = "consumer-group-consumer" /\ withID
                  THEN ref("either", r.id, Parent(S, r).name)
                  ELSE ref("name", Parent(S, r).name, NoName)

\* ZeroOutID
WrittenId(e, withID) ==
  IF \/ formatOf[e.kind].id = "always"
     \/ formatOf[e.kind].id = "unlessNamed" /\ (withID \/ e.name = NoName)
    THEN e.id ELSE NoId

\* A degraphql route of a service without a name is not foreseen.
WriterFails(S) ==
  \/ \E e \in Orphans(S) : formatOf[e.kind].orphan = "error"
  \/ \E e \in OfKind("degraphql_routes", S) : \E r \in e.refs :
       HasParent(S, r) /\ Parent(S, r).name = NoName

\* Mutant: what is nested in nothing is forgotten (routes without a service).
WrittenNested(S, withID) ==
  LET lost == {e \in S : formatOf[e.kind].orphan = "lost" /\
                          (e \in Orphans(S) \/ ~\E r \in e.refs : NestedIn(e, r))}
      kept == {e \in S \ lost : \A r \in e.refs : \A f \in lost :
                                  f.id = r.id => ~NestedIn(e, r)}
  IN [s \in {e.id : e \in kept} |->
        LET e == CHOOSE f \in kept : f.id = s IN
        [kind |-> e.kind, id |-> WrittenId(e, withID), name |-> e.name, custom |-> e.custom,
         refs |-> {WrittenRef(S, e, r, withID) : r \in e.refs}]]

\* What is nested in an entity that is left out is left out with it.
Written(S, withID) ==
  LET lost == {e \in Orphans(S) : formatOf[e.kind].orphan = "lost"}
      kept == {e \in S \ lost : \A r \in e.refs : \A f \in lost :
                                  f.id = r.id => ~NestedIn(e, r)}
  IN [s \in {e.id : e \in kept} |->
        LET e == CHOOSE f \in kept : f.id = s IN
        [kind |-> e.kind, id |-> WrittenId(e, withID), name |-> e.name, custom |-> e.custom,
         refs |-> {WrittenRef(S, e, r, withID) : r \in e.refs}]]

-----------------------------------------------------------------------------
(* The builder. built holds the entities it has made, by their slots.      *)

FirstOf(slots) == CHOOSE s \in slots : \A t \in slots : s <= t

\* The slots of a kind with an id or a name that are in the intermediate state:
\* of two that clash, it keeps the first. (Where it has others than these, which
\* takes consumers of one name or custom_id and two ids, the file is refused anyway.)
ById(built, kind, id) == {s \in DOMAIN built : built[s].kind = kind /\ built[s].id = id}
FirstOfItsId(built, s) == s = FirstOf(ById(built, built[s].kind, built[s].id))
ByName(built, kind, n) ==
  {s \in DOMAIN built : /\ built[s].kind = kind /\ built[s].name = n
                        /\ kind = "consumer" => FirstOfItsId(built, s)}

\* Of the references by id, only those of plugins are checked.
Dangling(built, k, r) ==
  CASE r.by = "name" -> ByName(built, r.kind, r.key) = {}
    [] r.by = "either" -> ById(built, r.kind, r.key) \cup ByName(built, r.kind, r.alt) = {}
    [] OTHER -> r.by = "id" /\ k = "plugin" /\ ById(built, r.kind, r.key) = {}

ResolvedId(built, r) ==
  CASE r.by = "slot" -> built[r.key].id
    [] r.by = "name" -> built[FirstOf(ByName(built, r.kind, r.key))].id
    [] r.by = "either" ->
         built[FirstOf(ById(built, r.kind, r.key) \cup ByName(built, r.kind, r.alt))].id
    [] OTHER -> r.key

\* Mutant: nobody makes up an id.
NoFreshId(slot) == NoId

\* utils.UUID for the entity of a slot.
FreshId(slot) == 1000 + slot

\* Mutant: the current entity is looked up without its parent.
BuiltByName(file, current, built, slot) ==
  LET f == file[slot]
      e == [kind |-> f.kind, id |-> f.id, name |-> f.name, custom |-> f.custom,
            refs |-> {[kind |-> r.kind, id |-> ResolvedId(built, r)] : r \in f.refs}]
      found == {c \in OfKind(e.kind, current) : c.name = e.name}
  IN IF f.id # NoId THEN e
     ELSE [e EXCEPT !.id = IF found = {} THEN FreshId(slot) ELSE (CHOOSE c \in found : TRUE).id]

\* What a lookup of e by its key finds. A consumer may have no username.
Keyed(S, e) ==
  {c \in OfKind(e.kind, S) :
     /\ lookupOf[e.kind] # "none" /\ KeyOf(lookupOf[e.kind], c) = KeyOf(lookupOf[e.kind], e)
     /\ e.kind = "consumer" => e.name # NoName}

\* The current entity whose id e gets.
Found(S, e) ==
  IF Keyed(S, e) # {} THEN Keyed(S, e)
  ELSE {c \in OfKind(e.kind, S) : e.custom # NoName /\ c.custom = e.custom}

\* What the builder makes of the entity of a slot.
Built(file, current, built, slot) ==
  LET f == file[slot]
      e == [kind |-> f.kind, id |-> f.id, name |-> f.name, custom |-> f.custom,
            refs |-> {[kind |-> r.kind, id |-> ResolvedId(built, r)] : r \in f.refs}]
      found == Found(current, e)
  IN IF f.id # NoId THEN e
     ELSE [e EXCEPT !.id = IF found = {} THEN FreshId(slot) ELSE (CHOOSE c \in found : TRUE).id]

-----------------------------------------------------------------------------
(* The state builder (pkg/state/builder.go).                               *)

Credentials ==
  {"key-auth", "hmac-auth", "jwt-auth", "basic-auth", "oauth2-cred", "acl-group", "mtls-auth"}
CustomEntities == {"degraphql_routes", "graphql_ratelimiting_cost_decorations"}

\* Two entities that no collection takes together: a name or a custom_id that is
\* not given is not compared.
Clash(e, f) ==
  /\ e.kind = f.kind
  /\ \/ e.id = f.id
     \/ /\ KeyOf(collectionOf[e.kind].second, e) = KeyOf(collectionOf[e.kind].second, f)
        /\ ~(collectionOf[e.kind].second = "name" /\ e.name = NoName)
     \/ e.custom = f.custom /\ e.custom # NoName

\* What it leaves out: credentials whose consumer is not there.
LoadedFrom(S) == {e \in S : e.kind \in Credentials => \A r \in e.refs : HasParent(S, r)}
=============================================================================
