---------------------------- MODULE GatewayDump ----------------------------
(***************************************************************************)
(* Get of pkg/dump: one goroutine of an errgroup for each kind lists the   *)
(* entities of the gateway page by page, and their union is the raw state. *)
(* The gateway may be changed by someone else meanwhile.                   *)
(*                                                                         *)
(* An entity is a record [kind, id, name, refs, tagged], whose refs are    *)
(* records [kind, id]; ids are numbers, in the order in which the gateway  *)
(* lists them. Kinds of which the gateway holds nothing, the lookup tags   *)
(* and the listings that are switched off are left out.                    *)
(***************************************************************************)
EXTENDS Collections, Integers, FiniteSets

CONSTANTS
  Gateways,    \* what the gateway may hold
  PageSize,    \* entities of a page
  MaxFaults,   \* how many requests fail
  MaxChanges   \* how many entities someone else adds or removes

\* What a group comes with when it is read by its name, and what is listed
\* parent by parent.
Members == {"consumer-group-consumer", "consumer-group-plugin"}
Owned == Members \cup {"target", "rbac-endpoint-permission"}
OwnerKind(k) ==
  CASE k = "target" -> "upstream"
    [] k = "rbac-endpoint-permission" -> "rbac-role"
    [] OTHER -> "consumer-group"

\* The gateway has unique ids, and its foreign keys lead to what it holds.
WellFormed(S) ==
  /\ IsFiniteSet(S)
  /\ \A e, f \in S : e.id = f.id => e = f
  /\ \A e \in S :
       /\ e.id \in Nat \ {0}
       /\ \A r \in e.refs : \E p \in S : p.kind = r.kind /\ p.id = r.id
       /\ e.kind \in Owned => \E r \in e.refs : r.kind = OwnerKind(e.kind)

ASSUME DumpAssumption ==
  /\ PageSize \in Nat \ {0} /\ MaxFaults \in Nat /\ MaxChanges \in Nat
  /\ \A S \in Gateways : WellFormed(S)

(***************************************************************************)
(* A row for each listing: what it makes of an answer 404 and of a 403     *)
(* ("error": Get fails; "cut": what has been listed so far counts as all;  *)
(* "none": as if there were nothing), whether the selector tags filter it. *)
(***************************************************************************)
listing(kind, notFound, forbidden, byTags) ==
  [kind |-> kind, notFound |-> notFound, forbidden |-> forbidden, byTags |-> byTags]

GetAllServices == listing("service", "error", "error", TRUE)
GetAllRoutes == listing("route", "error", "error", TRUE)
GetAllPlugins == listing("plugin", "error", "error", TRUE)
GetAllFilterChains == listing("filter-chain", "none", "error", TRUE)
GetAllCertificates == listing("certificate", "error", "error", TRUE)
GetAllCACertificates == listing("ca-certificate", "cut", "error", TRUE)
GetAllSNIs == listing("sni", "error", "error", TRUE)
GetAllConsumers == listing("consumer", "error", "error", TRUE)
GetAllUpstreams == listing("upstream", "error", "error", TRUE)
GetAllTargets == listing("target", "error", "error", TRUE)
GetAllConsumerGroups == listing("consumer-group", "none", "none", TRUE)
GetAllVaults == listing("vault", "cut", "cut", TRUE)
GetAllKeyAuths == listing("key-auth", "cut", "error", TRUE)
GetAllHMACAuths == listing("hmac-auth", "cut", "error", TRUE)
GetAllJWTAuths == listing("jwt-auth", "cut", "error", TRUE)
GetAllBasicAuths == listing("basic-auth", "cut", "error", TRUE)
GetAllOauth2Creds == listing("oauth2-cred", "cut", "error", TRUE)
GetAllACLGroups == listing("acl-group", "cut", "error", TRUE)
GetAllMTLSAuths == listing("mtls-auth", "cut", "cut", FALSE)
GetAllRBACRoles == listing("rbac-role", "error", "error", FALSE)
GetAllRBACREndpointPermissions == listing("rbac-endpoint-permission", "error", "error", FALSE)
GetAllLicenses == listing("license", "cut", "error", TRUE)
GetAllPartials == listing("partial", "cut", "cut", TRUE)
GetAllKeys == listing("key", "cut", "cut", TRUE)
GetAllKeySets == listing("key-set", "cut", "cut", TRUE)
GetAllClonedPluginDefinitions == listing("cloned-plugin", "cut", "cut", TRUE)
GetAllCustomPluginDefinitions == listing("custom-plugin", "cut", "cut", TRUE)
DegraphqlRoutesListing == listing("degraphql_routes", "cut", "cut", FALSE)
DecorationsListing == listing("graphql_ratelimiting_cost_decorations", "cut", "cut", FALSE)

listings ==
  { GetAllServices, GetAllRoutes, GetAllPlugins, GetAllFilterChains, GetAllCertificates,
    GetAllCACertificates, GetAllSNIs, GetAllConsumers, GetAllUpstreams, GetAllTargets,
    GetAllConsumerGroups, GetAllVaults, GetAllKeyAuths, GetAllHMACAuths, GetAllJWTAuths,
    GetAllBasicAuths, GetAllOauth2Creds, GetAllACLGroups, GetAllMTLSAuths, GetAllRBACRoles,
    GetAllRBACREndpointPermissions, GetAllLicenses, GetAllPartials, GetAllKeys,
    GetAllKeySets, GetAllClonedPluginDefinitions, GetAllCustomPluginDefinitions,
    DegraphqlRoutesListing, DecorationsListing }

Listed == {l.kind : l \in listings}
listingOf == [k \in Listed |-> CHOOSE l \in listings : l.kind = k]

VARIABLES
  kong,      \* what the gateway holds
  selected,  \* SelectorTags are given
  pc,        \* control point of the listing of each kind
  offset,    \* the id after which its next page starts
  todo,      \* the parents whose entities it has still to list
  listed,    \* what it has listed
  lasting,   \* what the gateway has held all the time
  ever,      \* what it has held at some time
  faults, changes, \* how many of each are left
  raw        \* what Get returns: "none" yet, "error", or "ok"

world == <<kong, lasting, ever, changes>>
dumpVars == <<world, selected, pc, offset, todo, listed, faults, raw>>

Start(k, S) ==
  IF OfKind(k, S) = {} THEN "ok"
  ELSE CASE k = "target" -> "upstreams"
         [] k = "rbac-endpoint-permission" -> "roles"
         [] OTHER -> "page"

DumpInit ==
  /\ kong \in Gateways /\ lasting = kong /\ ever = kong
  /\ selected \in BOOLEAN
  /\ pc = [k \in Listed |-> Start(k, kong)]
  /\ offset = [k \in Listed |-> 0]
  /\ todo = [k \in Listed |-> {}]
  /\ listed = [k \in Listed |-> {}]
  /\ faults = MaxFaults /\ changes = MaxChanges
  /\ raw = "none"

Ended == {"ok", "cut", "error"}
Failed == \E k \in Listed : pc[k] = "error"

-----------------------------------------------------------------------------
(* The gateway.                                                            *)

Selects(k, e) == ~selected \/ ~listingOf[k].byTags \/ e.tagged

\* The entities of S after an id, and the first page of them.
After(S, id) == {e \in S : e.id > id}
FirstPage(S) == {e \in S : Cardinality({f \in S : f.id <= e.id}) <= PageSize}
First(S) == CHOOSE e \in S : \A f \in S : e.id <= f.id
LastId(S) == CHOOSE id \in {e.id : e \in S} : \A e \in S : e.id <= id

OfParent(S, parent) == {e \in S : \E r \in e.refs : r.id = parent}

\* Someone else adds an entity, or removes one and nothing hangs on it.
Change ==
  /\ raw = "none" /\ changes > 0
  /\ \E S \in Gateways :
       /\ S # kong /\ (Cardinality(S \ kong) + Cardinality(kong \ S)) = 1
       /\ kong' = S
  /\ lasting' = lasting \cap kong' /\ ever' = ever \cup kong'
  /\ changes' = changes - 1
  /\ UNCHANGED <<selected, pc, offset, todo, listed, faults, raw>>

-----------------------------------------------------------------------------
(* The listings.                                                           *)

\* A page arrives, of the entities S that are left to list.
TakePage(k, page, S) ==
  /\ listed' = [listed EXCEPT ![k] = @ \cup page]
  /\ offset' = [offset EXCEPT ![k] = IF page = S THEN @ ELSE LastId(page)]

MoreAfter(S) == FirstPage(S) # S

\* Mutant: the loop ends with the first page.
ListFirstPage(k) ==
  /\ pc[k] = "page" /\ k # "consumer-group" /\ ~Failed
  /\ LET S == {e \in After(OfKind(k, kong), offset[k]) : Selects(k, e)} IN
     /\ TakePage(k, FirstPage(S), S)
     /\ pc' = [pc EXCEPT ![k] = "ok"]
  /\ UNCHANGED <<world, selected, todo, faults, raw>>

\* A page of a kind that has a list of its own.
ListPage(k) ==
  /\ pc[k] = "page" /\ k # "consumer-group" /\ ~Failed
  /\ LET S == {e \in After(OfKind(k, kong), offset[k]) : Selects(k, e)} IN
     /\ TakePage(k, FirstPage(S), S)
     /\ pc' = [pc EXCEPT ![k] = IF MoreAfter(S) THEN "page" ELSE "ok"]
  /\ UNCHANGED <<world, selected, todo, faults, raw>>

\* A page of groups, each of which is then read by its name.
ListGroups ==
  /\ pc["consumer-group"] = "page" /\ ~Failed
  /\ LET S == {e \in After(OfKind("consumer-group", kong), offset["consumer-group"]) :
                 Selects("consumer-group", e)} IN
     /\ todo' = [todo EXCEPT !["consumer-group"] = FirstPage(S)]
     /\ offset' = [offset EXCEPT !["consumer-group"] =
                     IF MoreAfter(S) THEN LastId(FirstPage(S)) ELSE 0]
     /\ pc' = [pc EXCEPT !["consumer-group"] = "group"]
  /\ UNCHANGED <<world, selected, listed, faults, raw>>

\* A member that is a consumer without the tags is skipped.
SelectedMembers(g) ==
  {e \in OfParent(kong, g.id) :
     \/ e.kind = "consumer-group-plugin"
     \/ /\ e.kind = "consumer-group-consumer"
        /\ selected => \A r \in e.refs : r.kind = "consumer" =>
                         \E c \in OfKind("consumer", kong) : c.id = r.id /\ c.tagged}

\* A group that is gone is a 404, after which no group is dumped at all.
GetGroup ==
  /\ pc["consumer-group"] = "group" /\ todo["consumer-group"] # {} /\ ~Failed
  /\ LET g == First(todo["consumer-group"]) IN
     IF g \in kong
       THEN /\ listed' = [listed EXCEPT !["consumer-group"] = @ \cup {g} \cup SelectedMembers(g)]
            /\ todo' = [todo EXCEPT !["consumer-group"] = @ \ {g}]
            /\ UNCHANGED pc
       ELSE /\ listed' = [listed EXCEPT !["consumer-group"] = {}]
            /\ todo' = [todo EXCEPT !["consumer-group"] = {}]
            /\ pc' = [pc EXCEPT !["consumer-group"] = "cut"]
  /\ UNCHANGED <<world, selected, offset, faults, raw>>

GroupsGot ==
  /\ pc["consumer-group"] = "group" /\ todo["consumer-group"] = {} /\ ~Failed
  /\ pc' = [pc EXCEPT !["consumer-group"] = IF offset["consumer-group"] = 0 THEN "ok" ELSE "page"]
  /\ UNCHANGED <<world, selected, offset, todo, listed, faults, raw>>

\* Targets are listed in the goroutine of the upstreams, after them.
StartTargets ==
  /\ pc["target"] = "upstreams" /\ pc["upstream"] = "ok" /\ ~Failed
  /\ todo' = [todo EXCEPT !["target"] = listed["upstream"]]
  /\ pc' = [pc EXCEPT !["target"] = "each"]
  /\ UNCHANGED <<world, selected, offset, listed, faults, raw>>

\* The permissions are those of the roles that a list of their own has found.
StartPermissions ==
  /\ pc["rbac-endpoint-permission"] = "roles" /\ ~Failed
  /\ todo' = [todo EXCEPT !["rbac-endpoint-permission"] = OfKind("rbac-role", kong)]
  /\ pc' = [pc EXCEPT !["rbac-endpoint-permission"] = "each"]
  /\ UNCHANGED <<world, selected, offset, listed, faults, raw>>

\* A page of the targets of the first upstream, or all permissions of the first
\* role. The offset of an upstream with several pages stays when the next begins.
ListOfParent(k) ==
  /\ pc[k] = "each" /\ todo[k] # {} /\ ~Failed
  /\ LET parent == First(todo[k])
         S == {e \in After(OfParent(OfKind(k, kong), parent.id), offset[k]) : Selects(k, e)}
         page == IF k = "target" THEN FirstPage(S) ELSE S
     IN
     IF parent \notin kong
       THEN pc' = [pc EXCEPT ![k] = "error"] /\ UNCHANGED <<listed, offset, todo>>
       ELSE /\ TakePage(k, page, S)
            /\ todo' = [todo EXCEPT ![k] = IF page = S THEN @ \ {parent} ELSE @]
            /\ UNCHANGED pc
  /\ UNCHANGED <<world, selected, faults, raw>>

ParentsListed(k) ==
  /\ pc[k] = "each" /\ todo[k] = {} /\ ~Failed
  /\ pc' = [pc EXCEPT ![k] = "ok"]
  /\ UNCHANGED <<world, selected, offset, todo, listed, faults, raw>>

\* A request is answered 404 or 403, fails otherwise, or the caller cancels.
ListingFails(k) ==
  /\ pc[k] \in {"page", "group", "roles", "each"} /\ faults > 0 /\ ~Failed
  /\ faults' = faults - 1
  /\ \E outcome \in {listingOf[k].notFound, listingOf[k].forbidden, "error"} :
       /\ pc' = [pc EXCEPT ![k] = IF outcome = "error" THEN "error" ELSE "cut"]
       /\ listed' = [listed EXCEPT ![k] = IF outcome = "none" THEN {} ELSE @]
  /\ todo' = [todo EXCEPT ![k] = {}]
  /\ UNCHANGED <<world, selected, offset, raw>>

\* group.Wait: the first error has cancelled the other listings, which are
\* over when it returns.
DumpFails ==
  /\ raw = "none" /\ Failed
  /\ raw' = "error"
  /\ UNCHANGED <<world, selected, pc, offset, todo, listed, faults>>

DumpSucceeds ==
  /\ raw = "none" /\ ~Failed /\ \A k \in Listed : pc[k] \in Ended
  /\ raw' = "ok"
  /\ UNCHANGED <<world, selected, pc, offset, todo, listed, faults>>

DumpNext ==
  \/ Change \/ ListGroups \/ GetGroup \/ GroupsGot \/ StartTargets \/ StartPermissions
  \/ \E k \in Listed : ListPage(k) \/ ListOfParent(k) \/ ParentsListed(k) \/ ListingFails(k)
  \/ DumpFails \/ DumpSucceeds

\* The union of what the listings have found.
RawState == UNION {listed[k] : k \in Listed}

DumpSpec == DumpInit /\ [][DumpNext]_dumpVars

-----------------------------------------------------------------------------
(* Properties.                                                             *)

\* The types of the variables of the dump.
DumpTypeOK ==
  /\ lasting \subseteq kong /\ kong \subseteq ever
  /\ selected \in BOOLEAN
  /\ pc \in [Listed -> {"page", "group", "upstreams", "roles", "each"} \cup Ended]
  /\ offset \in [Listed -> Nat]
  /\ todo \in [Listed -> SUBSET ever] /\ listed \in [Listed -> SUBSET ever]
  /\ raw \in {"none", "ok", "error"} /\ faults \in 0..MaxFaults /\ changes \in 0..MaxChanges

\* What Get is to return of S: of what hangs on an upstream, a group or a
\* consumer, what hangs on selected ones.
Wanted(S, e) ==
  /\ e.kind \in Members \cup Listed
  /\ e.kind \in Listed => Selects(e.kind, e)
  /\ e.kind \in Members \cup {"target"} =>
       \A p \in S : (\E r \in e.refs : r.id = p.id) => (selected => p.tagged)

ListingOf(e) == IF e.kind \in Members THEN "consumer-group" ELSE e.kind

\* A successful Get returns, of each kind of which no listing was cut short,
\* what was there all the time and is selected, and nothing that never was,
\* although it reads page by page while the gateway changes. (Targets of more
\* than one page are another matter, see ReturnsAllEntities.)
DumpComplete ==
  raw = "ok" =>
    /\ RawState \subseteq ever
    /\ \A e \in lasting :
         /\ Wanted(lasting, e) /\ pc[ListingOf(e)] = "ok"
         /\ e.kind = "target" => Cardinality(OfKind("target", ever)) <= PageSize
         => e \in RawState

\* The comment on Get: it "queries all the entities using client and returns
\* all the entities in KongRawState".
ReturnsAllEntities ==
  (raw = "ok" /\ faults = MaxFaults /\ ~selected) => lasting \subseteq RawState
=============================================================================
