------------------------ MODULE MCReconcileFamilies ------------------------
(* Small gateways for Reconcile: what a gateway or a target file may hold,  *)
(* with unique names and with references to entities that are there.        *)
EXTENDS Reconcile, TLC

CONSTANTS id1, id2, rid1, rid2, A, B

entity(kind, id, name, refs) ==
  [kind |-> kind, id |-> id, name |-> {name}, custom |-> {}, refs |-> refs, uses |-> {}, body |-> 0]
nameless(e) == [e EXCEPT !.name = {}]
using(e, used) == [e EXCEPT !.uses = used]
\* An entity with an id that its name and references determine, as a file
\* without ids has it, and with the rest of it in two versions.
named(kind, name, refs) ==
  {[entity(kind, <<kind, name, refs>>, name, refs) EXCEPT !.body = b] : b \in {0, 1}}
ids(S) == {e.id : e \in S}

UpTo(n, E) == {S \in SUBSET E : Cardinality(S) <= n /\ Legal(S)}

services == {entity("service", i, n, {}) : i \in {id1, id2}, n \in {A, B}}
routes == {entity("route", r, "r", {s}) : r \in {rid1, rid2}, s \in {id1, id2}}
routed == services \cup routes

\* A service that may be replaced by its namesake, with routes and plugins.
replaced == {entity("service", i, "s", {}) : i \in {id1, id2}}
\* The plugins of a file without ids get the ids of the current state.
pluginOn(id) == entity("plugin", <<"plugin", id>>, <<"p", id>>, {id})
attached == replaced \cup routes \cup {pluginOn(i) : i \in {id1, id2, rid1, rid2}}

filtered == replaced \cup {entity("route", <<"route">>, "r", {s}) : s \in {id1, id2}}
            \cup {nameless(entity("filter-chain", <<"filters", i>>, A, {i})) : i \in {id1, id2, <<"route">>}}

consumers == {entity("consumer", i, n, {}) : i \in {id1, id2}, n \in {A, B}}
limited == consumers \cup UNION {named("plugin", "p", {i}) : i \in {id1, id2}}

\* Consumers of which one may have a custom_id: under a username that may change
\* with it, or under none.
aliased(i, n) == [entity("consumer", i, n, {}) EXCEPT !.custom = {"x"}]
aliases == {aliased(i, n) : i \in {id1, id2}, n \in {A, B}}
           \cup {nameless(aliased(<<"third">>, A))}
           \cup {entity("consumer", i, "c", {}) : i \in {id1, id2}} \cup {pluginOn(i) : i \in {id1, id2}}

\* Consumers that keep their names, with a key that may go from one to the
\* other, and an ACL group.
people == {entity("consumer", <<"consumer", n>>, n, {}) : n \in {A, B}}
credentials == people \cup {entity("key-auth", <<"key">>, "k", {i}) : i \in ids(people)}
               \cup UNION {named("acl-group", "g", {i}) : i \in ids(people)}

groups == {entity("consumer-group", <<"group", n>>, n, {}) : n \in {A, B}}
memberships == people \cup groups
               \cup {nameless(entity("consumer-group-consumer", <<"member", i, g>>, A, {i, g})) :
                     i \in ids(people), g \in ids(groups)}

upstreams == {entity("upstream", <<"upstream", n>>, n, {}) : n \in {A, B}}
balanced == upstreams \cup UNION {named("target", "t", {i}) : i \in ids(upstreams)}

certificates == {entity("certificate", i, i, {}) : i \in {id1, id2}}
secured == certificates \cup {entity("sni", <<"sni">>, "s", {i}) : i \in {id1, id2}}
authority == entity("ca-certificate", <<"ca">>, "ca", {})
trusting == certificates \cup {authority}
            \cup {using(entity("service", <<"service">>, "s", {}), u) : u \in {{}, {id1}, {id2}, {authority.id}}}

roles == {entity("rbac-role", <<"role", n>>, n, {}) : n \in {A, B}}
permitted == roles \cup UNION {named("rbac-endpoint-permission", <<"e", i>>, {i}) : i \in ids(roles)}

keySets == {entity("key-set", <<"key-set", n>>, n, {}) : n \in {A, B}}
keyed == keySets \cup {entity("key", <<"key">>, "k", r) : r \in {{}} \cup {{i} : i \in ids(keySets)}}

packages == {entity("service-package", <<"package", n>>, n, {}) : n \in {A, B}}
versions == {entity("service-version", <<"v", i>>, "v", {i}) : i \in ids(packages)}
backend == entity("service", <<"service">>, "s", {})
related == packages \cup versions \cup {using(v, {backend.id}) : v \in versions} \cup {backend}
published == packages \cup versions \cup UNION {named("document", "d", {i}) : i \in ids(versions)}
             \cup {entity("document", <<"d", i>>, "d", {i}) : i \in ids(packages)}

Gateways ==
  [ routed |-> UpTo(3, routed), attached |-> UpTo(3, attached), filtered |-> UpTo(3, filtered), limited |-> UpTo(3, limited),
    aliases |-> UpTo(3, aliases),
    credentials |-> UpTo(3, credentials), memberships |-> UpTo(4, memberships),
    balanced |-> UpTo(4, balanced), secured |-> UpTo(4, secured), trusting |-> UpTo(3, trusting),
    permitted |-> UpTo(3, permitted), keyed |-> UpTo(3, keyed), related |-> UpTo(4, related),
    published |-> UpTo(3, published) ]

\* Upstreams with an id and a name of their own.
Upstreams == {entity("upstream", i, n, {}) : i \in {id1, id2}, n \in {A, B}}
UpstreamStates == [upstreams |-> UpTo(2, Upstreams)]

\* Consumers that may exchange their names, with a key or none.
Consumers == consumers \cup {entity("key-auth", <<"key">>, "k", {c}) : c \in {id1, id2}}
ConsumerStates == [consumers |-> UpTo(3, Consumers)]

\* What the gateway's foreign keys delete along with an entity.
Cascades ==
  [k \in Kinds |->
     CASE k \in {"service", "route"} -> {"plugin", "filter-chain"}
       [] k = "consumer" -> {"plugin", "key-auth", "acl-group", "consumer-group-consumer"}
       [] k = "consumer-group" -> {"consumer-group-consumer"}
       [] k = "upstream" -> {"target"}
       [] k = "rbac-role" -> {"rbac-endpoint-permission"}
       [] k = "key-set" -> {"key"}
       [] k = "service-package" -> {"service-version", "document"}
       [] k = "service-version" -> {"document"}
       [] OTHER -> {}]

Symmetry == Permutations({id1, id2}) \cup Permutations({rid1, rid2}) \cup Permutations({A, B})
=============================================================================
