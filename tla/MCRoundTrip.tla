---------------------------- MODULE MCRoundTrip ----------------------------
(* Instances of RoundTrip: for every kind, a few entities and their parents. *)
EXTENDS RoundTripInvariants

\* Every kind has ids of its own. Of two consumers, one has a custom_id.
E(kind, n, name, parents, tagged) ==
  [kind |-> kind, id |-> 20 * buildPosition[kind] + n, name |-> name, tagged |-> tagged,
   custom |-> IF kind = "consumer" /\ n \in {1, 11} THEN n ELSE NoName,
   refs |-> {[kind |-> p.kind, id |-> p.id] : p \in parents}]

\* The kinds whose name may be missing.
Nameless == {"service", "route", "consumer", "filter-chain", "key", "key-set", "partial"}
NameFor(k, n, variant) == IF variant = "unnamed" /\ k \in Nameless THEN NoName ELSE n

\* A kind without references: two entities.
Two(k, v) ==
  { E(k, 11, NameFor(k, 1, v), {}, TRUE), E(k, 12, 2, {}, v # "untagged") }

\* A kind with one kind of parents: two children of two parents, of the same
\* name if it is unique under a parent only.
Family(p, k, v) ==
  LET pa == E(p, 1, NameFor(p, 1, v), {}, TRUE)
      pb == E(p, 2, 2, {}, v \notin {"untagged", "mixed"})
      n  == IF collectionOf[k].second = "prop" THEN 1 ELSE 2
  IN {pa, pb, E(k, 11, NameFor(k, 1, v), {pa}, v # "mixed"), E(k, 12, n, {pb}, v # "untagged")}

OneParent == {k \in Kinds : Cardinality(differOf[k].refs) = 1}
ParentKind(k) == CHOOSE p \in differOf[k].refs : TRUE

service(v) == E("service", 1, NameFor("service", 1, v), {}, TRUE)
route(v) == E("route", 2, NameFor("route", 1, v), {service(v)}, v # "untagged")

Plugins(v) ==
  { service(v), route(v), E("plugin", 11, 1, {route(v)}, TRUE),
    E("plugin", 12, 1, {service(v), route(v)}, TRUE) }
\* A route without a service, a plugin of it, and one of nothing.
Detached(v) ==
  LET r == E("route", 1, NameFor("route", 1, v), {}, v # "untagged")
  IN {r, E("plugin", 11, 1, {r}, TRUE), E("plugin", 12, 1, {}, v # "mixed")}
FilterChains(v) ==
  { service(v), route(v), E("filter-chain", 11, NameFor("filter-chain", 1, v), {service(v)}, TRUE),
    E("filter-chain", 12, 2, {route(v)}, TRUE) }
MembersOf(v) ==
  LET c == E("consumer", 1, NameFor("consumer", 1, v), {}, v # "untagged")
      g == E("consumer-group", 2, 1, {}, TRUE)
      h == E("consumer-group", 3, 2, {}, TRUE)
  IN {c, g, h, E("consumer-group-consumer", 11, NoName, {c, g}, TRUE)}
Documents(v) ==
  LET p == E("service-package", 1, 1, {}, TRUE)
      w == E("service-version", 2, 1, {p}, TRUE)
  IN {p, w, E("document", 11, 1, {p}, TRUE), E("document", 12, 1, {w}, TRUE)}

Universes ==
  UNION { {Two(k, v) : k \in {k \in Kinds : differOf[k].refs = {}} \cup {"key"}}
          \cup {Family(ParentKind(k), k, v) : k \in OneParent}
          \cup {Plugins(v), Detached(v), FilterChains(v), MembersOf(v), Documents(v)}
          : v \in {"named", "unnamed", "untagged", "mixed"} }

Closed(S) == \A e \in S : \A r \in e.refs : \E p \in S : p.id = r.id

AllKinds == UNION {{S \in SUBSET U : S # {} /\ Closed(S)} : U \in Universes}

\* Two upstreams and their targets.
TwoUpstreams ==
  LET a == E("upstream", 1, 1, {}, TRUE)
      b == E("upstream", 2, 2, {}, TRUE)
  IN {{a, b, E("target", 13, 1, {a}, TRUE), E("target", 14, 2, {a}, TRUE),
       E("target", 11, 1, {b}, TRUE)}}
=============================================================================
