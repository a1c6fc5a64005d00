------------------------------ MODULE Requests ------------------------------
(***************************************************************************)
(* The CRUD actions of pkg/types: the requests with which each kind carries *)
(* out an event, one row for each kind, and what becomes of one entity when *)
(* they are answered badly or late, left half done, and taken up by the     *)
(* next synchronisation.                                                    *)
(*                                                                         *)
(* An entity here has a body and, if it is a service version, a relation to *)
(* a service of the control plane, which has requests of its own.           *)
(***************************************************************************)
EXTENDS EntityKinds, Integers

CONSTANTS
  Body,        \* contents of an entity
  Relation,    \* services of the control plane a version may be related to
  Absent,      \* the entity is not there
  NoRelation,  \* the version is not related to a service
  MaxFaults    \* how many answers go wrong

ASSUME RequestAssumption ==
  /\ MaxFaults \in Nat /\ NoRelation \notin Relation
  /\ Absent \notin [body : Body, relation : Relation \cup {NoRelation}]

(***************************************************************************)
(* The requests are                                                        *)
(*   put       replaces the entity of that id, or makes it                 *)
(*   post      makes the entity, and is refused if it is there             *)
(*   patch     changes the entity, and is refused if it is not there       *)
(*   delete    removes the entity, if it is there, and what depends on it  *)
(*   relate, rerelate, unrelate   the same for a relation                  *)
(* The Create of a client is a PUT wherever the entity has an id, which it *)
(* always has here, unless the entity is made of references only.          *)
(***************************************************************************)
RequestKinds == {"put", "post", "patch", "delete", "relate", "rerelate", "unrelate"}

actions(k, create, update) == [kind |-> k, create |-> create, update |-> update]

serviceCRUD == actions("service", <<"put">>, <<"put">>)
routeCRUD == actions("route", <<"put">>, <<"put">>)
upstreamCRUD == actions("upstream", <<"put">>, <<"put">>)
targetCRUD == actions("target", <<"put">>, <<"patch">>)
certificateCRUD == actions("certificate", <<"put">>, <<"put">>)
caCertificateCRUD == actions("ca-certificate", <<"put">>, <<"put">>)
sniCRUD == actions("sni", <<"put">>, <<"put">>)
pluginCRUD == actions("plugin", <<"put">>, <<"put">>)
filterChainCRUD == actions("filter-chain", <<"put">>, <<"put">>)
consumerCRUD == actions("consumer", <<"put">>, <<"put">>)
consumerGroupCRUD == actions("consumer-group", <<"put">>, <<"patch">>)

\* Mutant: the new membership is made before the old one is removed.
memberCRUDSwapped ==
  actions("consumer-group-consumer", <<"post">>, <<"post", "delete">>)
consumerGroupConsumerCRUD ==
  actions("consumer-group-consumer", <<"post">>, <<"delete", "post">>)
consumerGroupPluginCRUD == actions("consumer-group-plugin", <<"put">>, <<"put">>)
keyAuthCRUD == actions("key-auth", <<"put">>, <<"put">>)
hmacAuthCRUD == actions("hmac-auth", <<"put">>, <<"put">>)
jwtAuthCRUD == actions("jwt-auth", <<"put">>, <<"put">>)
basicAuthCRUD == actions("basic-auth", <<"put">>, <<"put">>)
oauth2CredCRUD == actions("oauth2-cred", <<"put">>, <<"put">>)
aclGroupCRUD == actions("acl-group", <<"put">>, <<"put">>)
mtlsAuthCRUD == actions("mtls-auth", <<"put">>, <<"put">>)
rbacRoleCRUD == actions("rbac-role", <<"put">>, <<"put">>)
rbacEndpointPermissionCRUD ==
  actions("rbac-endpoint-permission", <<"post">>, <<"patch">>)
vaultCRUD == actions("vault", <<"put">>, <<"put">>)
\* The Syncer skips licenses in Konnect, where these actions do nothing.
licenseCRUD == actions("license", <<"put">>, <<"put">>)
partialCRUD == actions("partial", <<"put">>, <<"put">>)
keyCRUD == actions("key", <<"put">>, <<"put">>)
keySetCRUD == actions("key-set", <<"put">>, <<"put">>)
clonedPluginDefinitionCRUD == actions("cloned-plugin", <<"put">>, <<"patch">>)
customPluginDefinitionCRUD == actions("custom-plugin", <<"put">>, <<"patch">>)
degraphqlRouteCRUD == actions("degraphql_routes", <<"put">>, <<"patch">>)
graphqlRateLimitingCostDecorationCRUD ==
  actions("graphql_ratelimiting_cost_decorations", <<"put">>, <<"patch">>)
servicePackageCRUD == actions("service-package", <<"post">>, <<"patch">>)
documentCRUD == actions("document", <<"put">>, <<"put">>)
serviceVersionCRUD == actions("service-version", <<"put">>, <<"patch">>)

processor ==
  { serviceCRUD, routeCRUD, upstreamCRUD, targetCRUD, certificateCRUD, caCertificateCRUD,
    sniCRUD, pluginCRUD, filterChainCRUD, consumerCRUD, consumerGroupCRUD,
    consumerGroupConsumerCRUD, consumerGroupPluginCRUD, keyAuthCRUD, hmacAuthCRUD,
    jwtAuthCRUD, basicAuthCRUD, oauth2CredCRUD, aclGroupCRUD, mtlsAuthCRUD, rbacRoleCRUD,
    rbacEndpointPermissionCRUD, vaultCRUD, licenseCRUD, partialCRUD, keyCRUD, keySetCRUD,
    clonedPluginDefinitionCRUD, customPluginDefinitionCRUD, degraphqlRouteCRUD,
    graphqlRateLimitingCostDecorationCRUD, servicePackageCRUD, documentCRUD,
    serviceVersionCRUD }

actionsOf == [k \in Kinds |-> CHOOSE a \in processor : a.kind = k]

VARIABLES
  kind,
  idGiven,   \* the file gives the id of the version, so its relation has none
  target,    \* the entity of the target state, or Absent
  kong,      \* what the gateway holds of it
  oldObj,    \* what was dumped of it
  event,     \* the operation of the event, or "none"
  pc,        \* control point of the run
  requests,  \* what is left of the requests of the event
  late,      \* a request without an answer that has still to take effect
  faults     \* how many answers have still to go wrong

entity == <<kind, idGiven, target>>
vars == <<entity, kong, oldObj, event, pc, requests, late, faults>>

Relations(k) == IF k = "service-version" THEN Relation \cup {NoRelation} ELSE {NoRelation}
Entities(k) == [body : Body, relation : Relations(k)] \cup {Absent}

Init ==
  /\ kind \in Kinds
  /\ idGiven \in (IF kind = "service-version" THEN BOOLEAN ELSE {FALSE})
  /\ target \in Entities(kind) /\ kong \in Entities(kind)
  /\ oldObj = kong
  /\ event = "none" /\ pc = "diff" /\ requests = <<>> /\ late = "none"
  /\ faults = MaxFaults

\* Mutant: relations are compared by address.
SameRelationByAddress(old) == target.relation = NoRelation /\ old.relation = NoRelation

\* A relation with an id never equals one without.
SameRelation(old) ==
  target.relation = old.relation /\ (target.relation = NoRelation \/ ~idGiven)

\* Mutants: an update looks after the relation only if there is one; another
\* relation is made in two requests.
relationCRUDOfExisting(old) ==
  CASE target.relation = NoRelation /\ old.relation # NoRelation -> <<"unrelate">>
    [] old.relation # NoRelation /\ ~SameRelation(old) -> <<"rerelate">>
    [] OTHER -> <<>>

relationCRUDInTwo(old) ==
  CASE target.relation # NoRelation /\ old.relation = NoRelation -> <<"relate">>
    [] target.relation = NoRelation /\ old.relation # NoRelation -> <<"unrelate">>
    [] OTHER -> IF SameRelation(old) THEN <<>> ELSE <<"unrelate", "relate">>

relationCRUD(old) ==
  CASE target.relation # NoRelation /\ old.relation = NoRelation -> <<"relate">>
    [] target.relation = NoRelation /\ old.relation # NoRelation -> <<"unrelate">>
    [] target.relation # NoRelation /\ old.relation # NoRelation ->
         IF SameRelation(old) THEN <<>> ELSE <<"rerelate">>
    [] OTHER -> <<>>

\* Mutant: a version is created without its relation.
RequestsOfEntity(op) ==
  CASE op = "delete" -> <<"delete">>
    [] op = "create" -> actionsOf[kind].create
    [] op = "update" /\ kind = "service-version" ->
         (IF target.body = oldObj.body THEN <<>> ELSE actionsOf[kind].update) \o relationCRUD(oldObj)
    [] OTHER -> actionsOf[kind].update

\* The requests of the event, from the first on.
RequestsOf(op) ==
  CASE op = "delete" -> <<"delete">>
    [] op = "create" ->
         actionsOf[kind].create \o (IF target.relation = NoRelation THEN <<>> ELSE <<"relate">>)
    [] op = "update" /\ kind = "service-version" ->
         (IF target.body = oldObj.body THEN <<>> ELSE actionsOf[kind].update) \o relationCRUD(oldObj)
    [] OTHER -> actionsOf[kind].update

Begin(op) ==
  /\ event' = op /\ requests' = RequestsOf(op)
  /\ pc' = "send"

\* The differ of the kind, and the event it emits from what was dumped.
Diff ==
  /\ pc = "diff" /\ late = "none"
  /\ CASE target = Absent /\ oldObj # Absent /\ differOf[kind].deletes # "never" -> Begin("delete")
       [] target # Absent /\ oldObj = Absent -> Begin("create")
       [] target # Absent /\ oldObj # Absent
            /\ ~(oldObj.body = target.body /\ SameRelation(oldObj)) -> Begin("update")
       [] OTHER -> pc' = "done" /\ UNCHANGED <<event, requests>>
  /\ UNCHANGED <<entity, kong, oldObj, late, faults>>

-----------------------------------------------------------------------------
(* The gateway or Konnect, and what can go wrong with an answer.            *)

Refused(r) ==
  CASE r = "post" -> kong # Absent
    [] r \in {"patch", "unrelate"} -> kong = Absent
    [] r = "relate" -> kong = Absent \/ kong.relation # NoRelation
    [] r = "rerelate" -> kong = Absent \/ kong.relation = NoRelation
    [] OTHER -> FALSE

Effect(r) ==
  CASE r \in {"put", "post", "patch"} ->
         [body |-> target.body, relation |-> IF kong = Absent THEN NoRelation ELSE kong.relation]
    [] r = "delete" -> Absent
    [] r \in {"relate", "rerelate"} -> [kong EXCEPT !.relation = target.relation]
    [] r = "unrelate" -> [kong EXCEPT !.relation = NoRelation]

Sending == pc = "send" /\ requests # <<>>

RequestSucceeds ==
  /\ Sending /\ ~Refused(Head(requests))
  /\ kong' = Effect(Head(requests))
  /\ requests' = Tail(requests)
  /\ UNCHANGED <<entity, oldObj, event, pc, late, faults>>

\* A conflict or a missing entity.
RequestRefused ==
  /\ Sending /\ Refused(Head(requests))
  /\ pc' = "refused"
  /\ UNCHANGED <<entity, kong, oldObj, event, requests, late, faults>>

\* An error, which ends the event whatever its status code (see SolveReport),
\* or no answer, because the context was cancelled or the connection lost.
\* The request may have had its effect, or have it later.
RequestFails ==
  /\ Sending /\ faults > 0
  /\ faults' = faults - 1
  /\ \/ UNCHANGED <<kong, late>>
     \/ ~Refused(Head(requests)) /\ kong' = Effect(Head(requests)) /\ UNCHANGED late
     \/ late' = Head(requests) /\ UNCHANGED kong
  /\ pc' = "failed"
  /\ UNCHANGED <<entity, oldObj, event, requests>>

\* The gateway carries out what nobody waits for any more: after the next dump
\* at the latest, if it does it at all.
LateEffect ==
  /\ late # "none" /\ pc \in {"failed", "diff"}
  /\ kong' = IF Refused(late) THEN kong ELSE Effect(late)
  /\ late' = "none"
  /\ UNCHANGED <<entity, oldObj, event, pc, requests, faults>>

NeverTakesEffect ==
  /\ late # "none" /\ pc \in {"failed", "diff"}
  /\ late' = "none"
  /\ UNCHANGED <<entity, kong, oldObj, event, pc, requests, faults>>

\* The action returns its result, which is then post-processed.
ActionReturns ==
  /\ pc = "send" /\ requests = <<>>
  /\ pc' = "done"
  /\ UNCHANGED <<entity, kong, oldObj, event, requests, late, faults>>

Ended == {"done", "failed", "refused"}

\* The user synchronises the same target again, from a new dump.
Rerun ==
  /\ pc \in Ended
  /\ oldObj' = kong
  /\ event' = "none" /\ requests' = <<>>
  /\ pc' = "diff"
  /\ UNCHANGED <<entity, kong, late, faults>>

Next ==
  \/ Diff \/ RequestSucceeds \/ RequestRefused \/ RequestFails
  \/ LateEffect \/ NeverTakesEffect \/ ActionReturns \/ Rerun

\* Requests are answered and the user does not give up; only MaxFaults
\* answers go wrong.
Spec == Init /\ [][Next]_vars
FairSpec == Spec /\ WF_vars(Next)

-----------------------------------------------------------------------------
(* Properties.                                                             *)

\* The types of the variables.
TypeOK ==
  /\ kind \in Kinds /\ idGiven \in BOOLEAN
  /\ target \in Entities(kind) /\ kong \in Entities(kind) /\ oldObj \in Entities(kind)
  /\ event \in {"none", "create", "update", "delete"}
  /\ pc \in {"diff", "send"} \cup Ended
  /\ requests \in Seq(RequestKinds) /\ Len(requests) <= 2
  /\ late \in RequestKinds \cup {"none"} /\ faults \in 0..MaxFaults

\* What the differ of the kind never deletes stays.
Wanted(e) == e = target \/ (target = Absent /\ differOf[kind].deletes = "never")

\* An event that handleEvent reports as done is done in all its parts, after
\* whatever an earlier run had left half done or under way.
DoneIsApplied == pc = "done" => Wanted(kong)

\* A request is refused only when one of an earlier run, whose effect came
\* after the dump, has already carried the event out: the error is spurious,
\* nothing is missing.
RefusedIsApplied == pc = "refused" => kong = target

\* Nothing is sent for an entity that was dumped as wanted, so that a run after
\* a successful one does nothing (except that the relation of a version with an
\* id of its own never equals the dumped one, and is updated in every run).
Idempotent ==
  [][ pc = "diff" /\ Wanted(oldObj) /\ ~(idGiven /\ target # Absent /\ target.relation # NoRelation)
      => pc' # "send" ]_vars

\* However requests fail, synchronising again and again ends with the target,
\* no half-done event standing in its way.
Recovers == <>[]Wanted(kong)
=============================================================================
