--------------------------- MODULE RequestsProofs ---------------------------
(* The safety of Requests, for any contents, any services of the control    *)
(* plane and any number of answers that go wrong: what is under way, or may *)
(* still take effect, always leads from what the gateway holds to the       *)
(* target.                                                                  *)
EXTENDS Requests, TLAPS, SequenceTheorems

(***************************************************************************)
(* The tables: with which requests the kinds create and update.            *)
(***************************************************************************)
CreateShapes == {<<"put">>, <<"post">>}
UpdateShapes == {<<"put">>, <<"patch">>, <<"delete", "post">>}

\* The tables have a row for every kind.
LEMMA RowOfKind ==
  ASSUME NEW k \in Kinds
  PROVE  actionsOf[k] \in processor /\ actionsOf[k].kind = k
<1>1. \E a \in processor : a.kind = k
  BY SMTT(60) DEF Kinds, entityDiffers, processor, row, actions,
     servicePackageDiffer, rbacRoleDiffer, certificateDiffer, caCertificateDiffer,
     consumerDiffer, vaultDiffer, licenseDiffer, partialDiffer, keySetDiffer,
     clonedPluginDefinitionDiffer, customPluginDefinitionDiffer, consumerGroupDiffer,
     rbacEndpointPermissionDiffer, sniDiffer, serviceDiffer, upstreamDiffer, keyDiffer,
     keyAuthDiffer, hmacAuthDiffer, jwtAuthDiffer, basicAuthDiffer, oauth2CredDiffer,
     aclGroupDiffer, mtlsAuthDiffer, serviceVersionDiffer, routeDiffer, targetDiffer,
     consumerGroupConsumerDiffer, consumerGroupPluginDiffer, pluginDiffer,
     filterChainDiffer, documentDiffer, degraphqlRouteDiffer,
     graphqlRateLimitingCostDecorationDiffer,
     serviceCRUD, routeCRUD, upstreamCRUD, targetCRUD, certificateCRUD, caCertificateCRUD,
     sniCRUD, pluginCRUD, filterChainCRUD, consumerCRUD, consumerGroupCRUD,
     consumerGroupConsumerCRUD, consumerGroupPluginCRUD, keyAuthCRUD, hmacAuthCRUD,
     jwtAuthCRUD, basicAuthCRUD, oauth2CredCRUD, aclGroupCRUD, mtlsAuthCRUD, rbacRoleCRUD,
     rbacEndpointPermissionCRUD, vaultCRUD, licenseCRUD, partialCRUD, keyCRUD, keySetCRUD,
     clonedPluginDefinitionCRUD, customPluginDefinitionCRUD, degraphqlRouteCRUD,
     graphqlRateLimitingCostDecorationCRUD, servicePackageCRUD, documentCRUD,
     serviceVersionCRUD
<1> QED
  BY <1>1 DEF actionsOf

\* What a row of the table may be.
RowShape(a) ==
  /\ a.create \in CreateShapes /\ a.update \in UpdateShapes
  /\ a.kind = "service-version" => a.create = <<"put">> /\ a.update = <<"patch">>
  /\ a.update = <<"delete", "post">> => a.create = <<"post">>

LEMMA RowShapes == \A a \in processor : RowShape(a)
BY SMTT(60) DEF RowShape, CreateShapes, UpdateShapes, processor, actions,
     serviceCRUD, routeCRUD, upstreamCRUD, targetCRUD, certificateCRUD, caCertificateCRUD,
     sniCRUD, pluginCRUD, filterChainCRUD, consumerCRUD, consumerGroupCRUD,
     consumerGroupConsumerCRUD, consumerGroupPluginCRUD, keyAuthCRUD, hmacAuthCRUD,
     jwtAuthCRUD, basicAuthCRUD, oauth2CredCRUD, aclGroupCRUD, mtlsAuthCRUD, rbacRoleCRUD,
     rbacEndpointPermissionCRUD, vaultCRUD, licenseCRUD, partialCRUD, keyCRUD, keySetCRUD,
     clonedPluginDefinitionCRUD, customPluginDefinitionCRUD, degraphqlRouteCRUD,
     graphqlRateLimitingCostDecorationCRUD, servicePackageCRUD, documentCRUD,
     serviceVersionCRUD


Shaped == RowShape(actionsOf[kind]) /\ actionsOf[kind].kind = kind
LEMMA ShapeOfKind == kind \in Kinds => Shaped
BY RowOfKind, RowShapes DEF Shaped

\* An update replaces the entity by another one.
Replaces == actionsOf[kind].update = <<"delete", "post">>

\* Two requests after each other.
LEMMA OneAfterTheOther == ASSUME NEW a, NEW b PROVE <<a>> \o <<b>> = <<a, b>>
<1> DEFINE s == <<a>> \o <<b>>
<1>1. s \in Seq({a, b}) /\ <<a, b>> \in Seq({a, b})
  OBVIOUS
<1>2. Len(s) = 2 /\ s[1] = a /\ s[2] = b
  OBVIOUS
<1>3. \A i \in 1..2 : s[i] = <<a, b>>[i]
  BY <1>2
<1> HIDE DEF s
<1>4. s = <<a, b>>
  BY <1>1, <1>2, <1>3, SeqEqual
<1> QED
  BY <1>4 DEF s

-----------------------------------------------------------------------------
(* What entities are.                                                       *)

Record == [body : Body, relation : Relation \cup {NoRelation}]

\* Only a service version has a relation.
Proper(e) ==
  \/ e = Absent
  \/ e \in Record /\ e # Absent /\ (kind = "service-version" \/ e.relation = NoRelation)

LEMMA ProperEntities == \A e : e \in Entities(kind) <=> Proper(e)
<1> SUFFICES ASSUME NEW e PROVE e \in Entities(kind) <=> Proper(e)
  OBVIOUS
<1>1. CASE kind = "service-version"
  BY <1>1, RequestAssumption DEF Entities, Relations, Proper, Record
<1>2. CASE kind # "service-version"
  BY <1>2, RequestAssumption DEF Entities, Relations, Proper, Record
<1> QED
  BY <1>1, <1>2

-----------------------------------------------------------------------------
(* The inductive invariant.                                                 *)

\* The requests that may be left of an event.
Unsent ==
  { <<>>, <<"put">>, <<"post">>, <<"patch">>, <<"delete">>, <<"relate">>, <<"rerelate">>,
    <<"unrelate">>, <<"put", "relate">>, <<"patch", "relate">>, <<"patch", "rerelate">>,
    <<"patch", "unrelate">>, <<"delete", "post">> }

TypeInv ==
  /\ kind \in Kinds /\ idGiven \in BOOLEAN
  /\ Proper(target) /\ Proper(kong) /\ Proper(oldObj)
  /\ event \in {"none", "create", "update", "delete"}
  /\ pc \in {"diff", "send"} \cup Ended
  /\ requests \in Unsent
  /\ late \in RequestKinds \cup {"none"} /\ faults \in 0..MaxFaults

\* The body of what the gateway holds is that of the target.
BodyApplied == target # Absent /\ kong # Absent /\ kong.body = target.body

\* What one request about the relation needs.
RelationLeads(r) ==
  /\ r = "relate" => target.relation # NoRelation /\ kong.relation \in {NoRelation, target.relation}
  /\ r = "rerelate" => target.relation # NoRelation /\ kong.relation # NoRelation
  /\ r = "unrelate" => target.relation = NoRelation

\* A request that writes an entity with its last one in rest.
WriteLeads(r) ==
  /\ target # Absent
  /\ r = "patch" => kong # Absent
  /\ r = "post" /\ kong # Absent => kong = target
  /\ kong = Absent => target.relation = NoRelation
  /\ kong # Absent => kong.relation = target.relation

\* The requests that are left of the event lead to the target.
SendInv ==
  pc = "send" =>
    /\ requests = <<>> => Wanted(kong)
    /\ requests = <<"delete">> => target = Absent
    /\ requests \in {<<"put">>, <<"post">>, <<"patch">>} => WriteLeads(requests[1])
    /\ requests \in {<<"relate">>, <<"rerelate">>, <<"unrelate">>} =>
         BodyApplied /\ RelationLeads(requests[1])
    /\ requests = <<"put", "relate">> =>
         /\ target # Absent /\ target.relation # NoRelation
         /\ kong # Absent => kong.relation = NoRelation
    /\ requests \in {<<"patch", "relate">>, <<"patch", "rerelate">>, <<"patch", "unrelate">>} =>
         target # Absent /\ kong # Absent /\ RelationLeads(requests[2])
    /\ requests = <<"delete", "post">> => target # Absent /\ kong # target /\ Replaces
    /\ requests # <<>> /\ requests[1] \in {"put", "patch"} => ~Replaces

\* What may still take effect was sent for this target.
LateInv ==
  /\ late # "none" => pc \in {"failed", "diff"}
  /\ late \in {"put", "post", "patch"} => target # Absent
  /\ late \in {"put", "patch"} => ~Replaces
  /\ late = "delete" => target = Absent \/ (kong # target /\ Replaces)
  /\ late \in {"relate", "rerelate", "unrelate"} => BodyApplied
  /\ late \in {"relate", "rerelate"} => target.relation # NoRelation
  /\ late = "unrelate" => target.relation = NoRelation

\* What became of the dumped entity by one late request.
Written ==
  /\ target # Absent /\ kong # Absent /\ kong.body = target.body
  /\ Replaces => oldObj = Absent
  /\ kong.relation = IF oldObj = Absent THEN NoRelation ELSE oldObj.relation
Related ==
  /\ target # Absent /\ oldObj # Absent /\ kong = target /\ oldObj.body = target.body
  /\ target.relation = NoRelation => oldObj.relation # NoRelation
Deleted ==
  /\ kong = Absent
  /\ target = Absent \/ (oldObj # target /\ Replaces)

\* Until the differ looks at the dump, the gateway has changed by at most one
\* request.
DumpInv ==
  pc = "diff" =>
    /\ late # "none" => kong = oldObj
    /\ kong = oldObj \/ Written \/ Related \/ Deleted

IInv == TypeInv /\ SendInv /\ LateInv /\ DumpInv /\ DoneIsApplied /\ RefusedIsApplied

LEMMA TypeInvIsTypeOK == TypeInv => TypeOK
<1> SUFFICES ASSUME TypeInv PROVE TypeOK
  OBVIOUS
<1>1. requests \in Seq(RequestKinds) /\ Len(requests) <= 2
  <2>1. \/ requests = <<>>
        \/ \E a \in RequestKinds : requests = <<a>>
        \/ \E a, b \in RequestKinds : requests = <<a, b>>
    BY DEF TypeInv, Unsent, RequestKinds
  <2>2. CASE requests = <<>>
    BY <2>2
  <2>3. ASSUME NEW a \in RequestKinds, requests = <<a>>
        PROVE  requests \in Seq(RequestKinds) /\ Len(requests) <= 2
    BY <2>3
  <2>4. ASSUME NEW a \in RequestKinds, NEW b \in RequestKinds, requests = <<a, b>>
        PROVE  requests \in Seq(RequestKinds) /\ Len(requests) <= 2
    BY <2>4
  <2> QED
    BY <2>1, <2>2, <2>3, <2>4
<1>2. target \in Entities(kind) /\ kong \in Entities(kind) /\ oldObj \in Entities(kind)
  BY ProperEntities DEF TypeInv
<1> QED
  BY <1>1, <1>2 DEF TypeInv, TypeOK

LEMMA InitIInv == Init => IInv
<1> SUFFICES ASSUME Init PROVE IInv
  OBVIOUS
<1>1. Proper(target) /\ Proper(kong)
  BY ProperEntities DEF Init
<1>2. idGiven \in BOOLEAN
  BY DEF Init
<1>3. TypeInv
  BY <1>1, <1>2, RequestAssumption DEF Init, TypeInv, Unsent
<1> QED
  BY <1>3 DEF Init, IInv, SendInv, LateInv, DumpInv, DoneIsApplied, RefusedIsApplied

-----------------------------------------------------------------------------
(* The differ.                                                              *)

\* An entity is its body and its relation.
LEMMA SameFields ==
  ASSUME NEW d, NEW e, d \in Record, e \in Record, d.body = e.body, d.relation = e.relation
  PROVE  d = e
BY DEF Record

LEMMA DiffKeeps == ASSUME IInv, Diff PROVE IInv'
<1> USE DEF entity
<1>1. /\ pc = "diff" /\ late = "none" /\ UNCHANGED <<kind, idGiven, target, kong, oldObj, late, faults>>
      /\ Proper(target) /\ Proper(kong) /\ Proper(oldObj) /\ kind \in Kinds /\ Shaped
      /\ kong = oldObj \/ Written \/ Related \/ Deleted
      /\ Replaces' <=> Replaces
  BY ShapeOfKind DEF Diff, IInv, TypeInv, DumpInv, Replaces
<1>2. CASE target = Absent /\ oldObj # Absent /\ Begin("delete")
  <2>1. requests' = <<"delete">> /\ pc' = "send" /\ event' = "delete"
    BY <1>2 DEF Begin, RequestsOf
  <2> QED
    BY <1>1, <1>2, <2>1 DEF IInv, TypeInv, Unsent, SendInv, LateInv, DumpInv, DoneIsApplied,
       RefusedIsApplied, Proper
<1>3. CASE target # Absent /\ oldObj = Absent /\ Begin("create")
  <2>1. pc' = "send" /\ event' = "create" /\ actionsOf[kind].create \in CreateShapes
        /\ requests' = actionsOf[kind].create \o
                         (IF target.relation = NoRelation THEN <<>> ELSE <<"relate">>)
    BY <1>1, <1>3 DEF Begin, RequestsOf, Shaped, RowShape
  <2>2. CASE target.relation = NoRelation
    <3>1. requests' = actionsOf[kind].create
      BY <2>1, <2>2 DEF CreateShapes
    <3>2. kong # Absent => kong = target
      BY <1>1, <1>3, <2>2, SameFields DEF Written, Related, Deleted, Proper
    <3>3. requests' \in {<<"put">>, <<"post">>} /\ (Replaces => requests' = <<"post">>)
      BY <1>1, <2>1, <3>1 DEF CreateShapes, Shaped, RowShape, Replaces
    <3>4. SendInv'
      BY <1>1, <1>3, <2>2, <3>2, <3>3 DEF SendInv, WriteLeads
    <3> QED
      BY <1>1, <2>1, <3>3, <3>4 DEF IInv, TypeInv, Unsent, LateInv, DumpInv,
         DoneIsApplied, RefusedIsApplied, Proper
  <2>3. CASE target.relation # NoRelation
    <3>1. kind = "service-version"
      BY <1>1, <1>3, <2>3 DEF Proper
    <3>2. requests' = <<"put", "relate">>
      <4>1. actionsOf[kind].create = <<"put">>
        BY <1>1, <3>1 DEF Shaped, RowShape
      <4> QED
        BY <2>1, <2>3, <4>1, OneAfterTheOther
    <3>3. kong # Absent => kong.relation = NoRelation
      BY <1>1, <1>3 DEF Written, Related, Deleted
    <3>4. ~Replaces
      BY <1>1, <3>1 DEF Shaped, RowShape, Replaces
    <3>5. SendInv'
      BY <1>1, <1>3, <2>3, <3>2, <3>3, <3>4 DEF SendInv
    <3> QED
      BY <1>1, <2>1, <3>2, <3>5 DEF IInv, TypeInv, Unsent, LateInv, DumpInv,
         DoneIsApplied, RefusedIsApplied, Proper
  <2> QED
    BY <2>2, <2>3
<1>4. CASE /\ target # Absent /\ oldObj # Absent /\ Begin("update")
           /\ ~(oldObj.body = target.body /\ SameRelation(oldObj))
  <2>1. pc' = "send" /\ event' = "update"
    BY <1>4 DEF Begin
  <2>2. CASE kind # "service-version"
    <3>1. requests' = actionsOf[kind].update /\ requests' \in UpdateShapes
      BY <1>1, <1>4, <2>2 DEF Begin, RequestsOf, Shaped, RowShape
    <3>2. target.relation = NoRelation /\ oldObj.relation = NoRelation
          /\ (kong # Absent => kong.relation = NoRelation)
      BY <1>1, <1>4, <2>2 DEF Proper
    <3>3. ~Replaces => kong # Absent
      BY <1>1, <1>4 DEF Written, Related, Deleted, Proper
    <3>4. ~(kong = target /\ Replaces)
      BY <1>1, <1>4, <3>2, SameFields DEF Written, Related, Deleted, Proper, SameRelation
    <3>5. requests' \in UpdateShapes /\ (requests' = <<"delete", "post">> <=> Replaces)
      BY <3>1 DEF Replaces
    <3>6. SendInv'
      BY <1>1, <1>4, <3>2, <3>3, <3>4, <3>5 DEF SendInv, WriteLeads, UpdateShapes
    <3> QED
      BY <1>1, <2>1, <3>5, <3>6 DEF IInv, TypeInv, Unsent, LateInv, UpdateShapes,
         DumpInv, DoneIsApplied, RefusedIsApplied, Proper
  <2>3. CASE kind = "service-version"
    <3> DEFINE body == IF target.body = oldObj.body THEN <<>> ELSE <<"patch">>
               rel  == relationCRUD(oldObj)
    <3>0. actionsOf[kind].update = <<"patch">> /\ ~Replaces
      BY <1>1, <2>3 DEF Shaped, RowShape, Replaces
    <3>1. requests' = body \o rel
      BY <1>4, <2>3, <3>0 DEF Begin, RequestsOf
    <3>2. kong # Absent
      BY <1>1, <1>4, <3>0 DEF Written, Related, Deleted, Proper
    <3>3. target.body = oldObj.body => kong.body = target.body
      BY <1>1, <1>4, <3>2 DEF Written, Related, Deleted
    <3>4. /\ rel \in {<<>>, <<"relate">>, <<"rerelate">>, <<"unrelate">>}
          /\ rel # <<>> => RelationLeads(rel[1])
          /\ rel = <<>> => kong.relation = target.relation
      <4>1. kong.relation \in {oldObj.relation, target.relation}
        BY <1>1, <1>4, <3>2 DEF Written, Related, Deleted
      <4>2. kong.relation = oldObj.relation \/
              (kong.relation = target.relation /\
                (target.relation = NoRelation => oldObj.relation # NoRelation))
        BY <1>1, <1>4, <3>2 DEF Written, Related, Deleted
      <4> QED
        BY <4>1, <4>2 DEF relationCRUD, SameRelation, RelationLeads
    <3>5. CASE target.body = oldObj.body
      <4>1. requests' = rel
        BY <3>1, <3>4, <3>5
      <4>2. rel = <<>> => kong = target
        BY <1>1, <1>4, <3>2, <3>3, <3>4, <3>5, SameFields DEF Proper
      <4>3. requests' \in {<<>>, <<"relate">>, <<"rerelate">>, <<"unrelate">>}
        BY <3>4, <4>1
      <4> HIDE DEF rel
      <4>4. requests' = <<>> => Wanted(kong)'
        BY <1>1, <4>1, <4>2 DEF Wanted
      <4>5. requests' # <<>> => BodyApplied' /\ RelationLeads(requests[1])'
        BY <1>1, <1>4, <3>2, <3>3, <3>4, <3>5, <4>1 DEF BodyApplied, RelationLeads
      <4>6. SendInv'
        BY <4>3, <4>4, <4>5 DEF SendInv
      <4> QED
        BY <1>1, <2>1, <4>3, <4>6 DEF IInv, TypeInv, Unsent, LateInv, DumpInv, DoneIsApplied,
           RefusedIsApplied, Proper
    <3>6. CASE target.body # oldObj.body
      <4>1. requests' = <<"patch">> \o rel
        BY <3>1, <3>6
      <4> HIDE DEF rel
      <4>2. CASE rel = <<>>
        <5>1. requests' = <<"patch">>
          BY <4>1, <4>2
        <5> QED
          BY <1>1, <1>4, <2>1, <3>0, <3>2, <3>4, <4>2, <5>1 DEF IInv, TypeInv, Unsent, SendInv, LateInv,
             DumpInv, DoneIsApplied, RefusedIsApplied, Proper, WriteLeads, Replaces
      <4>3. ASSUME NEW r \in {"relate", "rerelate", "unrelate"}, rel = <<r>> PROVE IInv'
        <5>1. requests' = <<"patch", r>>
          BY <4>1, <4>3, OneAfterTheOther
        <5>2. RelationLeads(r)
          BY <3>4, <4>3
        <5>3. target' # Absent /\ kong' # Absent /\ RelationLeads(r)' /\ ~Replaces'
          BY <1>1, <1>4, <3>0, <3>2, <5>2 DEF RelationLeads
        <5>4. SendInv'
          BY <5>1, <5>3 DEF SendInv
        <5> QED
          BY <1>1, <2>1, <5>1, <5>4 DEF IInv, TypeInv, Unsent, LateInv, DumpInv,
             DoneIsApplied, RefusedIsApplied, Proper
      <4> QED
        BY <3>4, <4>2, <4>3
    <3> QED
      BY <3>5, <3>6
  <2> QED
    BY <2>2, <2>3
<1>5. CASE /\ pc' = "done" /\ UNCHANGED <<event, requests>>
           /\ ~(target = Absent /\ oldObj # Absent /\ differOf[kind].deletes # "never")
           /\ ~(target # Absent /\ oldObj = Absent)
           /\ ~(target # Absent /\ oldObj # Absent /\ ~(oldObj.body = target.body /\ SameRelation(oldObj)))
  <2>1. Wanted(kong)
    <3>1. CASE target = Absent /\ oldObj # Absent
      BY <1>5, <3>1 DEF Wanted
    <3>2. CASE target = Absent /\ oldObj = Absent
      BY <1>1, <3>2 DEF Wanted, Written, Related, Deleted
    <3>3. CASE target # Absent /\ oldObj # Absent
      <4>1. oldObj.body = target.body /\ SameRelation(oldObj)
        BY <1>5, <3>3
      <4>2. oldObj = target
        BY <1>1, <3>3, <4>1, SameFields DEF SameRelation, Proper
      <4>3. kong = target
        BY <1>1, <3>3, <4>2, SameFields DEF Written, Related, Deleted, Proper
      <4> QED
        BY <4>2, <4>3 DEF Wanted
    <3> QED
      BY <1>5, <3>1, <3>2, <3>3
  <2> QED
    BY <1>1, <1>5, <2>1 DEF IInv, TypeInv, SendInv, LateInv, DumpInv, DoneIsApplied, RefusedIsApplied,
       Proper, Ended, Wanted
<1> QED
  BY <1>2, <1>3, <1>4, <1>5 DEF Diff

-----------------------------------------------------------------------------
(* The requests and their answers.                                          *)

\* What the first request of those that are left is, and what follows it.
Split(r, rest) ==
  /\ Head(requests) = r /\ requests[1] = r
  /\ Tail(requests) = rest
  /\ requests = <<r>> \o rest /\ requests # <<>>

Writes == {"put", "post", "patch"}
RelationRequests == {"relate", "rerelate", "unrelate"}

LEMMA SendCases ==
  ASSUME TypeInv, Sending
  PROVE  \/ \E r \in Writes : requests = <<r>> /\ Split(r, <<>>)
         \/ \E r \in RelationRequests : requests = <<r>> /\ Split(r, <<>>)
         \/ requests = <<"delete">> /\ Split("delete", <<>>)
         \/ requests = <<"put", "relate">> /\ Split("put", <<"relate">>)
         \/ \E r \in RelationRequests : requests = <<"patch", r>> /\ Split("patch", <<r>>)
         \/ requests = <<"delete", "post">> /\ Split("delete", <<"post">>)
<1>1. \A r : requests = <<r>> => Split(r, <<>>)
  BY DEF Split
<1>2. ASSUME NEW r, NEW t, requests = <<r, t>> PROVE Split(r, <<t>>)
  <2>1. Head(<<r, t>>) = r /\ Tail(<<r, t>>) = <<t>> /\ <<r, t>>[1] = r /\ <<r, t>> # <<>>
    OBVIOUS
  <2> QED
    BY <1>2, <2>1, OneAfterTheOther DEF Split
<1>3. \/ \E r \in Writes \cup RelationRequests \cup {"delete"} : requests = <<r>>
      \/ requests = <<"put", "relate">> \/ requests = <<"delete", "post">>
      \/ \E r \in RelationRequests : requests = <<"patch", r>>
  BY DEF TypeInv, Unsent, Sending, Writes, RelationRequests
<1> QED
  BY <1>1, <1>2, <1>3

\* Writing makes the body that of the target, and keeps the relation.
LEMMA WriteEffect ==
  ASSUME TypeInv, NEW r \in Writes, target # Absent
  PROVE  /\ Effect(r) \in Record /\ Effect(r) # Absent /\ Effect(r).body = target.body
         /\ kong = Absent => Effect(r).relation = NoRelation
         /\ kong # Absent => Effect(r).relation = kong.relation
         /\ Proper(Effect(r))
BY RequestAssumption DEF TypeInv, Proper, Record, Effect, Writes

\* Relating changes the relation to that of the target, and nothing else.
LEMMA RelationEffect ==
  ASSUME TypeInv, NEW r \in RelationRequests, BodyApplied,
         r = "unrelate" => target.relation = NoRelation
  PROVE  Effect(r) = target
<1>1. Effect(r) \in Record /\ Effect(r).body = kong.body /\ Effect(r).relation = target.relation
  BY DEF TypeInv, Proper, Record, Effect, RelationRequests, BodyApplied
<1>2. target \in Record
  BY DEF TypeInv, Proper, BodyApplied
<1> QED
  BY <1>1, <1>2, SameFields DEF BodyApplied

LEMMA SucceedsKeeps == ASSUME IInv, RequestSucceeds PROVE IInv'
<1> USE DEF entity
<1>0. target' = target /\ kind' = kind
  BY DEF RequestSucceeds
<1>1. /\ pc = "send" /\ pc' = "send" /\ late = "none" /\ late' = "none"
      /\ kong' = Effect(Head(requests)) /\ requests' = Tail(requests)
      /\ UNCHANGED <<kind, idGiven, target, oldObj, event, faults>>
      /\ TypeInv /\ SendInv /\ Sending /\ (Replaces' <=> Replaces)
      /\ Replaces => kind # "service-version"
  <2>1. Shaped
    BY ShapeOfKind DEF IInv, TypeInv
  <2> QED
    BY <2>1 DEF RequestSucceeds, Sending, IInv, LateInv, Shaped, RowShape, Replaces
<1>2. SUFFICES Proper(kong') /\ requests' \in Unsent /\ SendInv'
  BY <1>1, <1>2 DEF IInv, TypeInv, LateInv, DumpInv, DoneIsApplied, RefusedIsApplied, Proper, Ended
<1>3. ASSUME NEW r \in Writes, requests = <<r>>, Split(r, <<>>)
      PROVE  Proper(kong') /\ requests' \in Unsent /\ SendInv'
  <2>1. WriteLeads(r)
    BY <1>1, <1>3 DEF SendInv, Split, Writes
  <2>2. kong' = target
    BY <1>1, <1>3, <2>1, WriteEffect, SameFields DEF Split, WriteLeads, TypeInv, Proper
  <2>3. requests' = <<>>
    BY <1>1, <1>3 DEF Split
  <2> QED
    BY <1>1, <2>2, <2>3 DEF TypeInv, Unsent, SendInv, Wanted
<1>4. ASSUME NEW r \in RelationRequests, requests = <<r>>, Split(r, <<>>)
      PROVE  Proper(kong') /\ requests' \in Unsent /\ SendInv'
  <2>1. BodyApplied /\ RelationLeads(r)
    BY <1>1, <1>4 DEF SendInv, Split, RelationRequests
  <2>2. kong' = target
    BY <1>1, <1>4, <2>1, RelationEffect DEF Split, RelationLeads
  <2>3. requests' = <<>>
    BY <1>1, <1>4 DEF Split
  <2> QED
    BY <1>1, <2>2, <2>3 DEF TypeInv, Unsent, SendInv, Wanted
<1>5. CASE requests = <<"delete">> /\ Split("delete", <<>>)
  <2>1. kong' = Absent /\ target = Absent /\ requests' = <<>>
    BY <1>1, <1>5 DEF Effect, Split, SendInv
  <2> QED
    BY <1>1, <2>1 DEF TypeInv, Unsent, SendInv, Wanted, Proper
<1>6. CASE requests = <<"put", "relate">> /\ Split("put", <<"relate">>)
  <2>1. target # Absent /\ target.relation # NoRelation /\ (kong # Absent => kong.relation = NoRelation)
    BY <1>1, <1>6 DEF SendInv
  <2>2. /\ Proper(kong') /\ kong' # Absent /\ kong'.body = target.body /\ kong'.relation = NoRelation
        /\ requests' = <<"relate">>
    BY <1>1, <1>6, <2>1, WriteEffect DEF Split, Writes, Proper
  <2> QED
    <3>1. requests' \in Unsent
      BY <2>2 DEF Unsent
    <3>2. BodyApplied' /\ RelationLeads("relate")'
      BY <1>0, <2>1, <2>2 DEF BodyApplied, RelationLeads
    <3>3. SendInv'
      BY <2>2, <3>2 DEF SendInv
    <3> QED
      BY <2>2, <3>1, <3>3
<1>7. ASSUME NEW r \in RelationRequests, requests = <<"patch", r>>, Split("patch", <<r>>)
      PROVE  Proper(kong') /\ requests' \in Unsent /\ SendInv'
  <2>1. target # Absent /\ kong # Absent /\ RelationLeads(r)
    BY <1>1, <1>7 DEF SendInv, RelationRequests
  <2>2. /\ Proper(kong') /\ kong' # Absent /\ kong'.body = target.body /\ kong'.relation = kong.relation
        /\ requests' = <<r>>
    BY <1>1, <1>7, <2>1, WriteEffect DEF Split, Writes, Proper
  <2> QED
    <3>1. requests' \in Unsent
      BY <2>2 DEF Unsent, RelationRequests
    <3>2. BodyApplied' /\ RelationLeads(r)'
      BY <1>0, <2>1, <2>2 DEF BodyApplied, RelationLeads, RelationRequests
    <3>3. SendInv'
      BY <2>2, <3>2 DEF SendInv, RelationRequests
    <3> QED
      BY <2>2, <3>1, <3>3
<1>8. CASE requests = <<"delete", "post">> /\ Split("delete", <<"post">>)
  <2>1. kong' = Absent /\ requests' = <<"post">> /\ target # Absent /\ kind # "service-version"
    BY <1>1, <1>8 DEF Effect, Split, SendInv
  <2>2. target.relation = NoRelation
    BY <1>1, <2>1 DEF TypeInv, Proper
  <2> QED
    <3>1. requests' \in Unsent
      BY <2>1 DEF Unsent
    <3>2. WriteLeads("post")'
      BY <1>0, <2>1, <2>2 DEF WriteLeads
    <3>3. SendInv'
      BY <2>1, <3>2 DEF SendInv
    <3> QED
      BY <2>1, <3>1, <3>3 DEF Proper
<1> QED
  BY <1>1, <1>3, <1>4, <1>5, <1>6, <1>7, <1>8, SendCases

\* A refused request had been carried out before.
LEMMA RefusedKeeps == ASSUME IInv, RequestRefused PROVE IInv'
<1> USE DEF entity
<1>1. /\ TypeInv /\ SendInv /\ Sending /\ pc = "send" /\ pc' = "refused" /\ late = "none"
      /\ UNCHANGED <<kind, idGiven, target, kong, oldObj, event, requests, late, faults>>
      /\ Refused(Head(requests))
  BY DEF IInv, RequestRefused, Sending, LateInv
<1>2. kong = target
  <2>1. ASSUME NEW r \in Writes, requests = <<r>>, Split(r, <<>>) PROVE kong = target
    BY <1>1, <2>1 DEF SendInv, Split, Writes, Refused, WriteLeads
  <2>2. ASSUME NEW r \in RelationRequests, requests = <<r>>, Split(r, <<>>) PROVE kong = target
    <3>1. BodyApplied /\ RelationLeads(r) /\ Refused(r)
      BY <1>1, <2>2 DEF SendInv, Split, RelationRequests
    <3>2. kong.relation = target.relation
      BY <3>1 DEF Refused, RelationLeads, RelationRequests, BodyApplied
    <3> QED
      BY <1>1, <3>1, <3>2, SameFields DEF BodyApplied, TypeInv, Proper
  <2>3. ~(requests = <<"delete">> /\ Split("delete", <<>>))
    BY <1>1 DEF Split, Refused
  <2>4. ~(requests = <<"put", "relate">> /\ Split("put", <<"relate">>))
    BY <1>1 DEF Split, Refused
  <2>5. ASSUME NEW r \in RelationRequests, requests = <<"patch", r>>, Split("patch", <<r>>)
        PROVE  FALSE
    BY <1>1, <2>5 DEF SendInv, Split, RelationRequests, Refused
  <2>6. ~(requests = <<"delete", "post">> /\ Split("delete", <<"post">>))
    BY <1>1 DEF Split, Refused
  <2> QED
    BY <1>1, <2>1, <2>2, <2>3, <2>4, <2>5, <2>6, SendCases
<1> QED
  BY <1>1, <1>2 DEF IInv, TypeInv, SendInv, LateInv, DumpInv, DoneIsApplied, RefusedIsApplied, Proper, Ended

\* A request that fails may take effect at once or later.
LEMMA FailsKeeps == ASSUME IInv, RequestFails PROVE IInv'
<1> USE DEF entity
<1>1. /\ TypeInv /\ SendInv /\ Sending /\ pc = "send" /\ pc' = "failed" /\ late = "none"
      /\ UNCHANGED <<kind, idGiven, target, oldObj, event, requests>>
      /\ faults' \in 0..MaxFaults /\ (Replaces' <=> Replaces)
      /\ Shaped
  BY ShapeOfKind, RequestAssumption DEF IInv, TypeInv, RequestFails, Sending, LateInv, Replaces
<1>2. SUFFICES Proper(kong') /\ late' \in RequestKinds \cup {"none"} /\ LateInv'
  BY <1>1, <1>2 DEF IInv, TypeInv, SendInv, DumpInv, DoneIsApplied, RefusedIsApplied, Proper, Ended
<1>3. CASE UNCHANGED <<kong, late>>
  BY <1>1, <1>3 DEF TypeInv, LateInv, Proper
<1>4. CASE ~Refused(Head(requests)) /\ kong' = Effect(Head(requests)) /\ UNCHANGED late
  <2>1. IInv
    OBVIOUS
  <2>2. Proper(Effect(Head(requests)))
    <3>1. ASSUME NEW r \in Writes, requests = <<r>>, Split(r, <<>>) PROVE Proper(Effect(r))
      BY <1>1, <3>1, WriteEffect DEF SendInv, Split, Writes, WriteLeads
    <3>2. ASSUME NEW r \in RelationRequests, requests = <<r>>, Split(r, <<>>) PROVE Proper(Effect(r))
      <4>1. BodyApplied /\ RelationLeads(r)
        BY <1>1, <3>2 DEF SendInv, Split, RelationRequests
      <4> QED
        BY <1>1, <4>1, RelationEffect DEF RelationLeads, TypeInv
    <3>3. Proper(Effect("delete"))
      BY DEF Proper, Effect
    <3>4. ASSUME requests = <<"put", "relate">> PROVE Proper(Effect("put"))
      BY <1>1, <3>4, WriteEffect DEF SendInv, Writes
    <3>5. ASSUME NEW r \in RelationRequests, requests = <<"patch", r>> PROVE Proper(Effect("patch"))
      BY <1>1, <3>5, WriteEffect DEF SendInv, Writes, RelationRequests
    <3> QED
      BY <1>1, <3>1, <3>2, <3>3, <3>4, <3>5, SendCases DEF Split
  <2> QED
    BY <1>1, <1>4, <2>2 DEF LateInv, Proper
<1>5. CASE late' = Head(requests) /\ UNCHANGED kong
  <2>1. ASSUME NEW r \in Writes, requests = <<r>>, Split(r, <<>>) PROVE LateInv'
    BY <1>1, <1>5, <2>1 DEF SendInv, Split, Writes, WriteLeads, LateInv
  <2>2. ASSUME NEW r \in RelationRequests, requests = <<r>>, Split(r, <<>>) PROVE LateInv'
    <3>1. BodyApplied /\ RelationLeads(r)
      BY <1>1, <2>2 DEF SendInv, Split, RelationRequests
    <3> QED
      BY <1>1, <1>5, <2>2, <3>1 DEF Split, LateInv, RelationLeads, BodyApplied, RelationRequests
  <2>3. ASSUME requests = <<"delete">>, Split("delete", <<>>) PROVE LateInv'
    BY <1>1, <1>5, <2>3 DEF SendInv, Split, LateInv
  <2>4. ASSUME requests = <<"put", "relate">>, Split("put", <<"relate">>) PROVE LateInv'
    BY <1>1, <1>5, <2>4 DEF SendInv, Split, LateInv
  <2>5. ASSUME NEW r \in RelationRequests, requests = <<"patch", r>>, Split("patch", <<r>>)
        PROVE  LateInv'
    BY <1>1, <1>5, <2>5 DEF SendInv, Split, LateInv, RelationRequests
  <2>6. ASSUME requests = <<"delete", "post">>, Split("delete", <<"post">>) PROVE LateInv'
    BY <1>1, <1>5, <2>6 DEF SendInv, Split, LateInv
  <2>7. Head(requests) \in RequestKinds
    BY <1>1, SendCases DEF Split, Writes, RelationRequests, RequestKinds
  <2> QED
    BY <1>1, <1>5, <2>1, <2>2, <2>3, <2>4, <2>5, <2>6, <2>7, SendCases DEF TypeInv, Proper
<1> QED
  BY <1>3, <1>4, <1>5 DEF RequestFails

\* It takes effect on what was dumped, if not before.
LEMMA LateKeeps == ASSUME IInv, LateEffect PROVE IInv'
<1> USE DEF entity
<1>1. /\ TypeInv /\ LateInv /\ DumpInv /\ late # "none" /\ late' = "none" /\ pc' = pc
      /\ pc \in {"failed", "diff"}
      /\ UNCHANGED <<kind, idGiven, target, oldObj, event, requests, faults>>
      /\ kong' = IF Refused(late) THEN kong ELSE Effect(late)
      /\ (Replaces' <=> Replaces)
  BY DEF IInv, LateEffect, Replaces
<1>2. SUFFICES /\ Proper(kong')
               /\ pc = "diff" => kong' = oldObj \/ Written' \/ Related' \/ Deleted'
  BY <1>1, <1>2 DEF IInv, TypeInv, SendInv, LateInv, DumpInv, DoneIsApplied, RefusedIsApplied, Proper, Ended
<1>3. pc = "diff" => kong = oldObj
  BY <1>1 DEF DumpInv
<1>4. CASE Refused(late)
  BY <1>1, <1>3, <1>4 DEF TypeInv, Proper
<1>5. CASE ~Refused(late) /\ late \in Writes
  <2>1. target # Absent /\ (late \in {"put", "patch"} => ~Replaces)
    BY <1>1, <1>5 DEF LateInv, Writes
  <2>2. late = "post" => kong = Absent
    BY <1>5 DEF Refused
  <2>3. /\ Proper(kong') /\ kong' # Absent /\ kong'.body = target.body
        /\ kong' .relation = IF kong = Absent THEN NoRelation ELSE kong.relation
    BY <1>1, <1>5, <2>1, WriteEffect DEF Proper
  <2> QED
    BY <1>1, <1>3, <1>5, <2>1, <2>2, <2>3 DEF Written, Writes
<1>6. CASE ~Refused(late) /\ late \in RelationRequests
  <2>1. BodyApplied /\ kong' = target
    BY <1>1, <1>6, RelationEffect DEF LateInv, RelationRequests
  <2>2. target.relation = NoRelation /\ kong.relation = NoRelation => kong = target
    BY <1>1, <2>1, SameFields DEF TypeInv, Proper, BodyApplied
  <2> QED
    BY <1>1, <1>3, <2>1, <2>2 DEF Related, BodyApplied, TypeInv, Proper
<1>7. CASE late = "delete"
  <2>1. kong' = Absent
    BY <1>1, <1>7 DEF Refused, Effect
  <2> QED
    BY <1>1, <1>3, <1>7, <2>1 DEF LateInv, Deleted, Proper
<1> QED
  BY <1>1, <1>4, <1>5, <1>6, <1>7 DEF TypeInv, Writes, RelationRequests, RequestKinds

LEMMA OthersKeep == ASSUME IInv, NeverTakesEffect \/ ActionReturns \/ Rerun \/ UNCHANGED vars PROVE IInv'
<1> USE DEF entity
<1>1. CASE NeverTakesEffect
  BY <1>1 DEF NeverTakesEffect, IInv, TypeInv, SendInv, LateInv, DumpInv, DoneIsApplied,
     RefusedIsApplied, Proper, Written, Related, Deleted, Replaces, RequestKinds
<1>2. CASE ActionReturns
  BY <1>2 DEF ActionReturns, IInv, TypeInv, SendInv, LateInv, DumpInv, DoneIsApplied,
     RefusedIsApplied, Proper, Wanted, Ended
<1>3. CASE Rerun
  BY <1>3 DEF Rerun, IInv, TypeInv, SendInv, LateInv, DumpInv, DoneIsApplied, RefusedIsApplied,
     Proper, Ended, BodyApplied, Replaces, Unsent
<1>4. CASE UNCHANGED vars
  BY <1>4 DEF vars, IInv, TypeInv, SendInv, LateInv, DumpInv, DoneIsApplied, RefusedIsApplied, Proper,
     Written, Related, Deleted, Replaces, BodyApplied, RelationLeads, WriteLeads, Wanted
<1> QED
  BY <1>1, <1>2, <1>3, <1>4

-----------------------------------------------------------------------------

\* What is left of an event, and what an earlier request may still do, lead
\* from what the gateway holds to the target.
THEOREM RequestInvariance == Spec => []IInv
<1>1. IInv /\ [Next]_vars => IInv'
  BY DiffKeeps, SucceedsKeeps, RefusedKeeps, FailsKeeps, LateKeeps, OthersKeep DEF Next
<1> QED
  BY <1>1, InitIInv, PTL DEF Spec

\* The variables of Requests keep their types.
THEOREM RequestTypesHold == Spec => []TypeOK
<1>1. IInv => TypeOK
  BY TypeInvIsTypeOK DEF IInv
<1> QED
  BY <1>1, RequestInvariance, PTL

\* An event that is reported as done is done in all its parts, whatever
\* earlier runs left half done or under way: for every kind.
THEOREM DoneMeansApplied == Spec => []DoneIsApplied
<1>1. IInv => DoneIsApplied
  BY DEF IInv
<1> QED
  BY <1>1, RequestInvariance, PTL

\* A request is refused only when nothing is missing.
THEOREM RefusalsAreSpurious == Spec => []RefusedIsApplied
<1>1. IInv => RefusedIsApplied
  BY DEF IInv
<1> QED
  BY <1>1, RequestInvariance, PTL

\* Nothing is sent for an entity that was dumped as wanted.
THEOREM SecondRunIsIdle == Spec => Idempotent
<1> DEFINE Idle == pc = "diff" /\ Wanted(oldObj)
                     /\ ~(idGiven /\ target # Absent /\ target.relation # NoRelation)
                   => pc' # "send"
<1>1. TypeInv /\ [Next]_vars => [Idle]_vars
  <2> SUFFICES ASSUME TypeInv, Next, pc = "diff", Wanted(oldObj),
                      ~(idGiven /\ target # Absent /\ target.relation # NoRelation)
               PROVE  pc' # "send"
    OBVIOUS
  <2>1. CASE Diff
    <3>1. oldObj = target /\ target # Absent => SameRelation(oldObj)
      BY DEF SameRelation, TypeInv
    <3> QED
      BY <2>1, <3>1 DEF Diff, Wanted, Begin
  <2>2. CASE LateEffect \/ NeverTakesEffect
    BY <2>2 DEF LateEffect, NeverTakesEffect
  <2> QED
    BY <2>1, <2>2 DEF Next, RequestSucceeds, RequestRefused, RequestFails, ActionReturns, Rerun,
       Sending, Ended
<1>2. IInv => TypeInv
  BY DEF IInv
<1> QED
  BY <1>1, <1>2, RequestInvariance, PTL DEF Spec, Idempotent
=============================================================================
