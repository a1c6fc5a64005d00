------------------------ MODULE ReconcileInvariants ------------------------
(***************************************************************************)
(* Why a run of Reconcile ends with the target state: what is left to do   *)
(* is always what the two states call for, and what the gateway holds is   *)
(* always what the in-memory copy will hold when the answers under way     *)
(* have been processed.                                                    *)
(*                                                                         *)
(* The assumptions say of which states this is so: of those that one of    *)
(* the last four excludes it is not.                                       *)
(***************************************************************************)
EXTENDS Reconcile

DependsOn(x, e) == e.id \in x.refs /\ x.kind \in KongCascades[e.kind]
PostCascadesTo(k) == {PostActionCascades[k][i] : i \in DOMAIN PostActionCascades[k]}

\* What the code deletes from its copy along with an entity, the gateway deletes.
ASSUME PostActionAssumption == \A k \in Kinds : PostCascadesTo(k) \subseteq KongCascades[k]

\* An entity may be deleted as a duplicate: its name or custom_id is in use with
\* another id, or it is a route, which goes with its service.
MayBeDuplicate(e, E) ==
  \/ e.kind = "route"
  \/ \E t \in E : /\ differOf[t.kind].duplicates /\ t.kind = e.kind /\ t.id # e.id
                 /\ (HasNameOf(e, t) \/ HasCustomOf(e, t))

\* Duplicates have no dependants that the gateway deletes and the
\* post-processing forgets.
ASSUME ForgottenAssumption ==
  \A f \in DOMAIN States : \A e, x \in UNION States[f] :
    DependsOn(x, e) /\ MayBeDuplicate(e, UNION States[f]) => x.kind \in PostCascadesTo(e.kind)

\* Nothing uses what may be deleted as a duplicate: the gateway would refuse it.
ASSUME UsedAssumption ==
  \A f \in DOMAIN States : \A e, x \in UNION States[f] :
    e.id \in x.uses => ~MayBeDuplicate(e, UNION States[f])

\* An entity that has a unique key of t has its id, or is found as its duplicate.
Findable(S, t) == \A c \in Taken(S, t) : c.id = t.id \/ c \in NameTwins(S, t)

\* A key that the target needs is not held by an entity that no differ deletes in
\* time.  It is where a consumer is found by its username and another one has its
\* custom_id, and where an entity without DuplicatesDeletes changes its id.
ASSUME FindableAssumption ==
  \A f \in DOMAIN States : \A S \in States[f] : \A t \in UNION States[f] : Findable(S, t)

\* Two entities of a kind have the same id if and only if its differ cannot tell
\* them apart: ids that are not in the file are looked up by the same keys.
ASSUME IdentityAssumption ==
  \A f \in DOMAIN States : \A e, g \in UNION States[f] : e.kind = g.kind =>
    LET differ == differOf[e.kind]
    IN /\ differ.deletes # "never"
       /\ KeyOf(differ.finds, e) = KeyOf(differ.finds, g) <=> e.id = g.id
       /\ KeyOf(differ.deletes, e) = KeyOf(differ.deletes, g) <=> e.id = g.id

-----------------------------------------------------------------------------
(* Where the producer is.                                                    *)

Entities == UNION States[family]

\* The stage of an operation for a kind is over; is the current one; has begun.
Passed(op, k) == \E i \in 1..Len(stages) : i < stage /\ stages[i].op = op /\ k \in stages[i].kinds
Doing(k) == stage \in 1..Len(stages) /\ k \in stages[stage].kinds
Begun(k) == Doing(k) /\ entered

\* The operation under way; at the end, the last one.
Phase == IF stage \in 1..Len(stages) THEN Op ELSE IF noDeletes THEN "createUpdate" ELSE "delete"

HasId(S, i) == \E e \in S : e.id = i
Waiting(e) == \E d \in todo : d.obj = e
UnderWay(e) == \E ev \in inFlight : ev.obj = e
Gone(e) == e \notin current /\ \A x \in current : ~DependsOn(x, e)
Planned(op, e) == [op |-> op, obj |-> e] \in plan

-----------------------------------------------------------------------------
(* What holds whatever has failed.                                           *)

Rests == {<<>>, <<"plugin">>, <<"filter-chain">>, <<"plugin", "filter-chain">>}

Event == [op : Ops, by : InPlay[family], obj : Entities,
          pc : {"queued", "answered"}, rest : Rests, victims : SUBSET Entities]

EventOK(ev) ==
  /\ ev \in Event /\ Doing(ev.obj.kind) /\ ev.victims \subseteq before \cup target
  /\ \A i \in 1..Len(ev.rest) : ev.rest[i] \in PostCascadesTo(ev.obj.kind)
  /\ ev.pc = "queued" => ev.rest = <<>> /\ ev.victims = {}
  /\ IF Phase = "createUpdate"
       THEN ev.op \in {"create", "update"} /\ ev.obj \in target /\ ev.rest = <<>> /\ ev.victims = {}
       ELSE ev.op = "delete" /\ ev.obj \in before

TodoOK(d) ==
  /\ Doing(d.obj.kind) /\ d.by \in InPlay[family]
  /\ CASE Phase = "deleteDuplicates" -> d \in DuplicatesDeletes(before)
       [] Phase = "createUpdate" -> d.obj \in target
       [] Phase = "delete" -> d.obj \in before \cup target

TypeInv ==
  /\ family \in DOMAIN States /\ target \in States[family]
  /\ dry \in BOOLEAN /\ noDeletes \in NoDeletes
  /\ kong \cup current \subseteq before \cup target /\ before \subseteq Entities
  /\ UniqueIds(before) /\ UniqueIds(kong) /\ UniqueIds(current)
  /\ stage \in 1..Len(stages) + 1 /\ entered \in BOOLEAN
  /\ ~entered \/ stage > Len(stages) => inFlight = {} /\ todo = {}
  /\ \A d \in todo : TodoOK(d)
  /\ \A ev \in inFlight : EventOK(ev)
  /\ alreadyDeleted \subseteq {e.id : e \in before}
  /\ \A c \in plan : IF c.op = "delete" THEN c.obj \in before
                                       ELSE c.op \in {"create", "update"} /\ c.obj \in target
  /\ errs \subseteq {"failed", "rejected", "post"} /\ halted \in BOOLEAN
  /\ halted => errs # {}
  /\ dry => kong = before

\* The gateway never has a key twice, and never a key of the target where the
\* differs do not see it.
KeysInv ==
  \A S \in {before, kong} :
    /\ \A e \in S : Taken(S, e) \subseteq {e}
    /\ \A t \in target : Findable(S, t)

-----------------------------------------------------------------------------
(* What holds while nothing has failed.                                      *)

\* No two events under way are about one entity, nor about one still to come.
EventsApart ==
  /\ \A ev, other \in inFlight : ev.obj.id = other.obj.id => ev = other
  /\ Phase # "deleteDuplicates" => \A ev \in inFlight, d \in todo : d.obj.id # ev.obj.id
  /\ Phase # "deleteDuplicates" => \A d, other \in todo : d.obj.id = other.obj.id => d = other

\* A delete under way: its entity is there, and of what the gateway has deleted
\* along with it, all that is there is found or will be looked up.
DeletesOK ==
  \A ev \in inFlight : ev.op = "delete" =>
    /\ ev.obj \in current
    /\ \A v \in ev.victims : v \in current /\ DependsOn(v, ev.obj)
    /\ ev.pc = "answered" =>
         \A x \in current : DependsOn(x, ev.obj) =>
           x \in ev.victims \/ \E i \in 1..Len(ev.rest) : ev.rest[i] = x.kind

\* The duplicates: what is found is deleted with its dependants, the rest stays.
DuplicatesInv ==
  Phase = "deleteDuplicates" =>
    /\ Remaining \subseteq current /\ current \subseteq before
    /\ \A ev \in inFlight : ev.obj.id \in alreadyDeleted /\ ev.obj \in DuplicatesOfRun
    /\ \A x \in before : x.id \in alreadyDeleted => Planned("delete", x)
    /\ \A x \in DuplicatesOfRun :
         \/ ~Passed("deleteDuplicates", x.kind) /\ ~Begun(x.kind)
         \/ Waiting(x)
         \/ Planned("delete", x) /\ (UnderWay(x) \/ Gone(x))
    /\ \A x \in DuplicatesOfRun :
         IF x.id \in alreadyDeleted THEN UnderWay(x) \/ Gone(x) ELSE x \in current

\* What is called for to bring about t.
TargetPlanned(t) ==
  IF HasId(Remaining, t.id) THEN t \in Remaining \/ Planned("update", t) ELSE Planned("create", t)

\* Creates and updates: each entity that remains is there until the target has
\* one of its id, and each target entity from when its event has ended.
CreatesInv ==
  Phase = "createUpdate" =>
    /\ current \subseteq Remaining \cup target
    /\ \A x \in Remaining : x \in current \/ \E t \in target \cap current : t.id = x.id
    /\ \A t \in target :
         \/ /\ Passed("createUpdate", t.kind) \/ (Begun(t.kind) /\ ~Waiting(t))
            /\ TargetPlanned(t) /\ (t \in current \/ UnderWay(t))
         \/ /\ ~Passed("createUpdate", t.kind) /\ (Begun(t.kind) => Waiting(t))
            /\ t \in current => t \in Remaining
    /\ \A t \in target : Passed("createUpdate", t.kind) => t \in current
    /\ \A ev \in inFlight : ev.op = "create" <=> ~HasId(current, ev.obj.id)

\* Deletes: the target is there, and of the rest what no stage has come to.
DeletesInv ==
  Phase = "delete" =>
    /\ target \subseteq current /\ current \subseteq Remaining \cup target
    /\ \A t \in target : TargetPlanned(t)
    /\ \A d \in todo : d.obj \in current
    /\ \A ev \in inFlight : ~HasId(target, ev.obj.id)
    /\ \A x \in Remaining : ~HasId(target, x.id) =>
         \/ ~Passed("delete", x.kind) /\ ~Begun(x.kind) /\ x \in current
         \/ ~Passed("delete", x.kind) /\ Begun(x.kind) /\ Waiting(x)
         \/ Planned("delete", x) /\ (UnderWay(x) \/ x \notin current)
    /\ \A x \in current : Passed("delete", x.kind) => x \in target

\* An answered event changes this entity of the copy when it is processed.
Hits(ev, x) == x.id = ev.obj.id \/ (ev.op = "delete" /\ DependsOn(x, ev.obj))
Answers == {ev \in inFlight : ev.pc = "answered"}

\* The gateway is ahead of the copy by the answers under way.
MirrorInv ==
  ~dry => kong = {x \in current : \A ev \in Answers : ~Hits(ev, x)}
                 \cup {ev.obj : ev \in {ev \in Answers : ev.op # "delete"}}

\* Nothing is planned that is not called for, and all duplicates are planned
\* before the first create.
PlanInv ==
  /\ plan \subseteq Expected
  /\ Phase # "deleteDuplicates" => \A x \in DuplicatesOfRun : Planned("delete", x)

\* Nothing fails because of something else than a request without an answer.
CauseInv == ~noDeletes => errs = {} \/ "failed" \in errs

RunState == /\ EventsApart /\ DeletesOK
            /\ DuplicatesInv /\ CreatesInv /\ DeletesInv
            /\ MirrorInv /\ PlanInv

RunInv == errs = {} => RunState

IInv == TypeInv /\ KeysInv /\ RunInv /\ CauseInv
=============================================================================
