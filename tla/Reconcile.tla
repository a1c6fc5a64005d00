----------------------------- MODULE Reconcile -----------------------------
(***************************************************************************)
(* What a synchronisation does to the data: the differs of pkg/types       *)
(* compare the current state (the in-memory copy of the gateway) with the  *)
(* target state, the events they emit are sent to the gateway, and the     *)
(* post-processing of every answer brings the in-memory copy up to date    *)
(* while the producer goes on reading it.                                  *)
(*                                                                         *)
(* The engine is taken at the level of StagedSync, which Syncer is proved  *)
(* to implement: events of one stage are processed in any order and at the *)
(* same time, a stage starts when those of the last one have ended, and    *)
(* after a failure the rest is abandoned.                                  *)
(***************************************************************************)
EXTENDS DependencyOrder, Collections

CONSTANTS
  States,        \* for each family of kinds, the sets of entities of EntityKinds that a
                 \* gateway or a target may hold
  KongCascades,  \* the dependants the gateway deletes along with an entity
  NoDeletes      \* the values of noDeletes to consider

\* The kinds in play, family by family.
InPlay == [f \in DOMAIN States |-> {e.kind : e \in UNION States[f]}]

\* The references of the gateway's data model: an entity belongs to entities of
\* certain kinds, to one of a kind, and uses any number of others.
WellReferenced(E) ==
  \A x, e \in E :
    /\ e.id \in x.refs =>
         /\ e.kind \in differOf[x.kind].refs
         /\ \A g \in E : g.id \in x.refs /\ g.kind = e.kind => g.id = e.id
    /\ e.id \in x.uses => e.kind \in differOf[x.kind].uses

UniqueIds(S) == \A e, g \in S : e.id = g.id => e = g

\* A set of entities without a duplicate and without a dangling reference.
Legal(S) ==
  /\ UniqueIds(S)
  /\ \A e \in S : Taken(S, e) \subseteq {e}
  /\ \A e \in S : \A i \in e.refs \cup e.uses : \E g \in S : g.id = i

ASSUME FamiliesAssumption == \A f \in DOMAIN States : InPlay[f] # {} /\ InPlay[f] \subseteq Kinds
ASSUME LegalAssumption == \A f \in DOMAIN States : \A S \in States[f] : Legal(S)
ASSUME ReferencesAssumption == \A f \in DOMAIN States : WellReferenced(UNION States[f])
\* Ids are unique across the kinds.
ASSUME IdsAssumption ==
  \A f \in DOMAIN States : \A e, g \in UNION States[f] : e.id = g.id => e.kind = g.kind
ASSUME CascadeAssumption == KongCascades \in [Kinds -> SUBSET Kinds]
ASSUME NoDeletesAssumption == NoDeletes \subseteq BOOLEAN

VARIABLES
  family,     \* which kinds there are, of those in States
  before,     \* the gateway at the start, and the dump of it
  target,     \* targetState
  dry, noDeletes,
  kong,       \* what the gateway holds
  current,    \* currentState
  stage, entered,
  todo,       \* what the running differ has read and not yet looked at
  alreadyDeleted,
  inFlight,   \* the events between queueEvent and eventCompleted
  plan,       \* history: the changes of all events queued
  errs,       \* "failed", "rejected" or "post"
  halted      \* stopChan is closed

input == <<family, before, target, dry, noDeletes>>
producer == <<stage, entered, todo, alreadyDeleted>>
vars == <<input, producer, kong, current, inFlight, plan, errs, halted>>

stagesOf == [withDeletes \in BOOLEAN |-> stagesOfDiff(withDeletes)]
stages == stagesOf[~noDeletes]

\* The stages of diff() that have something to do with the kinds in play; the
\* others are passed over.
stagesInPlay ==
  [f \in DOMAIN States |->
     [withDeletes \in BOOLEAN |->
        {i \in 1..Len(stagesOf[withDeletes]) :
           stagesOf[withDeletes][i].kinds \cap InPlay[f] # {}}]]

\* Where the producer goes after stage i: to the next of them, or to the end.
Following(i) ==
  LET inPlay == stagesInPlay[family][~noDeletes]
  IN {j \in inPlay \cup {Len(stages) + 1} : i < j /\ \A h \in inPlay : i < h => j <= h}

inOrder == [withDeletes \in BOOLEAN |-> InOrder(stagesOf[withDeletes])]

-----------------------------------------------------------------------------
(* DuplicatesDeletes: entities of the current state that have the name of  *)
(* a target entity and another id; with a service go its routes.  All are  *)
(* collected before the first of them is queued.                           *)

\* A consumer without a username is looked up by its id.
HasNameOf(c, t) == IF t.name = {} THEN c.id = t.id ELSE c.name = t.name
HasCustomOf(c, t) == t.custom # {} /\ c.custom = t.custom

\* The entity that the name finds; if there is none, the consumer that the
\* custom_id finds.  It is a duplicate if it has another id.
NameTwins(S, t) ==
  LET named == {c \in OfKind(t.kind, S) : HasNameOf(c, t)}
      found == IF named # {} THEN named ELSE {c \in OfKind(t.kind, S) : HasCustomOf(c, t)}
  IN IF differOf[t.kind].duplicates THEN {c \in found : c.id # t.id} ELSE {}

\* Mutant: the custom_id of a consumer is not looked up.
DuplicatesByName(S) ==
  UNION {{[by |-> t.kind, obj |-> c] : c \in {c \in NameTwins(S, t) : HasNameOf(c, t)}}
         \cup {[by |-> "service", obj |-> r] :
               r \in {r \in OfKind("route", S) :
                        t.kind = "service" /\ \E c \in NameTwins(S, t) : c.id \in r.refs}}
         : t \in target}

DuplicatesDeletes(S) ==
  UNION {{[by |-> t.kind, obj |-> c] : c \in NameTwins(S, t)}
         \cup {[by |-> "service", obj |-> r] :
               r \in {r \in OfKind("route", S) :
                        t.kind = "service" /\ \E c \in NameTwins(S, t) : c.id \in r.refs}}
         : t \in target}

-----------------------------------------------------------------------------
Init ==
  /\ family \in DOMAIN States
  /\ before \in States[family] /\ target \in States[family]
  /\ dry \in BOOLEAN /\ noDeletes \in NoDeletes
  /\ kong = before /\ current = before
  /\ stage \in Following(0) /\ entered = FALSE /\ todo = {} /\ alreadyDeleted = {}
  /\ inFlight = {} /\ plan = {} /\ errs = {} /\ halted = FALSE

Running == stage <= Len(stages) /\ ~halted
Op == stages[stage].op

\* Mutant: the deletes go through what the gateway held at the start.
EnterStageStale ==
  /\ Running /\ ~entered
  /\ entered' = TRUE
  /\ todo' = CASE Op = "deleteDuplicates" ->
                    {d \in DuplicatesDeletes(before) : d.obj.kind \in stages[stage].kinds}
               [] Op = "createUpdate" ->
                    {[by |-> t.kind, obj |-> t] : t \in {t \in target : t.kind \in stages[stage].kinds}}
               [] Op = "delete" ->
                    {[by |-> c.kind, obj |-> c] : c \in {c \in before : c.kind \in stages[stage].kinds}}
  /\ UNCHANGED <<input, stage, alreadyDeleted, kong, current, inFlight, plan, errs, halted>>

\* A differ reads all it has to look at: GetAll of the target state, or of the
\* current state for the deletes.
EnterStage ==
  /\ Running /\ ~entered
  /\ entered' = TRUE
  /\ todo' = CASE Op = "deleteDuplicates" ->
                    {d \in DuplicatesDeletes(before) : d.obj.kind \in stages[stage].kinds}
               [] Op = "createUpdate" ->
                    {[by |-> t.kind, obj |-> t] : t \in {t \in target : t.kind \in stages[stage].kinds}}
               [] Op = "delete" ->
                    {[by |-> c.kind, obj |-> c] : c \in {c \in current : c.kind \in stages[stage].kinds}}
  /\ UNCHANGED <<input, stage, alreadyDeleted, kong, current, inFlight, plan, errs, halted>>

Queue(op, d) ==
  /\ inFlight' = inFlight \cup {[op |-> op, by |-> d.by, obj |-> d.obj, pc |-> "queued",
                                 rest |-> <<>>, victims |-> {}]}
  /\ plan' = plan \cup {[op |-> op, obj |-> d.obj]}

Take(d) ==
  /\ Running /\ entered /\ d \in todo
  /\ todo' = todo \ {d}
  /\ UNCHANGED <<input, stage, entered, kong, current, errs, halted>>

\* Mutant: the entity is queued once for every differ that finds it.
QueueEveryDuplicate(d) ==
  /\ Op = "deleteDuplicates" /\ Take(d)
  /\ Queue("delete", d)
  /\ UNCHANGED alreadyDeleted

\* processDeleteDuplicates queues an entity once: by its kind and the name or
\* id that identifies it, which within one state tells the same apart as its id.
QueueDuplicate(d) ==
  /\ Op = "deleteDuplicates" /\ Take(d)
  /\ IF d.obj.id \in alreadyDeleted
       THEN UNCHANGED <<inFlight, plan, alreadyDeleted>>
       ELSE Queue("delete", d) /\ alreadyDeleted' = alreadyDeleted \cup {d.obj.id}

\* Mutant: what is found is not compared.
CreateMissing(d) ==
  /\ Op = "createUpdate" /\ Take(d)
  /\ IF Lookup(current, differOf[d.obj.kind].finds, d.obj) = {}
       THEN Queue("create", d) ELSE UNCHANGED <<inFlight, plan>>
  /\ UNCHANGED alreadyDeleted

CreateOrUpdate(d) ==
  /\ Op = "createUpdate" /\ Take(d)
  /\ LET found == Lookup(current, differOf[d.obj.kind].finds, d.obj)
     IN CASE found = {} -> Queue("create", d)
          [] found # {} /\ d.obj \notin found -> Queue("update", d)
          [] OTHER -> UNCHANGED <<inFlight, plan>>
  /\ UNCHANGED alreadyDeleted

DeleteUnlessWanted(d) ==
  /\ Op = "delete" /\ Take(d)
  /\ LET key == differOf[d.obj.kind].deletes
     IN IF key = "never" \/ Lookup(target, key, d.obj) # {}
          THEN UNCHANGED <<inFlight, plan>> ELSE Queue("delete", d)
  /\ UNCHANGED alreadyDeleted

\* wait()
NextStage ==
  /\ Running /\ entered /\ todo = {} /\ inFlight = {}
  /\ stage' \in Following(stage) /\ entered' = FALSE
  /\ UNCHANGED <<input, todo, alreadyDeleted, kong, current, inFlight, plan, errs, halted>>

-----------------------------------------------------------------------------
(* The gateway.  Creates and updates are both a PUT of the whole entity.   *)

Dependants(e, S, cascades) == {f \in S : e.id \in f.refs /\ f.kind \in cascades[e.kind]}

KongRejects(op, e) ==
  IF op = "delete"
    THEN \/ e.kind = "service" /\ \E r \in OfKind("route", kong) : e.id \in r.refs
         \/ \E f \in kong : e.id \in f.uses
    ELSE \/ \E i \in e.refs \cup e.uses : \A f \in kong : f.id # i
         \/ \E f \in Taken(kong, e) : f.id # e.id

KongAfter(op, e) ==
  IF op = "delete"
    THEN {f \in kong : f.id # e.id} \ Dependants(e, kong, KongCascades)
    ELSE {f \in kong : f.id # e.id} \cup {e}

-----------------------------------------------------------------------------
(* handleEvent: the request, then the post-processing of its answer.       *)

\* The kinds whose entities the post-processing of a delete looks up and deletes.
PostActionCascades ==
  [k \in Kinds |-> CASE k \in {"service", "route"} -> <<"plugin", "filter-chain">>
                     [] k = "consumer" -> <<"plugin">>
                     [] OTHER -> <<>>]

Replace(ev, new) == inFlight' = (inFlight \ {ev}) \cup new

\* Mutant: no cascade in the post-processing.
AnsweredPlainly(ev) == [ev EXCEPT !.pc = "answered"]

Answered(ev) ==
  [ev EXCEPT !.pc = "answered",
             !.rest = IF ev.op = "delete" THEN PostActionCascades[ev.obj.kind] ELSE <<>>]

\* A failed request ends its event; the error is reported later.
Fails(ev, err) == Replace(ev, {}) /\ errs' = errs \cup {err}

\* A dry run sends nothing.
DryRun(ev) ==
  /\ ev.pc = "queued" /\ dry
  /\ Replace(ev, {Answered(ev)})
  /\ UNCHANGED <<input, producer, kong, current, plan, errs, halted>>

\* Mutant: a dry run sends its requests.
SendAnyway(ev) ==
  /\ ev.pc = "queued"
  /\ IF KongRejects(ev.op, ev.obj)
       THEN Fails(ev, "rejected") /\ UNCHANGED kong
       ELSE Replace(ev, {Answered(ev)}) /\ kong' = KongAfter(ev.op, ev.obj) /\ UNCHANGED errs
  /\ UNCHANGED <<input, producer, current, plan, halted>>

Send(ev) ==
  /\ ev.pc = "queued" /\ ~dry
  /\ IF KongRejects(ev.op, ev.obj)
       THEN Fails(ev, "rejected") /\ UNCHANGED kong
       ELSE Replace(ev, {Answered(ev)}) /\ kong' = KongAfter(ev.op, ev.obj) /\ UNCHANGED errs
  /\ UNCHANGED <<input, producer, current, plan, halted>>

\* No usable answer: the gateway may have done its part or not.
SendFails(ev) ==
  /\ ev.pc = "queued" /\ ~dry
  /\ Fails(ev, "failed")
  /\ \/ UNCHANGED kong
     \/ ~KongRejects(ev.op, ev.obj) /\ kong' = KongAfter(ev.op, ev.obj)
  /\ UNCHANGED <<input, producer, current, plan, halted>>

\* The post-processing ends with this change of the collection, or fails.
PostEnds(ev, ok, new) ==
  /\ IF ok THEN current' = new /\ Replace(ev, {}) /\ UNCHANGED errs
           ELSE UNCHANGED current /\ Fails(ev, "post")
  /\ UNCHANGED <<input, producer, kong, plan, halted>>

PostCreate(ev) ==
  /\ ev.pc = "answered" /\ ev.op = "create"
  /\ PostEnds(ev, ~AddRefused(current, ev.obj), Added(current, ev.obj))

PostUpdate(ev) ==
  /\ ev.pc = "answered" /\ ev.op = "update"
  /\ PostEnds(ev, ~UpdateRefused(current, ev.obj), Updated(current, ev.obj))

\* GetAllBy...ID of the next kind to cascade to.
PostLookup(ev) ==
  /\ ev.pc = "answered" /\ ev.victims = {} /\ ev.rest # <<>>
  /\ Replace(ev, {[ev EXCEPT !.rest = Tail(ev.rest),
                             !.victims = {c \in OfKind(Head(ev.rest), current) : ev.obj.id \in c.refs}]})
  /\ UNCHANGED <<input, producer, kong, current, plan, errs, halted>>

\* Each dependant found is deleted in a transaction of its own.
PostCascade(ev, v) ==
  /\ ev.pc = "answered" /\ v \in ev.victims
  /\ IF DeleteRefused(current, v)
       THEN UNCHANGED current /\ Fails(ev, "post")
       ELSE /\ current' = Deleted(current, v)
            /\ Replace(ev, {[ev EXCEPT !.victims = @ \ {v}]})
            /\ UNCHANGED errs
  /\ UNCHANGED <<input, producer, kong, plan, halted>>

PostDelete(ev) ==
  /\ ev.pc = "answered" /\ ev.op = "delete" /\ ev.victims = {} /\ ev.rest = <<>>
  /\ PostEnds(ev, ~DeleteRefused(current, ev.obj), Deleted(current, ev.obj))

\* The error reaches Run, which closes stopChan; what no worker has begun is
\* abandoned.
Halt ==
  /\ errs # {} /\ ~halted
  /\ halted' = TRUE
  /\ \E begun \in SUBSET {ev \in inFlight : ev.pc = "queued"} :
       inFlight' = begun \cup {ev \in inFlight : ev.pc # "queued"}
  /\ UNCHANGED <<input, producer, kong, current, plan, errs>>

Finished == ~Running /\ inFlight = {}

\* Mutant: what the failed run has deleted is still remembered.
RerunRemembering ==
  /\ Finished /\ errs # {} /\ ~dry
  /\ before' = kong /\ current' = kong
  /\ stage' \in Following(0) /\ entered' = FALSE /\ todo' = {}
  /\ plan' = {} /\ errs' = {} /\ halted' = FALSE
  /\ UNCHANGED <<family, target, dry, noDeletes, kong, inFlight, alreadyDeleted>>

\* After a failure the same target is synchronised again, from a new dump.
Rerun ==
  /\ Finished /\ errs # {} /\ ~dry
  /\ before' = kong /\ current' = kong
  /\ stage' \in Following(0) /\ entered' = FALSE /\ todo' = {} /\ alreadyDeleted' = {}
  /\ plan' = {} /\ errs' = {} /\ halted' = FALSE
  /\ UNCHANGED <<family, target, dry, noDeletes, kong, inFlight>>

Done == Finished /\ UNCHANGED vars

Next ==
  \/ EnterStage \/ NextStage \/ Halt \/ Rerun \/ Done
  \/ \E d \in todo : QueueDuplicate(d) \/ CreateOrUpdate(d) \/ DeleteUnlessWanted(d)
  \/ \E ev \in inFlight :
       \/ DryRun(ev) \/ Send(ev) \/ SendFails(ev)
       \/ PostCreate(ev) \/ PostUpdate(ev) \/ PostLookup(ev) \/ PostDelete(ev)
       \/ \E v \in ev.victims : PostCascade(ev, v)

Spec == Init /\ [][Next]_vars

-----------------------------------------------------------------------------
(* Properties.                                                             *)

Ops == {"create", "update", "delete"}

\* The types of the two states, of the events and of the plan: no entity comes
\* from anywhere but the gateway and the target.
TypeOK ==
  /\ family \in DOMAIN States /\ target \in States[family]
  /\ dry \in BOOLEAN /\ noDeletes \in NoDeletes
  /\ kong \cup current \subseteq before \cup target
  /\ stage \in 1..Len(stages) + 1 /\ entered \in BOOLEAN
  /\ \A d \in todo : d.by \in InPlay[family] /\ d.obj \in before \cup target
  /\ alreadyDeleted \subseteq {e.id : e \in before}
  /\ \A ev \in inFlight : /\ ev.op \in Ops /\ ev.obj \in before \cup target
                          /\ ev.pc \in {"queued", "answered"} /\ ev.victims \subseteq before \cup target
  /\ \A c \in plan : c.op \in Ops /\ c.obj \in IF c.op = "delete" THEN before ELSE target
  /\ errs \subseteq {"failed", "rejected", "post"} /\ halted \in BOOLEAN

\* The stages of the run have all 34 kinds in an order in which nothing is
\* created before, or deleted after, what it refers to: the hand-written table
\* of levels, its reversal, and the operations that go through it.
OrderRespectsReferences == inOrder[~noDeletes]

Clean == Finished /\ errs = {}

\* A run without errors leaves the gateway with exactly the target state; if
\* it must not delete anything, with at least the target state.
Converges ==
  Clean /\ ~dry => IF noDeletes THEN target \subseteq kong ELSE kong = target

\* Whenever no event is under way and none has failed, the in-memory copy is
\* what the gateway holds, the gateway's own cascades included: this is what
\* the next stage decides from.
MirrorsKong == ~dry /\ errs = {} /\ inFlight = {} => current = kong

(* What a run has to do, computed from the two states alone.               *)
DuplicatesOfRun ==
  IF noDeletes THEN {} ELSE {d.obj : d \in DuplicatesDeletes(before)}
Remaining ==
  before \ UNION {{e} \cup Dependants(e, before, KongCascades) : e \in DuplicatesOfRun}
Expected ==
  {[op |-> "delete", obj |-> e] : e \in DuplicatesOfRun}
  \cup {[op |-> "create", obj |-> t] : t \in {t \in target : \A e \in Remaining : e.id # t.id}}
  \cup {[op |-> "update", obj |-> t] :
          t \in {t \in target \ Remaining : \E e \in Remaining : e.id = t.id}}
  \cup (IF noDeletes THEN {} ELSE
          {[op |-> "delete", obj |-> e] : e \in {e \in Remaining : \A t \in target : t.id # e.id}})

\* The events of a run without errors are those that the two states call for,
\* whatever order they are processed in and whether it is a dry run or not:
\* a diff shows what a sync would do.
PlanIsExpected == errs = {} => /\ plan \subseteq Expected
                               /\ Finished => plan = Expected

\* A dry run does not touch the gateway, and ends with the in-memory state
\* that a real run would end with.
DryRunPredicts ==
  dry => /\ kong = before
         /\ Clean => IF noDeletes THEN target \subseteq current ELSE current = target

\* The stages keep the gateway from refusing a request (a reference to an
\* entity that is not there, a name or custom_id taken, the delete of what is
\* still in use) unless another request has failed.
RejectedOnlyAfterFailure == ~noDeletes /\ "rejected" \in errs => "failed" \in errs

\* The post-processing of an answer never fails, whatever else is under way, and
\* never takes a name or a custom_id from another entity of the copy, unless
\* another request has failed.
PostProcessSucceeds ==
  ~noDeletes =>
    /\ "post" \in errs => errs \cap {"failed", "rejected"} # {}
    /\ errs = {} => \A e \in current : Taken(current, e) \subseteq {e}
=============================================================================
