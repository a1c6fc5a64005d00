----------------------------- MODULE RoundTrip -----------------------------
(***************************************************************************)
(* From the gateway to a file and back to a target state: the dump, the    *)
(* state builder, the writer, a user who edits the file, the builder, and  *)
(* the state builder again. Fields other than ids, names and references,   *)
(* defaults, validation and the reading of the file are left out.          *)
(***************************************************************************)
EXTENDS GatewayDump, FileFormat

CONSTANTS
  Names,    \* the names a user chooses from
  MaxEdits  \* how many edits the user makes

ASSUME EditAssumption == MaxEdits \in Nat /\ Names \subseteq Nat \ {NoName}

VARIABLES
  phase,    \* how far it has come
  current,  \* the state built from the dump
  withID,   \* WriteConfig.WithID
  file,     \* the file, by slots
  edited,   \* the slots an edit has been made to, or that are gone
  edits,    \* how many edits are left
  built,    \* what the builder has made of the slots it has gone through
  target    \* the target state

fileVars == <<phase, current, withID, file, edited, edits, built, target>>
vars == <<dumpVars, fileVars>>

NoSlots == [s \in {} |-> NoId]

Init ==
  /\ DumpInit
  /\ phase = "dump" /\ current = {} /\ withID = FALSE
  /\ file = NoSlots /\ edited = {} /\ edits = MaxEdits
  /\ built = NoSlots /\ target = {}

Dump ==
  /\ phase = "dump" /\ DumpNext
  /\ UNCHANGED fileVars

-----------------------------------------------------------------------------
(* state.Get of the dump, and the writer.                                  *)

\* A dumped entity without its tags.
Entity(e) == [kind |-> e.kind, id |-> e.id, name |-> e.name, custom |-> e.custom, refs |-> e.refs]

\* The state builder refuses what clashes, and a dumped custom entity without
\* its service.
LoadRefused(S) ==
  \/ \E e, f \in S : e # f /\ Clash(e, f)
  \/ \E e \in Orphans(S) : e.kind \in CustomEntities

\* The packages of Konnect have a dump of their own, see KonnectDump.
OfKonnect(S) == {e \in S : e.kind \in {"service-package", "service-version", "document"}}

Load ==
  /\ phase = "dump" /\ raw = "ok"
  /\ LET S == {Entity(e) : e \in RawState \cup OfKonnect(kong)} IN
     IF LoadRefused(S)
       THEN phase' = "loadFailed" /\ UNCHANGED current
       ELSE phase' = "write" /\ current' = LoadedFrom(S)
  /\ UNCHANGED <<dumpVars, withID, file, edited, edits, built, target>>

KongStateToFile ==
  /\ phase = "write" /\ withID' \in BOOLEAN
  /\ IF WriterFails(current)
       THEN phase' = "writeFailed" /\ UNCHANGED file
       ELSE phase' = "edit" /\ file' = Written(current, withID')
  /\ UNCHANGED <<dumpVars, current, edited, edits, built, target>>

-----------------------------------------------------------------------------
(* The user.                                                               *)

Slots == DOMAIN file
Nested(s) == {t \in Slots : \E r \in file[t].refs : r.by = "slot" /\ r.key = s}
\* Entities are nested in each other at most three deep.
WithNested(s) == LET n == UNION {Nested(t) : t \in Nested(s)} IN
  {s} \cup Nested(s) \cup n \cup UNION {Nested(t) : t \in n}

Edit(slots, f) ==
  /\ phase = "edit" /\ edits > 0
  /\ file' = f /\ f # file
  /\ edited' = edited \cup slots /\ edits' = edits - 1
  /\ UNCHANGED <<dumpVars, phase, current, withID, built, target>>

RemoveSlot(s) ==
  Edit(WithNested(s), [t \in Slots \ WithNested(s) |-> file[t]])

RenameSlot(s) ==
  /\ file[s].kind \notin {"consumer-group-consumer", "filter-chain"}
  /\ \E n \in Names : Edit({s}, [file EXCEPT ![s].name = n])

\* Only consumers have a custom_id, and may do without a username then.
IdentifySlot(s) ==
  /\ file[s].kind = "consumer"
  /\ \E c \in Names \cup {NoName} :
       /\ file[s].name # NoName \/ c # NoName
       /\ Edit({s}, [file EXCEPT ![s].custom = c])

\* The schema of the file wants an id or a name, and the id of an mtls-auth.
StripId(s) ==
  /\ file[s].name # NoName \/ file[s].custom # NoName
  /\ file[s].kind # "mtls-auth"
  /\ Edit({s}, [file EXCEPT ![s].id = NoId])

GiveId(s) ==
  /\ formatOf[file[s].kind].id # "never"
  /\ \E id \in {c.id : c \in OfKind(file[s].kind, current)} \cup {FreshId(NoId)} :
       Edit({s}, [file EXCEPT ![s].id = id])

\* A copy of what is there, under another name.
InsertSlot(s) ==
  /\ file[s].name # NoName /\ file[s].kind # "mtls-auth"
  /\ \E n \in Names :
       LET new == 1 + CHOOSE m \in Slots : \A t \in Slots : t <= m IN
       Edit({new}, [t \in Slots \cup {new} |->
                      IF t = new THEN [file[s] EXCEPT !.name = n, !.id = NoId] ELSE file[t]])

-----------------------------------------------------------------------------
(* The builder, and state.Get of what it has made.                         *)

StartBuild ==
  /\ phase = "edit" /\ phase' = "build"
  /\ UNCHANGED <<dumpVars, current, withID, file, edited, edits, built, target>>

\* The slots of the first kind that has not been gone through.
Unbuilt == Slots \ DOMAIN built
NextSlots ==
  LET k == build[CHOOSE i \in DOMAIN build :
                   /\ \E s \in Unbuilt : file[s].kind = build[i].kind
                   /\ \A j \in 1..(i - 1) : \A s \in Unbuilt : file[s].kind # build[j].kind].kind
  IN {s \in Unbuilt : file[s].kind = k}

BuildKind ==
  /\ phase = "build" /\ Unbuilt # {}
  /\ IF \E s \in NextSlots : \E r \in file[s].refs : Dangling(built, file[s].kind, r)
       THEN phase' = "rejected" /\ UNCHANGED built
       ELSE /\ built' = [s \in DOMAIN built \cup NextSlots |->
                           IF s \in DOMAIN built THEN built[s] ELSE Built(file, current, built, s)]
            /\ UNCHANGED phase
  /\ UNCHANGED <<dumpVars, current, withID, file, edited, edits, target>>

\* Mutant: so for any kind.
OneOfAnId(s) == FirstOfItsId(built, s)

\* addConsumerToRawState leaves out a second consumer of the same id.
InRawState(s) == built[s].kind = "consumer" => FirstOfItsId(built, s)

Rejected ==
  \E s, t \in Slots : s # t /\ InRawState(s) /\ InRawState(t) /\ Clash(built[s], built[t])

LoadTarget ==
  /\ phase = "build" /\ Unbuilt = {}
  /\ IF Rejected
       THEN phase' = "rejected" /\ UNCHANGED target
       ELSE phase' = "built" /\ target' = LoadedFrom({built[s] : s \in {t \in Slots : InRawState(t)}})
  /\ UNCHANGED <<dumpVars, current, withID, file, edited, edits, built>>

\* The run has ended, one way or another.
Done ==
  /\ phase \in {"built", "rejected", "loadFailed", "writeFailed"} \/ raw = "error"
  /\ UNCHANGED vars

Next ==
  \/ Dump \/ Load \/ KongStateToFile
  \/ \E s \in Slots :
       \/ RemoveSlot(s) \/ RenameSlot(s) \/ IdentifySlot(s) \/ StripId(s)
       \/ GiveId(s) \/ InsertSlot(s)
  \/ StartBuild \/ BuildKind \/ LoadTarget \/ Done

Spec == Init /\ [][Next]_vars

-----------------------------------------------------------------------------
(* Properties.                                                             *)

Phases == {"dump", "loadFailed", "write", "writeFailed", "edit", "build", "rejected", "built"}

\* The types of the variables of the dump and of the way to the target.
TypeOK ==
  /\ DumpTypeOK
  /\ phase \in Phases /\ withID \in BOOLEAN /\ edits \in 0..MaxEdits
  /\ \A e \in current \cup target : e.kind \in Kinds /\ e.id \in Nat \ {NoId}
  /\ DOMAIN built \subseteq Slots
  /\ \A s \in DOMAIN built : built[s].kind = file[s].kind /\ built[s].name = file[s].name

\* What a license, which has no lookup, is in the target if its id was not
\* written.
Renewed(e) ==
  IF lookupOf[e.kind] = "none" /\ WrittenId(e, withID) = NoId
    THEN [e EXCEPT !.id = FreshId(e.id)] ELSE e

\* A file that is not edited leads back to the state it was written from: the
\* ids that were left out are found again, and nothing refuses it.
FileIsFaithful ==
  (edits = MaxEdits /\ Orphans(current) = {}) =>
    /\ phase # "rejected"
    /\ phase = "built" => target = {Renewed(e) : e \in current}

\* The current entity of a slot, and what it refers to directly or not.
Parents(e) == {p \in current : \E r \in e.refs : r.id = p.id}
Ancestors(e) ==
  LET p == Parents(e)
      q == UNION {Parents(f) : f \in p}
  IN p \cup q \cup UNION {Parents(f) : f \in q}

\* Whatever has been done to the rest of the file, an entity that no edit was
\* made to, nor to what it refers to, is the same in the target: no other
\* entity takes its id, and it does not take another's. (The builder drops a
\* consumer without a word if an earlier one has the same id, and then what
\* refers to it by name may be given to another.)
EditsAreLocal ==
  phase = "built" =>
    \A e \in current :
      /\ \A p \in {e} \cup Ancestors(e) : p.id \in Slots \ edited /\ InRawState(p.id)
      => Renewed(e) \in target

\* Nothing of an accepted file is lost, except a second consumer with the same
\* id, and its references lead to entities of the target, those by id excepted.
TargetFollowsFile ==
  phase = "built" =>
    \A s \in Slots :
      /\ built[s] \in target \/ (file[s].kind = "consumer" /\ ~InRawState(s))
      /\ \A r \in file[s].refs : r.by # "id" =>
           \E p \in target : p.kind = r.kind /\ [kind |-> p.kind, id |-> p.id] \in built[s].refs

\* The slots that a reference may mean; it is unresolved if there is none.
LeadsTo(r) ==
  {s \in Slots : file[s].kind = r.kind /\
     CASE r.by = "slot" -> s = r.key
       [] r.by = "name" -> file[s].name = r.key
       [] r.by = "id" -> file[s].id = r.key
       [] r.by = "either" -> file[s].id = r.key \/ file[s].name = r.alt}
Unresolved(r) == LeadsTo(r) = {}

\* Two slots of a file that cannot both be: the same id or the same key is
\* given twice, or the id of one is that of a current entity that the other,
\* having no id, stands for, or both stand for a consumer, by its username and by
\* its custom_id.
Meets(s, t) ==
  \A r \in file[s].refs : \E q \in file[t].refs : LeadsTo(r) \cap LeadsTo(q) # {}
SameParents(s, t) == Meets(s, t) /\ Meets(t, s)
IdentifiedBy(s, c) ==
  /\ c.custom = file[s].custom /\ c.custom # NoName
  /\ file[s].name = NoName \/ \A d \in OfKind(c.kind, current) : d.name # file[s].name
StandsFor(s, c) ==
  /\ file[s].id = NoId /\ c.kind = file[s].kind
  /\ IF lookupOf[c.kind] = "refs"
       THEN s \in DOMAIN built /\ c.refs = built[s].refs
       ELSE (c.name = file[s].name /\ c.name # NoName) \/ IdentifiedBy(s, c)
Contradict(s, t) ==
  /\ s # t /\ file[s].kind = file[t].kind
  /\ \/ file[s].id # NoId /\ file[s].id = file[t].id
     \/ /\ file[s].name = file[t].name /\ file[s].name # NoName
        /\ collectionOf[file[s].kind].second = "prop" => SameParents(s, t)
     \/ collectionOf[file[s].kind].second = "refs" /\ SameParents(s, t)
     \/ file[s].custom = file[t].custom /\ file[s].custom # NoName
     \/ \E c \in current :
          StandsFor(s, c) /\ (c.id = file[t].id \/ (c.kind = "consumer" /\ StandsFor(t, c)))

\* A file is refused only if it contradicts itself or refers to what is not in
\* it: the ids that are made up or looked up never clash.
RejectedForCause ==
  phase = "rejected" =>
    \/ \E s, t \in Slots : Contradict(s, t)
    \/ \E s \in Slots : \E r \in file[s].refs : Unresolved(r)
=============================================================================
