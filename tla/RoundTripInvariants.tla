------------------------ MODULE RoundTripInvariants ------------------------
(***************************************************************************)
(* What is true of a file however it has been edited, and of what the      *)
(* builder has made of it so far: why an accepted file is in the target as *)
(* a whole, what was not edited as it was, and a refused one had it coming.*)
(***************************************************************************)
EXTENDS RoundTrip

\* What an entity of a file may belong to. What it uses besides is left out.
FileRefs(k) == differOf[k].refs

\* Ids that are made up are new. What is told apart by its name has one, and
\* there is one reference to a kind.
InModel(e) ==
  /\ e.kind \in Kinds /\ e.id \in 1..999 /\ e.name \in Nat /\ e.custom \in Nat
  /\ e.kind # "consumer" => e.custom = NoName
  /\ \A r \in e.refs : r = [kind |-> r.kind, id |-> r.id] /\ r.kind \in FileRefs(e.kind)
  /\ \A q, r \in e.refs : q.kind = r.kind => q = r
  /\ e.name = NoName =>
       /\ collectionOf[e.kind].second # "prop"
       /\ formatOf[e.kind].id = "never" => lookupOf[e.kind] = "refs"

ASSUME DataModelAssumption == \A S \in Gateways : \A e \in S : InModel(e)

\* An id is never used again for an entity of another kind.
ASSUME IdKindAssumption ==
  \A S, T \in Gateways : \A e \in S, f \in T : e.id = f.id => e.kind = f.kind

\* When build comes to a kind.
buildPosition == [k \in Kinds |-> CHOOSE i \in DOMAIN build : build[i].kind = k]

\* The builder looks the plugin of a group up by its name.
OneOfAName(S) ==
  \A e, f \in OfKind("consumer-group-plugin", S) : e.name = f.name /\ e.refs = f.refs => e = f

ASSUME GroupPluginAssumption == \A S \in Gateways : OneOfAName(S)

-----------------------------------------------------------------------------
(* The current state.                                                      *)

\* Entities have one id each and do not clash; a reference that is there leads
\* to the kind it says.
CurrentInv ==
  /\ IsFiniteSet(current)
  /\ \A e \in current :
       /\ InModel(e) /\ e = Entity(e)
       /\ \A r \in e.refs : r.id \in 1..999
  /\ \A e, f \in current : e.id = f.id \/ Clash(e, f) => e = f
  /\ OneOfAName(current)
  /\ \A e, p \in current : \A r \in e.refs : r.id = p.id => r.kind = p.kind
  /\ phase \in {"dump", "loadFailed"} => current = {}

-----------------------------------------------------------------------------
(* The file.                                                               *)

Nests(k, parent) == parent \in formatOf[k].within \/ "alone" \in formatOf[k].within

\* A slot is nested in slots that are there. What is referred to by id or name
\* is a current entity that had both.
RefOK(k, r) ==
  /\ r.by \in {"slot", "name", "either", "id"} /\ r.kind \in FileRefs(k)
  /\ r.by \in {"name"} => r.key # NoName
  /\ r.by \in {"either", "id"} => r.key \in 1..999
  /\ r.by = "slot" => Nests(k, r.kind) /\ r.key \in Slots /\ file[r.key].kind = r.kind
  /\ k \in Credentials => r.by = "slot"
  /\ r.by = "either" =>
       /\ r.kind = "consumer-group"
       /\ \A c \in current : c.id = r.key => c.name = r.alt

\* What has no id can be looked up; what is told apart by its name has one.
SlotOK(f) ==
  /\ f = [kind |-> f.kind, id |-> f.id, name |-> f.name, custom |-> f.custom, refs |-> f.refs]
  /\ f.kind \in Kinds /\ f.id \in 0..1000 /\ f.name \in Nat /\ f.custom \in Nat
  /\ f.kind # "consumer" => f.custom = NoName
  /\ \A r \in f.refs : RefOK(f.kind, r)
  /\ formatOf[f.kind].id = "never" => f.id = NoId
  /\ f.id = NoId => f.name # NoName \/ f.custom # NoName \/ lookupOf[f.kind] = "refs"
  /\ collectionOf[f.kind].second = "prop" => f.name # NoName

\* What has not been edited is as it was written.
FileInv ==
  /\ IsFiniteSet(Slots) /\ Slots \subseteq Nat \ {NoId} /\ file = [s \in Slots |-> file[s]]
  /\ \A s \in Slots : SlotOK(file[s])
  /\ phase \notin {"dump", "loadFailed", "write", "writeFailed"} =>
       /\ ~WriterFails(current)
       /\ \A s \in Slots \ edited :
            s \in DOMAIN Written(current, withID) /\ file[s] = Written(current, withID)[s]
       /\ edits = MaxEdits => edited = {} /\ file = Written(current, withID)
  /\ phase \in {"dump", "loadFailed", "write", "writeFailed"} => file = NoSlots /\ edited = {}

-----------------------------------------------------------------------------
(* What the builder has made.                                              *)

\* The kinds are gone through in order, each as a whole, and every reference
\* that is checked leads somewhere; what comes later changes nothing.
BuiltInv ==
  /\ DOMAIN built \subseteq Slots /\ built = [s \in DOMAIN built |-> built[s]]
  /\ \A s \in DOMAIN built, t \in Slots :
       buildPosition[file[t].kind] <= buildPosition[file[s].kind] => t \in DOMAIN built
  /\ \A s \in DOMAIN built :
       /\ built[s] = Built(file, current, built, s)
       /\ \A r \in file[s].refs : ~Dangling(built, file[s].kind, r)

PhaseInv ==
  /\ phase \in Phases /\ withID \in BOOLEAN /\ edits \in 0..MaxEdits
  /\ phase \notin {"build", "rejected", "built"} => built = NoSlots
  /\ phase # "built" => target = {}
  /\ phase = "built" =>
       /\ DOMAIN built = Slots /\ ~Rejected
       /\ target = LoadedFrom({built[s] : s \in {t \in Slots : InRawState(t)}})
  /\ RejectedForCause

\* A file that is not edited is not refused.
Untouched == edits = MaxEdits /\ Orphans(current) = {}
NotRefused == phase = "rejected" => ~Untouched

RoundTripInv == CurrentInv /\ FileInv /\ BuiltInv /\ PhaseInv
=============================================================================
