---------------------------- MODULE KonnectDump ----------------------------
(***************************************************************************)
(* GetFromKonnect of pkg/dump: one goroutine lists the service packages    *)
(* and starts two fetches for each, and one for every version it finds; a  *)
(* weighted semaphore bounds the fetches, a collector receives their       *)
(* errors, and a second goroutine of the group fetches the relations.      *)
(* The pages of a list, the content of what is fetched and the filter over *)
(* the packages are left out.                                              *)
(***************************************************************************)
EXTENDS Integers, FiniteSets

CONSTANTS
  NumPackages,  \* service packages listed
  VersionsOf,   \* the versions of each
  Concurrency   \* weight of the semaphore, at least 2

ASSUME PackagesAssumption == NumPackages \in Nat /\ Concurrency \in Nat \ {0, 1}

Package == 1..NumPackages
Version == UNION {VersionsOf[p] : p \in Package}
ASSUME VersionsAssumption ==
  /\ DOMAIN VersionsOf = Package /\ Package \cap Version = {}
  /\ \A p, q \in Package : p # q => VersionsOf[p] \cap VersionsOf[q] = {}

VersionFetch == {[of |-> p, kind |-> "versions"] : p \in Package}
DocumentFetch == {[of |-> d, kind |-> "documents"] : d \in Package \cup Version}
Fetch == VersionFetch \cup DocumentFetch

VARIABLES
  pc,        \* control point of the first goroutine of the group
  next,      \* index of its loop
  pending,   \* the versions its inner loop has still to go through
  free,      \* what is left of the semaphore
  fetch,     \* control point of each fetch
  seen,      \* res.Documents as the append of a fetch has read it
  versions,  \* Versions of each of servicePackages
  documents, \* res.Documents, as the set of the parents they are of
  err2, errChanClosed,
  collector, \* control point of the collector, which holds m until it is off
  relations, \* how the second goroutine has ended
  ctxDone,   \* the context of the group is cancelled
  result     \* what GetFromKonnect returns

loop == <<pc, next, pending>>
data == <<seen, versions, documents>>
outcome == <<relations, result>>
vars == <<loop, free, fetch, data, err2, errChanClosed, collector, ctxDone, outcome>>

Ended == {"ok", "error"}

Init ==
  /\ pc = "list" /\ next = 1 /\ pending = {}
  /\ free = Concurrency
  /\ fetch = [f \in Fetch |-> "none"]
  /\ seen = [f \in Fetch |-> {}]
  /\ versions = [p \in Package |-> {}] /\ documents = {}
  /\ err2 = FALSE /\ errChanClosed = FALSE /\ collector = "off"
  /\ relations = "running" /\ ctxDone = FALSE /\ result = "none"

-----------------------------------------------------------------------------
(* The first goroutine of the group.                                       *)

\* An error of a goroutine of the group cancels the context.
GroupError(ended) == ctxDone' = (ctxDone \/ ended = "error")

ListPackages ==
  /\ pc = "list"
  /\ \/ pc' = "spawn" /\ collector' = "receive" /\ UNCHANGED ctxDone
     \/ pc' = "error" /\ GroupError("error") /\ UNCHANGED collector
  /\ UNCHANGED <<next, pending, free, fetch, data, err2, errChanClosed, outcome>>

Start(fs, weight) ==
  /\ free >= weight
  /\ free' = free - weight
  /\ fetch' = [f \in Fetch |-> IF f \in fs THEN "fetching" ELSE fetch[f]]
  /\ UNCHANGED <<data, err2, errChanClosed, collector, ctxDone, outcome>>

\* Mutant: one permit for the two of them.
SpawnPairForOne ==
  /\ pc = "spawn" /\ next <= NumPackages
  /\ Start({f \in Fetch : f.of = next}, 1)
  /\ next' = next + 1
  /\ UNCHANGED <<pc, pending>>

\* The versions and the documents of a package.
SpawnPair ==
  /\ pc = "spawn" /\ next <= NumPackages
  /\ Start({f \in Fetch : f.of = next}, 2)
  /\ next' = next + 1
  /\ UNCHANGED <<pc, pending>>

PairsSpawned ==
  /\ pc = "spawn" /\ next > NumPackages
  /\ pc' = "read" /\ next' = 1
  /\ UNCHANGED <<pending, free, fetch, data, err2, errChanClosed, collector, ctxDone, outcome>>

\* The second loop takes Versions as it is now, fetched or not.
ReadVersions ==
  /\ pc = "read"
  /\ IF next <= NumPackages
       THEN pc' = "versions" /\ pending' = versions[next]
       ELSE pc' = "drain" /\ UNCHANGED pending
  /\ UNCHANGED <<next, free, fetch, data, err2, errChanClosed, collector, ctxDone, outcome>>

SpawnVersion(v) ==
  /\ pc = "versions" /\ v \in pending
  /\ Start({f \in DocumentFetch : f.of = v}, 1)
  /\ pending' = pending \ {v}
  /\ UNCHANGED <<pc, next>>

NextPackage ==
  /\ pc = "versions" /\ pending = {}
  /\ pc' = "read" /\ next' = next + 1
  /\ UNCHANGED <<pending, free, fetch, data, err2, errChanClosed, collector, ctxDone, outcome>>

\* Acquire returns the context's error: what has been started goes on, and
\* errChan is left open.
AcquireFails ==
  /\ ctxDone
  /\ \/ pc = "spawn" /\ next <= NumPackages
     \/ pc = "versions" /\ pending # {}
     \/ pc = "drain"
  /\ pc' = "error" /\ GroupError("error")
  /\ UNCHANGED <<next, pending, free, fetch, data, err2, errChanClosed, collector, outcome>>

\* Mutants: errChan is closed while fetches run; it is not closed.
DrainAtOnce ==
  /\ pc = "drain"
  /\ errChanClosed' = TRUE /\ pc' = "lock"
  /\ UNCHANGED <<next, pending, free, fetch, data, err2, collector, ctxDone, outcome>>
DrainWithoutClose ==
  /\ pc = "drain" /\ free = Concurrency
  /\ pc' = "lock"
  /\ UNCHANGED <<next, pending, free, fetch, data, err2, errChanClosed, collector, ctxDone, outcome>>

\* The whole semaphore is acquired, errChan closed, the semaphore released.
Drain ==
  /\ pc = "drain" /\ free = Concurrency
  /\ errChanClosed' = TRUE /\ pc' = "lock"
  /\ UNCHANGED <<next, pending, free, fetch, data, err2, collector, ctxDone, outcome>>

\* Mutant: err2 is read while the collector still runs.
LockAtOnce ==
  /\ pc = "lock"
  /\ pc' = IF err2 THEN "error" ELSE "ok"
  /\ GroupError(pc')
  /\ UNCHANGED <<next, pending, free, fetch, data, err2, errChanClosed, collector, outcome>>

\* m is free when the collector has returned.
Lock ==
  /\ pc = "lock" /\ collector = "off"
  /\ pc' = IF err2 THEN "error" ELSE "ok"
  /\ GroupError(pc')
  /\ UNCHANGED <<next, pending, free, fetch, data, err2, errChanClosed, collector, outcome>>

CollectorStores ==
  /\ collector = "store"
  /\ err2' = TRUE /\ collector' = "receive"
  /\ UNCHANGED <<loop, free, fetch, data, errChanClosed, ctxDone, outcome>>

CollectorReturns ==
  /\ collector = "receive" /\ errChanClosed
  /\ collector' = "off"
  /\ UNCHANGED <<loop, free, fetch, data, err2, errChanClosed, ctxDone, outcome>>

-----------------------------------------------------------------------------
(* The fetches.                                                            *)

Move(f, from, to) == fetch[f] = from /\ fetch' = [fetch EXCEPT ![f] = to]

VersionsFetched(f) ==
  /\ f \in VersionFetch /\ Move(f, "fetching", "releasing")
  /\ versions' = [versions EXCEPT ![f.of] = VersionsOf[f.of]]
  /\ UNCHANGED <<loop, free, seen, documents, err2, errChanClosed, collector, ctxDone, outcome>>

\* res.Documents = append(res.Documents, ...) reads the slice and writes it
\* back, with no lock.
DocumentsFetched(f) ==
  /\ f \in DocumentFetch /\ Move(f, "fetching", "appending")
  /\ seen' = [seen EXCEPT ![f] = documents]
  /\ UNCHANGED <<loop, free, versions, documents, err2, errChanClosed, collector, ctxDone, outcome>>

DocumentsAppended(f) ==
  /\ Move(f, "appending", "releasing")
  /\ documents' = seen[f] \cup {f.of}
  /\ seen' = [seen EXCEPT ![f] = {}]
  /\ UNCHANGED <<loop, free, versions, err2, errChanClosed, collector, ctxDone, outcome>>

FetchFails(f) ==
  /\ Move(f, "fetching", "failing")
  /\ UNCHANGED <<loop, free, data, err2, errChanClosed, collector, ctxDone, outcome>>

\* A rendezvous with the collector.
SendErr(f) ==
  /\ Move(f, "failing", "releasing")
  /\ collector = "receive" /\ ~errChanClosed
  /\ collector' = "store"
  /\ UNCHANGED <<loop, free, data, err2, errChanClosed, ctxDone, outcome>>

\* Mutant: what was acquired for two is released by each of them.
ReleaseTwo(f) ==
  /\ Move(f, "releasing", "done")
  /\ free' = free + 2
  /\ UNCHANGED <<loop, data, err2, errChanClosed, collector, ctxDone, outcome>>

Release(f) ==
  /\ Move(f, "releasing", "done")
  /\ free' = free + 1
  /\ UNCHANGED <<loop, data, err2, errChanClosed, collector, ctxDone, outcome>>

-----------------------------------------------------------------------------
(* The second goroutine of the group, and group.Wait.                      *)

ListRelations ==
  /\ relations = "running" /\ relations' \in Ended
  /\ GroupError(relations')
  /\ UNCHANGED <<loop, free, fetch, data, err2, errChanClosed, collector, result>>

\* Wait cancels the context, for what is still running.
Wait ==
  /\ result = "none" /\ pc \in Ended /\ relations \in Ended
  /\ result' = IF "error" \in {pc, relations} THEN "error" ELSE "ok"
  /\ ctxDone' = TRUE
  /\ UNCHANGED <<loop, free, fetch, data, err2, errChanClosed, collector, relations>>

\* The caller cancels.
CancelContext ==
  /\ ~ctxDone /\ ctxDone' = TRUE
  /\ UNCHANGED <<loop, free, fetch, data, err2, errChanClosed, collector, outcome>>

\* GetFromKonnect has returned, and so has every fetch.
Done ==
  /\ result # "none" /\ \A f \in Fetch : fetch[f] \in {"none", "done"}
  /\ UNCHANGED vars

Group1 ==
  \/ ListPackages \/ SpawnPair \/ PairsSpawned \/ ReadVersions \/ NextPackage
  \/ \E v \in pending : SpawnVersion(v)
  \/ AcquireFails \/ Drain \/ Lock
Collector == CollectorStores \/ CollectorReturns
FetchStep(f) ==
  \/ VersionsFetched(f) \/ DocumentsFetched(f) \/ DocumentsAppended(f)
  \/ FetchFails(f) \/ SendErr(f) \/ Release(f)

Next ==
  \/ Group1 \/ Collector \/ ListRelations \/ Wait \/ CancelContext \/ Done
  \/ \E f \in Fetch : FetchStep(f)

\* Every goroutine that can run does, and every request is answered.
Fairness ==
  /\ WF_vars(Group1) /\ WF_vars(Collector) /\ WF_vars(ListRelations) /\ WF_vars(Wait)
  /\ \A f \in Fetch : WF_vars(FetchStep(f))

Spec == Init /\ [][Next]_vars
FairSpec == Spec /\ Fairness

-----------------------------------------------------------------------------
(* Properties.                                                             *)

Running == {f \in Fetch : fetch[f] \in {"fetching", "appending", "failing", "releasing"}}

\* The types of the variables of GetFromKonnect and its goroutines.
TypeOK ==
  /\ pc \in {"list", "spawn", "read", "versions", "drain", "lock"} \cup Ended
  /\ next \in 1..NumPackages + 1
  /\ pending \subseteq Version
  /\ free \in 0..Concurrency
  /\ fetch \in [Fetch -> {"none", "fetching", "appending", "failing", "releasing", "done"}]
  /\ seen \in [Fetch -> SUBSET (Package \cup Version)] /\ documents \subseteq Package \cup Version
  /\ versions \in [Package -> SUBSET Version] /\ \A p \in Package : versions[p] \subseteq VersionsOf[p]
  /\ \A b \in {err2, errChanClosed, ctxDone} : b \in BOOLEAN
  /\ collector \in {"off", "receive", "store"}
  /\ relations \in {"running"} \cup Ended /\ result \in {"none"} \cup Ended

\* The semaphore accounts for every fetch under way, so that no more than
\* Concurrency requests are ever open: a permit too many breaks the bound, a
\* permit lost makes the final Acquire wait for ever.
PermitsExact == free + Cardinality(Running) = Concurrency

\* No fetch is left that could send on errChan once it is closed (the send
\* would panic), although the fetches are in no wait group.
NoSendOnClosed == errChanClosed => \A f \in Running : fetch[f] = "releasing"

\* GetFromKonnect succeeds only if no fetch has failed, the relations were
\* read, and the packages it returns have all their versions.
SuccessIsComplete ==
  result = "ok" =>
    /\ relations = "ok" /\ ~err2
    /\ \A f \in Fetch : fetch[f] # "failing"
    /\ \A p \in Package : versions[p] = VersionsOf[p]

\* What the comment on KonnectRawState says: it contains all the resources of
\* Konnect, so also all the documents, of packages and of versions.
ContainsAllDocuments == result = "ok" => documents = {f.of : f \in DocumentFetch}

\* GetFromKonnect returns, whatever fails and whoever cancels: neither the
\* semaphore, nor errChan, nor m makes the group wait for ever.
Returns == <>(result # "none")
=============================================================================
