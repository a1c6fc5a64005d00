------------------------- MODULE KonnectDumpProofs -------------------------
(* Theorems about KonnectDump, for any packages and versions and any        *)
(* semaphore of at least two permits.                                       *)
EXTENDS KonnectDump, FiniteSetTheorems, TLAPS

-----------------------------------------------------------------------------
(* The inductive invariant.                                                 *)

None(S) == \A f \in Fetch : f.of \in S => fetch[f] = "none"
Started(S) == \A f \in Fetch : f.of \in S => fetch[f] # "none"

\* The semaphore is exact, and finitely many fetches run.
PermitsInv == IsFiniteSet(Running) /\ PermitsExact

\* Which fetches have been started: the two of each package in the first loop,
\* that of each version in the second, each once.
SpawnInv ==
  /\ pc = "list" => next = 1
  /\ pc \in {"list", "spawn"} => None({p \in Package : p >= next} \cup Version)
  /\ pc = "spawn" => Started({p \in Package : p < next})
  /\ pc \notin {"list", "spawn", "error"} => Started(Package)
  /\ pc = "read" => \A p \in Package : p >= next => None(VersionsOf[p])
  /\ pc = "versions" =>
       /\ next \in Package /\ pending \subseteq VersionsOf[next] /\ None(pending)
       /\ \A p \in Package : p > next => None(VersionsOf[p])

\* errChan is closed after the last fetch and before m is locked.
ClosedInv ==
  /\ errChanClosed => pc \in {"lock"} \cup Ended /\ NoSendOnClosed
  /\ pc \in {"lock", "ok"} => errChanClosed
  /\ pc = "list" => collector = "off"

\* A fetch of versions that is over has got them or reported its error, and
\* the error is with the collector or in err2.
FetchedInv ==
  \A f \in VersionFetch :
    /\ fetch[f] # "appending"
    /\ fetch[f] \in {"releasing", "done"} =>
         versions[f.of] = VersionsOf[f.of] \/ err2 \/ collector = "store"

\* What the first goroutine and Wait have made of it.
ResultInv ==
  /\ pc = "ok" => ~err2 /\ collector = "off"
  /\ result = "ok" => pc = "ok" /\ relations = "ok"

IInv == TypeOK /\ PermitsInv /\ SpawnInv /\ ClosedInv /\ FetchedInv /\ ResultInv

-----------------------------------------------------------------------------
(* The fetches.                                                             *)

LEMMA FetchShape ==
  ASSUME NEW f \in Fetch
  PROVE  /\ f.of \in Package \cup Version
         /\ f \in VersionFetch => f.of \in Package /\ f = [of |-> f.of, kind |-> "versions"]
         /\ f \in DocumentFetch => f = [of |-> f.of, kind |-> "documents"]
BY DEF Fetch, VersionFetch, DocumentFetch

LEMMA PairOf ==
  ASSUME NEW p \in Package
  PROVE  LET v == [of |-> p, kind |-> "versions"]
             d == [of |-> p, kind |-> "documents"]
         IN  {f \in Fetch : f.of = p} = {v, d} /\ v # d /\ v \in Fetch /\ d \in Fetch
BY DEF Fetch, VersionFetch, DocumentFetch

LEMMA SingleOf ==
  ASSUME NEW v \in Version
  PROVE  LET d == [of |-> v, kind |-> "documents"]
         IN  {f \in DocumentFetch : f.of = v} = {d} /\ d \in Fetch
BY DEF Fetch, DocumentFetch

LEMMA PackagesAreNat == Package \subseteq Nat /\ Package \cap Version = {}
BY PackagesAssumption, VersionsAssumption DEF Package

\* What is started was not running before.
LEMMA RunningGrows ==
  ASSUME TypeOK, NEW fs \in SUBSET Fetch, NEW n, Start(fs, n), \A f \in fs : fetch[f] = "none"
  PROVE  Running' = Running \cup fs /\ Running \cap fs = {}
BY DEF TypeOK, Start, Running

\* The other steps but Release leave the fetches running that were.
LEMMA RunningSame ==
  ASSUME TypeOK, NEW f \in Fetch,
         \/ VersionsFetched(f) \/ DocumentsFetched(f) \/ DocumentsAppended(f)
         \/ FetchFails(f) \/ SendErr(f)
  PROVE  Running' = Running
<1>1. PICK to \in {"appending", "failing", "releasing"} :
        fetch[f] \in {"fetching", "appending", "failing"} /\ fetch' = [fetch EXCEPT ![f] = to]
  BY DEF VersionsFetched, DocumentsFetched, DocumentsAppended, FetchFails, SendErr, Move
<1> QED
  BY <1>1 DEF TypeOK, Running

LEMMA RunningShrinks ==
  ASSUME TypeOK, NEW f \in Fetch, Release(f)
  PROVE  Running' = Running \ {f} /\ f \in Running
BY DEF TypeOK, Release, Move, Running

\* The steps that leave the fetches alone.
Elsewhere ==
  \/ ListPackages \/ PairsSpawned \/ ReadVersions \/ NextPackage \/ AcquireFails \/ Drain \/ Lock
  \/ Collector \/ ListRelations \/ Wait \/ CancelContext \/ Done

LEMMA ElsewhereKeeps == Elsewhere => UNCHANGED <<free, fetch, data>>
BY DEF Elsewhere, ListPackages, PairsSpawned, ReadVersions, NextPackage, AcquireFails, Drain, Lock,
       Collector, CollectorStores, CollectorReturns, ListRelations, Wait, CancelContext, Done, vars, data

LEMMA NextSplit ==
  Next => \/ Elsewhere \/ SpawnPair \/ \E v \in pending : SpawnVersion(v)
          \/ \E f \in Fetch : FetchStep(f)
BY DEF Next, Group1, Elsewhere

\* What SpawnPair and SpawnVersion start is new.
LEMMA PairIsNew ==
  ASSUME TypeOK, SpawnInv, SpawnPair
  PROVE  next \in Package /\ \A f \in {g \in Fetch : g.of = next} : fetch[f] = "none"
<1>1. next \in Package
  BY PackagesAssumption DEF TypeOK, SpawnPair, Package
<1>2. None({p \in Package : p >= next} \cup Version) /\ next >= next
  BY <1>1, PackagesAreNat DEF SpawnInv, SpawnPair
<1> QED
  BY <1>1, <1>2 DEF None

LEMMA VersionIsNew ==
  ASSUME TypeOK, SpawnInv, NEW v \in pending, SpawnVersion(v)
  PROVE  v \in Version /\ \A f \in {g \in DocumentFetch : g.of = v} : fetch[f] = "none"
<1>1. v \in Version
  BY DEF TypeOK
<1>2. None(pending)
  BY DEF SpawnInv, SpawnVersion
<1> QED
  BY <1>1, <1>2 DEF None, Fetch

-----------------------------------------------------------------------------
(* The semaphore.                                                           *)

LEMMA PermitsStep == TypeOK /\ SpawnInv /\ PermitsInv /\ Next => PermitsInv'
<1> SUFFICES ASSUME TypeOK, SpawnInv, PermitsInv, Next PROVE PermitsInv'
  OBVIOUS
<1>0. IsFiniteSet(Running) /\ Cardinality(Running) \in Nat /\ free \in Int /\ Concurrency \in Int
      /\ free + Cardinality(Running) = Concurrency
  BY FS_CardinalityType, PackagesAssumption DEF PermitsInv, PermitsExact, TypeOK
<1>1. CASE Elsewhere
  BY <1>0, <1>1, ElsewhereKeeps DEF PermitsInv, PermitsExact, Running
<1>2. CASE SpawnPair
  <2> DEFINE v == [of |-> next, kind |-> "versions"]
             d == [of |-> next, kind |-> "documents"]
  <2>1. {f \in Fetch : f.of = next} = {v, d} /\ v # d
    BY <1>2, PairIsNew, PairOf
  <2>2. Start({f \in Fetch : f.of = next}, 2)
    BY <1>2 DEF SpawnPair
  <2>3. Running' = Running \cup {v, d} /\ Running \cap {v, d} = {}
    BY <1>2, <2>1, <2>2, PairIsNew, RunningGrows
  <2>4. IsFiniteSet(Running \cup {v}) /\ Cardinality(Running \cup {v}) = Cardinality(Running) + 1
    BY <1>0, <2>3, FS_AddElement
  <2>5. d \notin Running \cup {v}
    BY <2>1, <2>3
  <2>6. IsFiniteSet((Running \cup {v}) \cup {d})
        /\ Cardinality((Running \cup {v}) \cup {d}) = Cardinality(Running \cup {v}) + 1
    BY <2>4, <2>5, FS_AddElement
  <2>7. Running' = (Running \cup {v}) \cup {d}
    BY <2>3
  <2>8. free' = free - 2
    BY <2>2 DEF Start
  <2>9. Cardinality(Running') = Cardinality(Running) + 2
    <3> HIDE DEF v, d
    <3> QED BY <1>0, <2>4, <2>6, <2>7
  <2> QED
    BY <1>0, <2>6, <2>7, <2>8, <2>9 DEF PermitsInv, PermitsExact
<1>3. ASSUME NEW u \in pending, SpawnVersion(u) PROVE PermitsInv'
  <2> DEFINE d == [of |-> u, kind |-> "documents"]
  <2>1. {f \in DocumentFetch : f.of = u} = {d} /\ d \in Fetch
    BY <1>3, VersionIsNew, SingleOf
  <2>2. Start({f \in DocumentFetch : f.of = u}, 1)
    BY <1>3 DEF SpawnVersion
  <2>3. Running' = Running \cup {d} /\ Running \cap {d} = {}
    BY <1>3, <2>1, <2>2, VersionIsNew, RunningGrows
  <2>4. IsFiniteSet(Running \cup {d}) /\ Cardinality(Running \cup {d}) = Cardinality(Running) + 1
    BY <1>0, <2>3, FS_AddElement
  <2>5. free' = free - 1
    BY <2>2 DEF Start
  <2> QED
    BY <1>0, <2>3, <2>4, <2>5 DEF PermitsInv, PermitsExact
<1>4. ASSUME NEW f \in Fetch, FetchStep(f) PROVE PermitsInv'
  <2>1. CASE Release(f)
    <3>1. Running' = Running \ {f} /\ f \in Running
      BY <2>1, RunningShrinks
    <3>2. IsFiniteSet(Running \ {f}) /\ Cardinality(Running \ {f}) = Cardinality(Running) - 1
      BY <1>0, <3>1, FS_RemoveElement
    <3>3. free' = free + 1
      BY <2>1 DEF Release
    <3> QED
      BY <1>0, <3>1, <3>2, <3>3 DEF PermitsInv, PermitsExact
  <2>2. CASE ~Release(f)
    <3>1. Running' = Running
      BY <1>4, <2>2, RunningSame DEF FetchStep
    <3>2. free' = free
      BY <1>4, <2>2 DEF FetchStep, VersionsFetched, DocumentsFetched, DocumentsAppended, FetchFails, SendErr
    <3> QED
      BY <3>1, <3>2 DEF PermitsInv, PermitsExact
  <2> QED
    BY <2>1, <2>2
<1> QED
  BY <1>1, <1>2, <1>3, <1>4, NextSplit

-----------------------------------------------------------------------------
(* The types.                                                               *)

FetchState == {"none", "fetching", "appending", "failing", "releasing", "done"}

LEMMA FreeStep ==
  ASSUME TypeOK, Next, PermitsInv' PROVE free' \in 0..Concurrency
<1>1. Cardinality(Running)' \in Nat /\ (free + Cardinality(Running) = Concurrency)'
  BY FS_CardinalityType DEF PermitsInv, PermitsExact
<1>2. free' \in Int /\ free' >= 0
  <2>1. CASE Elsewhere
    BY <2>1, ElsewhereKeeps DEF TypeOK
  <2>2. CASE SpawnPair
    BY <2>2 DEF SpawnPair, Start, TypeOK
  <2>3. ASSUME NEW v \in pending, SpawnVersion(v) PROVE free' \in Int /\ free' >= 0
    BY <2>3 DEF SpawnVersion, Start, TypeOK
  <2>4. ASSUME NEW f \in Fetch, FetchStep(f) PROVE free' \in Int /\ free' >= 0
    BY <2>4 DEF FetchStep, VersionsFetched, DocumentsFetched, DocumentsAppended, FetchFails, SendErr,
                Release, TypeOK
  <2> QED
    BY <2>1, <2>2, <2>3, <2>4, NextSplit
<1> QED
  BY <1>1, <1>2, PackagesAssumption

LEMMA FetchTyped == TypeOK /\ Next => fetch' \in [Fetch -> FetchState]
<1> SUFFICES ASSUME TypeOK, Next PROVE fetch' \in [Fetch -> FetchState]
  OBVIOUS
<1>0. fetch \in [Fetch -> FetchState]
  BY DEF TypeOK, FetchState
<1>1. CASE Elsewhere
  BY <1>0, <1>1, ElsewhereKeeps
<1>2. ASSUME NEW fs, NEW n, Start(fs, n) PROVE fetch' \in [Fetch -> FetchState]
  BY <1>0, <1>2 DEF Start, FetchState
<1>3. ASSUME NEW f \in Fetch, FetchStep(f) PROVE fetch' \in [Fetch -> FetchState]
  BY <1>0, <1>3 DEF FetchStep, VersionsFetched, DocumentsFetched, DocumentsAppended, FetchFails,
       SendErr, Release, Move, FetchState
<1> QED
  BY <1>1, <1>2, <1>3, NextSplit DEF SpawnPair, SpawnVersion

DataTyped ==
  /\ seen \in [Fetch -> SUBSET (Package \cup Version)] /\ documents \subseteq Package \cup Version
  /\ versions \in [Package -> SUBSET Version] /\ \A p \in Package : versions[p] \subseteq VersionsOf[p]

LEMMA DataStep == TypeOK /\ Next => DataTyped'
<1> SUFFICES ASSUME TypeOK, Next PROVE DataTyped'
  OBVIOUS
<1>0. DataTyped
  BY DEF TypeOK, DataTyped
<1>1. CASE UNCHANGED data
  BY <1>0, <1>1 DEF data, DataTyped
<1>2. ASSUME NEW f \in Fetch, FetchStep(f) PROVE DataTyped'
  <2>1. CASE VersionsFetched(f)
    <3>1. f.of \in Package /\ VersionsOf[f.of] \subseteq Version
      BY <2>1, FetchShape DEF VersionsFetched, Version
    <3> QED
      BY <1>0, <2>1, <3>1 DEF VersionsFetched, DataTyped
  <2>2. CASE DocumentsFetched(f)
    BY <1>0, <2>2 DEF DocumentsFetched, DataTyped
  <2>3. CASE DocumentsAppended(f)
    BY <1>0, <2>3, FetchShape DEF DocumentsAppended, DataTyped
  <2>4. CASE FetchFails(f) \/ SendErr(f) \/ Release(f)
    BY <1>0, <2>4 DEF FetchFails, SendErr, Release, data, DataTyped
  <2> QED
    BY <1>2, <2>1, <2>2, <2>3, <2>4 DEF FetchStep
<1>3. SpawnPair \/ (\E v \in pending : SpawnVersion(v)) => UNCHANGED data
  BY DEF SpawnPair, SpawnVersion, Start
<1> QED
  BY <1>1, <1>2, <1>3, NextSplit, ElsewhereKeeps

LoopTyped ==
  /\ pc \in {"list", "spawn", "read", "versions", "drain", "lock"} \cup Ended
  /\ next \in 1..NumPackages + 1
  /\ pending \subseteq Version

LEMMA LoopStep == TypeOK /\ SpawnInv /\ Next => LoopTyped'
<1> SUFFICES ASSUME TypeOK, SpawnInv, Next PROVE LoopTyped'
  OBVIOUS
<1>0. LoopTyped /\ NumPackages \in Nat /\ next \in Int
  BY PackagesAssumption DEF TypeOK, LoopTyped
<1>1. CASE UNCHANGED loop
  BY <1>0, <1>1 DEF loop, LoopTyped
<1>2. CASE ListPackages \/ AcquireFails \/ Drain \/ Lock
  BY <1>0, <1>2 DEF ListPackages, AcquireFails, Drain, Lock, LoopTyped, Ended
<1>3. CASE SpawnPair \/ PairsSpawned
  BY <1>0, <1>3 DEF SpawnPair, PairsSpawned, LoopTyped, Ended
<1>4. CASE ReadVersions
  <2>1. next <= NumPackages => versions[next] \subseteq Version
    BY <1>0 DEF TypeOK, Package
  <2> QED
    BY <1>0, <1>4, <2>1 DEF ReadVersions, LoopTyped
<1>5. CASE NextPackage
  <2>1. next \in Package
    BY <1>5 DEF NextPackage, SpawnInv
  <2> QED
    BY <1>0, <1>5, <2>1 DEF NextPackage, LoopTyped, Package
<1>6. ASSUME NEW v \in pending, SpawnVersion(v) PROVE LoopTyped'
  BY <1>0, <1>6 DEF SpawnVersion, LoopTyped
<1>7. ASSUME NEW f \in Fetch, FetchStep(f) PROVE UNCHANGED loop
  BY <1>7 DEF FetchStep, VersionsFetched, DocumentsFetched, DocumentsAppended, FetchFails, SendErr, Release
<1>8. CASE Collector \/ ListRelations \/ Wait \/ CancelContext \/ Done
  BY <1>1, <1>8 DEF Collector, CollectorStores, CollectorReturns, ListRelations, Wait, CancelContext, Done,
       vars
<1> QED
  BY <1>1, <1>2, <1>3, <1>4, <1>5, <1>6, <1>7, <1>8 DEF Next, Group1

FlagsTyped ==
  /\ \A b \in {err2, errChanClosed, ctxDone} : b \in BOOLEAN
  /\ collector \in {"off", "receive", "store"}
  /\ relations \in {"running"} \cup Ended /\ result \in {"none"} \cup Ended

LEMMA FlagsStep == TypeOK /\ Next => FlagsTyped'
<1> SUFFICES ASSUME TypeOK, Next PROVE FlagsTyped'
  OBVIOUS
<1>0. FlagsTyped
  BY DEF TypeOK, FlagsTyped
<1>1. err2' \in BOOLEAN /\ errChanClosed' \in BOOLEAN /\ ctxDone' \in BOOLEAN
  <2>1. err2' \in {err2, TRUE} /\ errChanClosed' \in {errChanClosed, TRUE}
    BY DEF Next, Group1, Collector, FetchStep, ListPackages, SpawnPair, PairsSpawned, ReadVersions,
         NextPackage, SpawnVersion, Start, AcquireFails, Drain, Lock, CollectorStores, CollectorReturns,
         VersionsFetched, DocumentsFetched, DocumentsAppended, FetchFails, SendErr, Release,
         ListRelations, Wait, CancelContext, Done, vars
  <2>2. ASSUME NEW e, GroupError(e) PROVE ctxDone' \in BOOLEAN
    BY <2>2 DEF GroupError
  <2>3. \/ ctxDone' = ctxDone \/ ctxDone' = TRUE
        \/ GroupError("error") \/ GroupError(pc') \/ GroupError(relations')
    BY DEF Next, Group1, Collector, FetchStep, ListPackages, SpawnPair, PairsSpawned, ReadVersions,
         NextPackage, SpawnVersion, Start, AcquireFails, Drain, Lock, CollectorStores, CollectorReturns,
         VersionsFetched, DocumentsFetched, DocumentsAppended, FetchFails, SendErr, Release,
         ListRelations, Wait, CancelContext, Done, vars
  <2> QED
    BY <1>0, <2>1, <2>2, <2>3 DEF FlagsTyped
<1>2. collector' \in {"off", "receive", "store"}
  BY <1>0 DEF FlagsTyped, Next, Group1, Collector, FetchStep, ListPackages, SpawnPair, PairsSpawned,
       ReadVersions, NextPackage, SpawnVersion, Start, AcquireFails, Drain, Lock, CollectorStores,
       CollectorReturns, VersionsFetched, DocumentsFetched, DocumentsAppended, FetchFails, SendErr,
       Release, ListRelations, Wait, CancelContext, Done, vars
<1>3. relations' \in {"running"} \cup Ended /\ result' \in {"none"} \cup Ended
  <2>1. CASE ListRelations \/ Wait
    BY <1>0, <2>1 DEF FlagsTyped, ListRelations, Wait, Ended
  <2>2. CASE ~(ListRelations \/ Wait)
    BY <1>0, <2>2 DEF FlagsTyped, outcome, Next, Group1, Collector, FetchStep, ListPackages, SpawnPair,
         PairsSpawned, ReadVersions, NextPackage, SpawnVersion, Start, AcquireFails, Drain, Lock,
         CollectorStores, CollectorReturns, VersionsFetched, DocumentsFetched, DocumentsAppended,
         FetchFails, SendErr, Release, CancelContext, Done, vars
  <2> QED
    BY <2>1, <2>2
<1> QED
  BY <1>1, <1>2, <1>3 DEF FlagsTyped

LEMMA TypeStep == TypeOK /\ SpawnInv /\ PermitsInv' /\ Next => TypeOK'
BY FreeStep, FetchTyped, DataStep, LoopStep, FlagsStep
   DEF TypeOK, FetchState, DataTyped, LoopTyped, FlagsTyped

-----------------------------------------------------------------------------
(* What has been started.                                                   *)

\* No step ends a fetch that was not started, or takes back one that was.
LEMMA StartedStays ==
  ASSUME TypeOK, NEW f \in Fetch, FetchStep(f)
  PROVE  /\ UNCHANGED loop
         /\ \A g \in Fetch : fetch'[g] = "none" <=> fetch[g] = "none"
BY DEF TypeOK, FetchStep, VersionsFetched, DocumentsFetched, DocumentsAppended, FetchFails, SendErr,
       Release, Move, loop

\* Starting the fetches of fs leaves the others as they were.
LEMMA StartKeepsOthers ==
  ASSUME NEW fs, NEW n, Start(fs, n), NEW f \in Fetch
  PROVE  fetch'[f] = IF f \in fs THEN "fetching" ELSE fetch[f]
BY DEF Start

LEMMA SpawnStep == TypeOK /\ SpawnInv /\ Next => SpawnInv'
<1> SUFFICES ASSUME TypeOK, SpawnInv, Next PROVE SpawnInv'
  OBVIOUS
<1>0. NumPackages \in Nat /\ next \in Nat /\ 1 <= next /\ next <= NumPackages + 1
  BY PackagesAssumption DEF TypeOK
<1>1. CASE UNCHANGED loop /\ \A g \in Fetch : fetch'[g] = "none" <=> fetch[g] = "none"
  BY <1>1 DEF SpawnInv, None, Started, loop
<1>2. CASE ListPackages
  BY <1>2 DEF ListPackages, SpawnInv, None, Started, Package
<1>3. CASE SpawnPair
  <2>1. next \in Package /\ next \in Nat
    BY <1>0, <1>3, PairIsNew
  <2>2. \A f \in Fetch : f.of = next => fetch'[f] = "fetching"
    BY <1>3, StartKeepsOthers DEF SpawnPair
  <2>3. \A f \in Fetch : f.of # next => fetch'[f] = fetch[f]
    BY <1>3, StartKeepsOthers DEF SpawnPair
  <2>4. next' = next + 1 /\ pc' = "spawn" /\ pc = "spawn"
    BY <1>3 DEF SpawnPair
  <2>5. None({p \in Package : p >= next} \cup Version) /\ Started({p \in Package : p < next})
    BY <2>4 DEF SpawnInv
  <2>6. /\ \A p \in Package : p >= next + 1 => p # next /\ p >= next
        /\ \A p \in Package : p < next + 1 => p = next \/ p < next
    BY <2>1, PackagesAreNat
  <2>7. next \notin Version
    BY <2>1, PackagesAreNat
  <2>8. ASSUME NEW f \in Fetch, f.of \in {p \in Package : p >= next + 1} \cup Version
        PROVE  fetch'[f] = "none"
    <3>1. f.of # next /\ f.of \in {p \in Package : p >= next} \cup Version
      BY <2>6, <2>7, <2>8
    <3> QED
      BY <2>3, <2>5, <2>8, <3>1 DEF None
  <2>9. ASSUME NEW f \in Fetch, f.of \in {p \in Package : p < next + 1}
        PROVE  fetch'[f] # "none"
    <3>1. f.of = next \/ f.of \in {p \in Package : p < next}
      BY <2>6, <2>9
    <3> QED
      BY <2>2, <2>3, <2>5, <2>9, <3>1 DEF Started
  <2>10. None({p \in Package : p >= next} \cup Version)' /\ Started({p \in Package : p < next})'
    BY <2>4, <2>8, <2>9 DEF None, Started
  <2> QED
    BY <2>4, <2>10 DEF SpawnInv
<1>4. CASE PairsSpawned
  <2>1. Started(Package)
    BY <1>0, <1>4, PackagesAreNat DEF PairsSpawned, SpawnInv, Started, Package
  <2>2. \A p \in Package : None(VersionsOf[p])
    BY <1>4 DEF PairsSpawned, SpawnInv, None, Version
  <2> QED
    BY <1>4, <2>1, <2>2 DEF PairsSpawned, SpawnInv, None, Started
<1>5. CASE ReadVersions
  <2>1. fetch' = fetch /\ next' = next /\ Started(Package) /\ pc = "read"
        /\ \A p \in Package : p >= next => None(VersionsOf[p])
    BY <1>5 DEF ReadVersions, SpawnInv
  <2>2. CASE next <= NumPackages
    <3>1. next \in Package /\ pc' = "versions" /\ pending' = versions[next]
      BY <1>0, <1>5, <2>2 DEF ReadVersions, Package
    <3>2. pending' \subseteq VersionsOf[next] /\ next >= next
      BY <1>0, <3>1 DEF TypeOK
    <3>3. None(pending')
      BY <2>1, <3>1, <3>2 DEF None
    <3>4. \A p \in Package : p > next => None(VersionsOf[p])
      BY <2>1, <1>0, PackagesAreNat
    <3> QED
      BY <2>1, <3>1, <3>2, <3>3, <3>4 DEF SpawnInv, None, Started
  <2>3. CASE ~(next <= NumPackages)
    BY <1>5, <2>1, <2>3 DEF ReadVersions, SpawnInv, None, Started
  <2> QED
    BY <2>2, <2>3
<1>6. CASE NextPackage
  <2>1. next' = next + 1 /\ fetch' = fetch /\ pc = "versions" /\ pc' = "read"
    BY <1>6 DEF NextPackage
  <2>2. \A p \in Package : p > next => None(VersionsOf[p])
    BY <2>1 DEF SpawnInv
  <2>3. \A p \in Package : p >= next + 1 => p > next
    BY <1>0, PackagesAreNat
  <2> QED
    BY <2>1, <2>2, <2>3 DEF SpawnInv, None, Started
<1>7. ASSUME NEW v \in pending, SpawnVersion(v) PROVE SpawnInv'
  <2>1. \A f \in Fetch : fetch'[f] = "none" => fetch[f] = "none"
    BY <1>7, StartKeepsOthers DEF SpawnVersion
  <2>2. \A f \in Fetch : f.of # v => fetch'[f] = fetch[f]
    BY <1>7, StartKeepsOthers DEF SpawnVersion
  <2>3. /\ pc = "versions" /\ pc' = "versions" /\ next' = next /\ pending' = pending \ {v}
        /\ next \in Package /\ pending \subseteq VersionsOf[next] /\ None(pending)
        /\ \A p \in Package : p > next => None(VersionsOf[p])
        /\ Started(Package)
    BY <1>7 DEF SpawnVersion, SpawnInv
  <2>4. None(pending)'
    BY <2>2, <2>3 DEF None
  <2>5. ASSUME NEW p \in Package, p > next PROVE None(VersionsOf[p])'
    <3>1. v \notin VersionsOf[p]
      BY <1>0, <2>3, <2>5, VersionsAssumption, PackagesAreNat
    <3> QED
      BY <2>2, <2>3, <2>5, <3>1 DEF None
  <2>6. Started(Package)'
    BY <2>1, <2>3 DEF Started
  <2> QED
    BY <2>3, <2>4, <2>5, <2>6 DEF SpawnInv, None, Started
<1>8. CASE AcquireFails
  BY <1>8 DEF AcquireFails, SpawnInv, None, Started
<1>9. CASE Drain \/ Lock
  BY <1>9 DEF Drain, Lock, SpawnInv, None, Started
<1>10. CASE Collector \/ ListRelations \/ Wait \/ CancelContext \/ Done
  BY <1>1, <1>10 DEF Collector, CollectorStores, CollectorReturns, ListRelations, Wait, CancelContext,
       Done, vars
<1> QED
  BY <1>1, <1>2, <1>3, <1>4, <1>5, <1>6, <1>7, <1>8, <1>9, <1>10, StartedStays DEF Next, Group1

-----------------------------------------------------------------------------
(* The channel, and what was fetched.                                       *)

LEMMA ClosedStep == TypeOK /\ PermitsInv /\ ClosedInv /\ Next => ClosedInv'
<1> SUFFICES ASSUME TypeOK, PermitsInv, ClosedInv, Next PROVE ClosedInv'
  OBVIOUS
<1>1. CASE Drain
  <2>1. Cardinality(Running) = 0
    BY <1>1, FS_CardinalityType, PackagesAssumption DEF Drain, PermitsInv, PermitsExact
  <2>2. Running = {}
    BY <2>1, FS_EmptySet DEF PermitsInv
  <2>3. Running' = {}
    BY <1>1, <2>2 DEF Drain, Running
  <2> QED
    BY <1>1, <2>3 DEF Drain, ClosedInv, NoSendOnClosed
<1>2. CASE Elsewhere /\ ~Drain
  <2>1. UNCHANGED <<fetch, errChanClosed>>
    BY <1>2 DEF Elsewhere, ListPackages, PairsSpawned, ReadVersions, NextPackage, AcquireFails, Lock,
         Collector, CollectorStores, CollectorReturns, ListRelations, Wait, CancelContext, Done, vars
  <2>2. NoSendOnClosed <=> NoSendOnClosed'
    BY <2>1 DEF NoSendOnClosed, Running
  <2>3. errChanClosed' => pc' \in {"lock"} \cup Ended
    BY <1>2, <2>1 DEF ClosedInv, Ended, Elsewhere, ListPackages, PairsSpawned, ReadVersions, NextPackage,
         AcquireFails, Lock, Collector, CollectorStores, CollectorReturns, ListRelations, Wait,
         CancelContext, Done, vars, loop
  <2>4. pc' \in {"lock", "ok"} => pc \in {"lock", "ok"}
    BY <1>2 DEF Elsewhere, ListPackages, PairsSpawned, ReadVersions, NextPackage, AcquireFails, Lock,
         Collector, CollectorStores, CollectorReturns, ListRelations, Wait, CancelContext, Done, vars, loop
  <2>5. pc' = "list" => pc = "list" /\ (collector = "off" => collector' = "off")
    BY <1>2 DEF Elsewhere, ListPackages, PairsSpawned, ReadVersions, NextPackage, AcquireFails, Lock,
         Collector, CollectorStores, CollectorReturns, ListRelations, Wait, CancelContext, Done, vars, loop
  <2> QED
    BY <2>1, <2>2, <2>3, <2>4, <2>5 DEF ClosedInv
<1>3. CASE SpawnPair \/ \E v \in pending : SpawnVersion(v)
  <2>1. ~errChanClosed /\ UNCHANGED <<pc, errChanClosed, collector>> /\ pc \in {"spawn", "versions"}
    BY <1>3 DEF SpawnPair, SpawnVersion, Start, ClosedInv, Ended
  <2> QED
    BY <2>1 DEF ClosedInv, NoSendOnClosed
<1>4. ASSUME NEW f \in Fetch, FetchStep(f) PROVE ClosedInv'
  <2>1. UNCHANGED <<pc, errChanClosed>>
    BY <1>4 DEF FetchStep, VersionsFetched, DocumentsFetched, DocumentsAppended, FetchFails, SendErr,
         Release, loop
  <2>2. NoSendOnClosed => NoSendOnClosed'
    BY <1>4 DEF TypeOK, NoSendOnClosed, Running, FetchStep, VersionsFetched, DocumentsFetched,
         DocumentsAppended, FetchFails, SendErr, Release, Move
  <2>3. collector = "off" => collector' = "off"
    BY <1>4 DEF FetchStep, VersionsFetched, DocumentsFetched, DocumentsAppended, FetchFails, SendErr, Release
  <2> QED
    BY <2>1, <2>2, <2>3 DEF ClosedInv
<1> QED
  BY <1>1, <1>2, <1>3, <1>4, NextSplit

LEMMA FetchedStep == TypeOK /\ ClosedInv /\ FetchedInv /\ Next => FetchedInv'
<1> SUFFICES ASSUME TypeOK, ClosedInv, FetchedInv, Next, NEW f \in VersionFetch
             PROVE  /\ fetch'[f] # "appending"
                    /\ fetch'[f] \in {"releasing", "done"} =>
                         versions'[f.of] = VersionsOf[f.of] \/ err2' \/ collector' = "store"
  BY DEF FetchedInv
<1>0. f \in Fetch /\ f.of \in Package /\ f \notin DocumentFetch
  BY DEF Fetch, VersionFetch, DocumentFetch
<1>1. CASE Elsewhere
  <2>1. UNCHANGED <<fetch, versions>>
    BY <1>1, ElsewhereKeeps DEF data
  <2>2. err2 => err2'
    BY <1>1 DEF Elsewhere, ListPackages, PairsSpawned, ReadVersions, NextPackage, AcquireFails, Drain, Lock,
         Collector, CollectorStores, CollectorReturns, ListRelations, Wait, CancelContext, Done, vars
  <2>3. collector = "store" => collector' = "store" \/ err2'
    BY <1>1 DEF ClosedInv, Elsewhere, ListPackages, PairsSpawned, ReadVersions, NextPackage, AcquireFails,
         Drain, Lock, Collector, CollectorStores, CollectorReturns, ListRelations, Wait, CancelContext,
         Done, vars
  <2> QED
    BY <2>1, <2>2, <2>3 DEF FetchedInv
<1>2. CASE SpawnPair \/ \E v \in pending : SpawnVersion(v)
  <2>1. PICK fs, n : Start(fs, n)
    BY <1>2 DEF SpawnPair, SpawnVersion
  <2> QED
    BY <1>0, <2>1, StartKeepsOthers DEF FetchedInv, Start, data
<1>3. ASSUME NEW g \in Fetch, FetchStep(g) PROVE
        /\ fetch'[f] # "appending"
        /\ fetch'[f] \in {"releasing", "done"} =>
             versions'[f.of] = VersionsOf[f.of] \/ err2' \/ collector' = "store"
  <2>1. CASE VersionsFetched(g)
    BY <1>0, <2>1 DEF TypeOK, FetchedInv, VersionsFetched, Move
  <2>2. CASE DocumentsFetched(g)
    BY <1>0, <2>2 DEF TypeOK, FetchedInv, DocumentsFetched, Move
  <2>3. CASE DocumentsAppended(g)
    BY <1>0, <2>3 DEF TypeOK, FetchedInv, DocumentsAppended, Move
  <2>4. CASE FetchFails(g)
    BY <1>0, <2>4 DEF TypeOK, FetchedInv, FetchFails, Move, data
  <2>5. CASE SendErr(g)
    BY <1>0, <2>5 DEF TypeOK, FetchedInv, SendErr, Move, data
  <2>6. CASE Release(g)
    BY <1>0, <2>6 DEF TypeOK, FetchedInv, Release, Move, data
  <2> QED
    BY <1>3, <2>1, <2>2, <2>3, <2>4, <2>5, <2>6 DEF FetchStep
<1> QED
  BY <1>1, <1>2, <1>3, NextSplit

-----------------------------------------------------------------------------
(* The result.                                                              *)

LEMMA ResultStep == TypeOK /\ ClosedInv /\ ResultInv /\ Next => ResultInv'
<1> SUFFICES ASSUME TypeOK, ClosedInv, ResultInv, Next PROVE ResultInv'
  OBVIOUS
<1>1. CASE Lock
  BY <1>1 DEF Lock, ResultInv, outcome
<1>2. CASE Wait
  BY <1>2 DEF Wait, ResultInv, Ended, loop
<1>3. CASE Elsewhere /\ ~Lock /\ ~Wait
  <2>1. (pc' = "ok" => pc = "ok") /\ (pc = "ok" => pc' = "ok")
    BY <1>3 DEF Elsewhere, ListPackages, PairsSpawned, ReadVersions, NextPackage, AcquireFails, Drain,
         Collector, CollectorStores, CollectorReturns, ListRelations, CancelContext, Done, vars, loop
  <2>2. pc = "ok" /\ ~err2 /\ collector = "off" => ~err2' /\ collector' = "off"
    BY <1>3 DEF Elsewhere, ListPackages, PairsSpawned, ReadVersions, NextPackage, AcquireFails, Drain,
         Collector, CollectorStores, CollectorReturns, ListRelations, CancelContext, Done, vars
  <2>3. result' = result /\ (relations = "ok" => relations' = "ok")
    BY <1>3 DEF Elsewhere, ListPackages, PairsSpawned, ReadVersions, NextPackage, AcquireFails, Drain,
         Collector, CollectorStores, CollectorReturns, ListRelations, CancelContext, Done, vars, outcome
  <2> QED
    BY <2>1, <2>2, <2>3 DEF ResultInv
<1>4. CASE SpawnPair \/ \E v \in pending : SpawnVersion(v)
  BY <1>4 DEF SpawnPair, SpawnVersion, Start, ResultInv, outcome
<1>5. ASSUME NEW f \in Fetch, FetchStep(f) PROVE ResultInv'
  BY <1>5 DEF FetchStep, VersionsFetched, DocumentsFetched, DocumentsAppended, FetchFails, SendErr,
       Release, ResultInv, outcome, loop
<1> QED
  BY <1>1, <1>2, <1>3, <1>4, <1>5, NextSplit

-----------------------------------------------------------------------------
(* The theorems.                                                            *)

LEMMA InitIInv == Init => IInv
<1> SUFFICES ASSUME Init PROVE IInv
  OBVIOUS
<1>1. TypeOK
  <2>1. next \in 1..NumPackages + 1 /\ free \in 0..Concurrency
    BY PackagesAssumption DEF Init
  <2>2. /\ fetch \in [Fetch -> {"none", "fetching", "appending", "failing", "releasing", "done"}]
        /\ seen \in [Fetch -> SUBSET (Package \cup Version)]
        /\ versions \in [Package -> SUBSET Version] /\ \A p \in Package : versions[p] \subseteq VersionsOf[p]
    BY DEF Init
  <2> QED
    BY <2>1, <2>2 DEF Init, TypeOK
<1>2. Running = {}
  BY DEF Init, Running
<1>3. PermitsInv
  BY <1>2, FS_EmptySet, PackagesAssumption DEF PermitsInv, PermitsExact, Init
<1>4. SpawnInv /\ ClosedInv /\ FetchedInv /\ ResultInv
  BY DEF Init, SpawnInv, None, ClosedInv, FetchedInv, ResultInv, Fetch
<1> QED
  BY <1>1, <1>3, <1>4 DEF IInv

LEMMA StutterIInv == IInv /\ UNCHANGED vars => IInv'
<1> SUFFICES ASSUME IInv, UNCHANGED vars PROVE IInv'
  OBVIOUS
<1>1. TypeOK' /\ Running' = Running
  BY DEF IInv, TypeOK, Running, vars, loop, data, outcome
<1>2. PermitsInv' /\ (NoSendOnClosed' <=> NoSendOnClosed)
  BY <1>1 DEF IInv, PermitsInv, PermitsExact, NoSendOnClosed, vars
<1>3. SpawnInv' /\ FetchedInv' /\ ResultInv'
  BY DEF IInv, SpawnInv, None, Started, FetchedInv, ResultInv, vars, loop, data, outcome
<1>4. ClosedInv'
  BY <1>2 DEF IInv, ClosedInv, vars, loop
<1> QED
  BY <1>1, <1>2, <1>3, <1>4 DEF IInv

LEMMA IInvStep == IInv /\ [Next]_vars => IInv'
BY StutterIInv, PermitsStep, TypeStep, SpawnStep, ClosedStep, FetchedStep, ResultStep DEF IInv

\* Every reachable state of a dump satisfies the inductive invariant: its types,
\* the account of the permits of the semaphore, and what is where when the
\* channel is closed and when GetFromKonnect returns.
THEOREM DumpInvariance == Spec => []IInv
BY InitIInv, IInvStep, PTL DEF Spec

\* The variables of GetFromKonnect and its goroutines keep their types.
THEOREM TypesHold == Spec => []TypeOK
<1>1. IInv => TypeOK
  BY DEF IInv
<1> QED
  BY <1>1, DumpInvariance, PTL

\* The semaphore accounts for every fetch under way, whatever fails and
\* whenever the context is cancelled.
THEOREM PermitsAreExact == Spec => []PermitsExact
<1>1. IInv => PermitsExact
  BY DEF IInv, PermitsInv
<1> QED
  BY <1>1, DumpInvariance, PTL

\* No fetch sends on errChan after it is closed: the last Acquire waits for all
\* of them, and where it fails the channel stays open.
THEOREM ErrChanIsOpen == Spec => []NoSendOnClosed
<1>1. IInv => NoSendOnClosed
  BY DEF IInv, ClosedInv, NoSendOnClosed
<1> QED
  BY <1>1, DumpInvariance, PTL

\* GetFromKonnect succeeds only with the versions of every package, the
\* relations, and no failed fetch.
THEOREM SuccessMeansComplete == Spec => []SuccessIsComplete
<1>1. ASSUME IInv PROVE SuccessIsComplete
  <2> SUFFICES ASSUME result = "ok" PROVE
        /\ relations = "ok" /\ ~err2
        /\ \A f \in Fetch : fetch[f] # "failing"
        /\ \A p \in Package : versions[p] = VersionsOf[p]
    BY DEF SuccessIsComplete
  <2>1. pc = "ok" /\ relations = "ok" /\ ~err2 /\ collector = "off"
    BY <1>1 DEF IInv, ResultInv
  <2>2. \A f \in Fetch : fetch[f] \in {"none", "releasing", "done"}
    <3>1. \A f \in Running : fetch[f] = "releasing"
      BY <1>1, <2>1 DEF IInv, ClosedInv, NoSendOnClosed
    <3> QED
      BY <1>1, <3>1 DEF IInv, TypeOK, Running
  <2>3. ASSUME NEW p \in Package PROVE versions[p] = VersionsOf[p]
    <3> DEFINE f == [of |-> p, kind |-> "versions"]
    <3>1. f \in VersionFetch /\ f \in Fetch /\ f.of = p
      BY DEF Fetch, VersionFetch
    <3>2. fetch[f] # "none"
      BY <1>1, <2>1, <3>1 DEF IInv, SpawnInv, Started
    <3> QED
      BY <1>1, <2>1, <2>2, <3>1, <3>2 DEF IInv, FetchedInv
  <2> QED
    BY <2>1, <2>2, <2>3
<1> QED
  BY <1>1, DumpInvariance, PTL
=============================================================================
