---------------------------- MODULE ReportProofs ----------------------------
(* Solve behaves as Syncer does, so that what SyncerProofs proves of the     *)
(* engine holds with the function of Solve in it.  Then: the channel of      *)
(* results, the counters of Solve, the schema cache and the types, for any   *)
(* workers, events, schemas, capacities and ways to call Solve.              *)
EXTENDS SolveReport, SyncerProofs

-----------------------------------------------------------------------------
(* Solve implements Syncer.                                                  *)

LEMMA BareIsSyncerStep == ASSUME NEW w \in Worker, ReturnsBare(w) PROVE WorkerStep(w)
BY DEF ReturnsBare, WorkerStep

LEMMA ReturnIsSyncerStep == ASSUME NEW w \in Worker, NEW a, Returns(w, a) PROVE WorkerStep(w)
BY DEF Returns, WorkerStep

\* Inside the function a worker stands still in Syncer until it returns.
LEMMA InFunctionMapped ==
  ASSUME NEW w \in Worker, InFunction(w)
  PROVE  WorkerStep(w) \/ UNCHANGED vars
<1>1. CASE WorkspaceFails(w) \/ FetchFails(w) \/ FillDefaultsFails(w)
  BY <1>1, BareIsSyncerStep DEF WorkspaceFails, FetchFails, FillDefaultsFails
<1>2. CASE DescribeFails(w)
  BY <1>2 DEF DescribeFails, WorkerStep
<1>3. CASE Request(w)
  BY <1>3, ReturnIsSyncerStep DEF Request
<1>4. CASE SendResult(w)
  BY <1>4, ReturnIsSyncerStep DEF SendResult
<1>5. CASE \/ WorkspaceExists(w) \/ Lookup(w) \/ Fetch(w) \/ Store(w)
           \/ ReadHeader(w) \/ WriteHeader(w)
  BY <1>5 DEF WorkspaceExists, Lookup, Fetch, Store, ReadHeader, WriteHeader
<1> QED
  BY <1>1, <1>2, <1>3, <1>4, <1>5 DEF InFunction

LEMMA OutsideMapped ==
  ASSUME NEW w \in Worker, OutsideFunction(w) PROVE WorkerStep(w)
BY DEF OutsideFunction, WorkerStep

\* Every step of Solve is a step of Syncer or leaves its variables alone.
LEMMA SolveStepMapped == SolveNext => [Next]_vars
<1> SUFFICES ASSUME SolveNext PROVE Next \/ UNCHANGED vars
  OBVIOUS
<1>1. ASSUME NEW w \in Worker, SolveWorker(w) PROVE Next \/ UNCHANGED vars
  BY <1>1, InFunctionMapped, OutsideMapped DEF SolveWorker, Next
<1>2. CASE CloseResultChan \/ ReceiveResult
  BY <1>2 DEF CloseResultChan, ReceiveResult
<1>3. CASE Producer \/ Main \/ CancelContext \/ Done
  BY <1>3 DEF Next
<1> QED
  BY <1>1, <1>2, <1>3 DEF SolveNext, Running

\* Solve implements Syncer: the function adds detail to what a worker does
\* between taking an event and its answer, and takes no liberties with Run.
THEOREM SolveImplementsSyncer == SolveSpec => Spec
<1>1. SolveInit => Init
  BY DEF SolveInit
<1>2. [SolveNext]_solveVars => [Next]_vars
  BY SolveStepMapped DEF solveVars
<1> QED
  BY <1>1, <1>2, PTL DEF SolveSpec, Spec

\* The inductive invariant of the engine, and with it the barrier between
\* stages, the count of wait() and the errors, hold in Solve.
THEOREM SolveKeepsEngine == SolveSpec => []IInv
BY SolveImplementsSyncer, Invariance

-----------------------------------------------------------------------------
(* The channel of results.                                                  *)

\* The channel is closed after errChan, that is, after every worker is gone.
ClosedLast == resultChanClosed => errChanClosed

LEMMA ClosedLastHolds == SolveSpec => []ClosedLast
<1>1. SolveInit => ClosedLast
  BY DEF SolveInit, ClosedLast
<1>2. ASSUME [Next]_vars, errChanClosed PROVE errChanClosed'
  <2>1. CASE UNCHANGED vars
    BY <1>2, <2>1 DEF vars, mainVars
  <2>2. CASE Producer
    BY <1>2, <2>2 DEF Producer, EmitEvent, EnqueueEvent, EnqueueRefused, DifferFails, StageEmitted,
         WaitReturns, NextStage, SendProducerErr, ReceiveErr, CloseEventChan, mainVars
  <2>3. ASSUME NEW w \in Worker, WorkerStep(w) PROVE errChanClosed'
    BY <1>2, <2>3 DEF WorkerStep, Receive, LoopEnds, StopSeen, HandleEvent, StartHandling,
         CallSucceeds, CallFails, ServerError, Retry, PostProcessed, PostProcessFails, Goto,
         EventCompleted, SendWorkerErr, WorkerErrSent, ReceiveErr, mainVars
  <2>4. CASE Main \/ CancelContext \/ Done
    BY <1>2, <2>4 DEF Main, CloseErrChan, SelectCtxDone, SelectErrChanClosed, CloseStopChan,
         RunReturns, CollectDropped, SolveReturns, CancelContext, Done, vars, mainVars
  <2> QED
    BY <1>2, <2>1, <2>2, <2>3, <2>4 DEF Next
<1>3. ASSUME [SolveNext]_solveVars PROVE [Next]_vars
  BY <1>3, SolveStepMapped DEF solveVars
<1>4. ASSUME [SolveNext]_solveVars
      PROVE UNCHANGED resultChanClosed \/ (CloseResultChan /\ resultChanClosed' /\ errChanClosed)
  <2>1. ASSUME NEW w \in Worker, InFunction(w) PROVE UNCHANGED resultChanClosed
    BY <2>1 DEF InFunction, WorkspaceExists, WorkspaceFails, Lookup, Fetch, FetchFails, Store,
         FillDefaultsFails, DescribeFails, ReadHeader, WriteHeader, Request, SendResult, ReturnsBare,
         resultVars
  <2>2. ASSUME NEW w \in Worker, OutsideFunction(w) PROVE UNCHANGED resultChanClosed
    BY <2>2 DEF OutsideFunction, resultVars
  <2> QED
    BY <1>4, <2>1, <2>2 DEF SolveNext, Running, SolveWorker, CloseResultChan, ReceiveResult,
         solveVars, reportVars, resultVars
<1>5. ClosedLast /\ [SolveNext]_solveVars => ClosedLast'
  BY <1>2, <1>3, <1>4 DEF ClosedLast, CloseResultChan, vars, mainVars
<1> QED
  BY <1>1, <1>5, PTL DEF SolveSpec

\* No worker ever sends on the closed channel of results, which would panic.
THEOREM ResultChanIsOpen == SolveSpec => []NoSendOnClosedResults
<1>1. ClosedLast /\ IInv => NoSendOnClosedResults
  BY DEF ClosedLast, IInv, MainInv, NoSendOnClosedResults, At
<1> QED
  BY <1>1, ClosedLastHolds, SolveKeepsEngine, PTL

USE DEF prodVars, chanVars, workVars, mainVars, callVars, resultVars, historyVars

-----------------------------------------------------------------------------
(* What the steps of Solve do to the workers.                               *)

\* Every event that was answered well is one of these.
Begun == {"executing", "applied", "failed"}

BegunStays == \A e \in Event : status[e] \in Begun => status'[e] \in Begun

\* The producer, Run and the caller leave the workers alone.
LEMMA EngineFrame ==
  ASSUME IInv, Producer \/ Main \/ CancelContext \/ Done
  PROVE  wpc' = wpc /\ wev' = wev /\ BegunStays
<1>1. status \in [Event -> Status]
  BY DEF IInv, TypeOK
<1>2. ASSUME NEW e \in Event, EmitEvent(e) PROVE wpc' = wpc /\ wev' = wev /\ BegunStays
  BY <1>1, <1>2 DEF EmitEvent, BegunStays, Begun
<1>3. CASE EnqueueEvent \/ EnqueueRefused
  <2>1. cur \in Event /\ status[cur] = "enqueuing"
    BY <1>3 DEF EnqueueEvent, EnqueueRefused, IInv, TypeOK, ProducerInv
  <2> QED
    BY <1>1, <1>3, <2>1 DEF EnqueueEvent, EnqueueRefused, BegunStays, Begun
<1>4. CASE CollectDropped
  <2>1. \A e \in Event : e \in {eventChan[i] : i \in 1..Len(eventChan)} => status[e] = "queued"
    BY DEF IInv, QueueInv
  <2> QED
    BY <1>1, <1>4, <2>1 DEF CollectDropped, BegunStays, Begun
<1>5. CASE \/ DifferFails \/ StageEmitted \/ WaitReturns \/ SendProducerErr \/ CloseEventChan
           \/ CloseErrChan \/ SelectCtxDone \/ SelectErrChanClosed \/ CloseStopChan \/ RunReturns
           \/ SolveReturns \/ CancelContext \/ Done
  BY <1>5 DEF DifferFails, StageEmitted, WaitReturns, NextStage, SendProducerErr, CloseEventChan,
     CloseErrChan, SelectCtxDone, SelectErrChanClosed, CloseStopChan, RunReturns, SolveReturns,
     CancelContext, Done, vars, BegunStays
<1> QED
  BY <1>2, <1>3, <1>4, <1>5 DEF Producer, Main

\* What a step of a worker outside the function does to it. (It may take a
\* queued event, which has not begun.)
OutsideMoves(w) ==
  \/ wpc[w] = "recv" /\ wpc'[w] = "check" /\ wev'[w] \in Event /\ status[wev'[w]] = "queued"
  \/ wpc[w] = "recv" /\ wpc'[w] = "exited" /\ wev'[w] = wev[w]
  \/ wpc[w] = "check" /\ wpc'[w] = "exited" /\ wev'[w] = NoEvent
  \/ wpc[w] \in {"check", "backoff"} /\ wpc'[w] = "call" /\ wev'[w] = wev[w]
  \/ wpc[w] = "post" /\ wpc'[w] \in {"ok", "err"} /\ wev'[w] = wev[w]
  \/ wpc[w] = "ok" /\ wpc'[w] = "recv" /\ wev'[w] = NoEvent
  \/ wpc[w] = "err" /\ wpc'[w] = "sendErr" /\ wev'[w] = wev[w]
  \/ wpc[w] = "sendErr" /\ wpc'[w] = "exited" /\ wev'[w] = NoEvent

Others(w) == \A v \in Worker \ {w} : wpc'[v] = wpc[v] /\ wev'[v] = wev[v]

LEMMA OutsideFrame ==
  ASSUME IInv, NEW w \in Worker, OutsideFunction(w)
  PROVE  OutsideMoves(w) /\ Others(w) /\ BegunStays
<1>1. /\ status \in [Event -> Status] /\ wpc \in [Worker -> WorkerPc]
      /\ wev \in [Worker -> Event \cup {NoEvent}]
  BY DEF IInv, TypeOK
<1>2. CASE Receive(w)
  <2>1. Head(eventChan) \in Event /\ status[Head(eventChan)] = "queued"
    BY <1>2, ReceiveTakes DEF IInv
  <2> QED
    BY <1>1, <1>2, <2>1 DEF Receive, OutsideMoves, Others, BegunStays, Begun
<1>3. CASE LoopEnds(w)
  BY <1>1, <1>3 DEF LoopEnds, OutsideMoves, Others, BegunStays
<1>4. CASE StopSeen(w)
  <2>1. wev[w] \in Event /\ status[wev[w]] = "taken"
    BY <1>4, Held DEF StopSeen, IInv
  <2> QED
    BY <1>1, <1>4, <2>1 DEF StopSeen, OutsideMoves, Others, BegunStays, Begun
<1>5. CASE HandleEvent(w)
  BY <1>1, <1>5 DEF HandleEvent, StartHandling, OutsideMoves, Others, BegunStays, Begun
<1>6. CASE Retry(w)
  BY <1>1, <1>6 DEF Retry, OutsideMoves, Others, BegunStays
<1>7. CASE PostProcessed(w) \/ PostProcessFails(w)
  BY <1>1, <1>7 DEF PostProcessed, PostProcessFails, Goto, OutsideMoves, Others, BegunStays
<1>8. CASE EventCompleted(w)
  BY <1>1, <1>8 DEF EventCompleted, OutsideMoves, Others, BegunStays, Begun
<1>9. CASE SendWorkerErr(w)
  BY <1>1, <1>9 DEF SendWorkerErr, WorkerErrSent, OutsideMoves, Others, BegunStays
<1> QED
  BY <1>2, <1>3, <1>4, <1>5, <1>6, <1>7, <1>8, <1>9 DEF OutsideFunction

\* Inside the function a worker keeps its event and touches no other worker.
InsideMoves(w) ==
  /\ wpc[w] = "call" /\ wpc'[w] \in {"call", "backoff", "err", "post"}
  /\ wev' = wev /\ status' = status

LEMMA BareFrame ==
  ASSUME IInv, NEW w \in Worker, wpc[w] = "call", ReturnsBare(w)
  PROVE  InsideMoves(w) /\ Others(w) /\ wpc'[w] \in {"backoff", "err"}
BY DEF ReturnsBare, ServerError, CallFails, Goto, InsideMoves, Others, IInv, TypeOK

LEMMA ReturnFrame ==
  ASSUME IInv, NEW w \in Worker, wpc[w] = "call", NEW a, Returns(w, a)
  PROVE  InsideMoves(w) /\ Others(w) /\ wpc'[w] = IF a = "ok" THEN "post" ELSE "err"
BY DEF Returns, CallSucceeds, CallFails, Goto, InsideMoves, Others, IInv, TypeOK

LEMMA InsideFrame ==
  ASSUME IInv, NEW w \in Worker, InFunction(w)
  PROVE  InsideMoves(w) /\ Others(w)
<1>1. wpc[w] = "call"
  BY DEF InFunction, WorkspaceExists, WorkspaceFails, Lookup, Fetch, FetchFails, Store,
     FillDefaultsFails, DescribeFails, ReadHeader, WriteHeader, Request, SendResult, At
<1>2. CASE UNCHANGED vars
  BY <1>1, <1>2 DEF vars, InsideMoves, Others
<1>3. CASE ReturnsBare(w)
  BY <1>1, <1>3, BareFrame
<1>4. CASE CallFails(w)
  BY <1>1, <1>4 DEF CallFails, Goto, InsideMoves, Others, IInv, TypeOK
<1>5. ASSUME NEW a, Returns(w, a) PROVE InsideMoves(w) /\ Others(w)
  BY <1>1, <1>5, ReturnFrame
<1> QED
  BY <1>2, <1>3, <1>4, <1>5 DEF InFunction, WorkspaceExists, WorkspaceFails, Lookup, Fetch, FetchFails,
     Store, FillDefaultsFails, DescribeFails, ReadHeader, WriteHeader, Request, SendResult

-----------------------------------------------------------------------------
(* The inductive invariant.                                                 *)

\* Where a worker may be: outside the function its next call starts at the
\* beginning, and it looks for schemas that there are.
PlaceInv ==
  \A w \in Worker :
    /\ wpc[w] # "call" => step[w] = "workspace"
    /\ wpc[w] = "call" /\ step[w] \in {"lookup", "fetch", "store"} => schemaOf(w) \in Schema

\* A worker whose request was answered well and that has still to send the
\* result.
Pending(w) == At(w, "send") /\ answer[w] = "ok"

\* An event that was answered well is not carried out again.
AcceptedInv ==
  /\ \A e \in accepted : status[e] \in Begun
  /\ \A w \in Worker : wev[w] \in accepted =>
       wpc[w] \in {"post", "ok", "err", "sendErr"} \/ Pending(w)
  /\ \A w \in Worker : Pending(w) => wev[w] \in accepted

\* The counters have every such event whose worker has left the function.
Recorded(op) ==
  {e \in accepted : OpOf[e] = op /\ \A w \in Worker : wev[w] = e => wpc[w] # "call"}
CountInv == \A op \in Op : stats[op] = Cardinality(Recorded(op))

\* A schema was fetched by those who are about to store it; once it is there,
\* only those who had looked before still fetch it.
Fetchers(s) == {w \in Worker : At(w, "fetch") /\ schemaOf(w) = s}
Storers(s) == {w \in Worker : At(w, "store") /\ schemaOf(w) = s}
FetchInv ==
  \A s \in Schema :
    IF s \in schemas THEN fetched[s] + Cardinality(Fetchers(s)) <= Cardinality(Worker)
                     ELSE fetched[s] = Cardinality(Storers(s))

ReportInv == ReportTypeOK /\ PlaceInv /\ AcceptedInv /\ CountInv /\ FetchInv

LEMMA InitReportInv == SolveInit => ReportInv
<1> SUFFICES ASSUME SolveInit PROVE ReportInv
  OBVIOUS
<1> USE DEF SolveInit, Init
<1>1. ReportTypeOK
  <2>1. header \in [Worker -> Seq(Event)] /\ output \in [Op -> Seq(Event)]
        /\ resultChan \in Seq(Event \X BOOLEAN) /\ Len(resultChan) = 0
        /\ received \in [Event -> Seq(BOOLEAN)]
    OBVIOUS
  <2>2. mode \in Modes /\ Len(resultChan) <= ResultBuffer
    BY <2>1, ReportAssumption
  <2>3. step \in [Worker -> Step] /\ answer \in [Worker -> Answer]
    BY DEF Step, Answer
  <2>4. stats \in [Op -> Nat] /\ fetched \in [Schema -> Nat]
    OBVIOUS
  <2> QED
    BY <2>1, <2>2, <2>3, <2>4 DEF ReportTypeOK
<1>2. PlaceInv /\ AcceptedInv
  BY DEF PlaceInv, AcceptedInv, Pending, At
<1>3. CountInv
  BY FS_EmptySet DEF CountInv, Recorded
<1>4. FetchInv
  <2>1. \A s : Storers(s) = {}
    BY DEF Storers, At
  <2> QED
    BY <2>1, FS_EmptySet DEF FetchInv
<1> QED
  BY <1>1, <1>2, <1>3, <1>4 DEF ReportInv

-----------------------------------------------------------------------------
(* Types.                                                                   *)

\* The event in hand of a worker that is in the function.
LEMMA InHand ==
  ASSUME IInv, NEW w \in Worker, wpc[w] = "call"
  PROVE  wev[w] \in Event /\ status[wev[w]] = "executing"
BY Held DEF IInv, Executing

LEMMA TypesOfHand ==
  ASSUME IInv, NEW w \in Worker, wpc[w] = "call"
  PROVE  /\ opOf(w) \in Op
         /\ schemaOf(w) # NoSchema => schemaOf(w) \in Schema
BY InHand, ReportAssumption DEF opOf, schemaOf, Schema

\* A step of the function is taken at one of its places.
LEMMA StepTypes ==
  ASSUME IInv, ReportTypeOK, NEW w \in Worker, InFunction(w)
  PROVE  step' \in [Worker -> Step] /\ answer' \in [Worker -> Answer]
<1>1. step \in [Worker -> Step] /\ answer \in [Worker -> Answer]
  BY DEF ReportTypeOK
<1>2. \A t \in Step : [step EXCEPT ![w] = t] \in [Worker -> Step]
  BY <1>1
<1>3. \A t \in Answer : [answer EXCEPT ![w] = t] \in [Worker -> Answer]
  BY <1>1
<1>4. step' \in [Worker -> Step]
  BY <1>1, <1>2 DEF InFunction, WorkspaceExists, WorkspaceFails, Lookup, Fetch, FetchFails,
     Store, FillDefaultsFails, DescribeFails, ReadHeader, WriteHeader, Request, SendResult, ReturnsBare,
     Move, Step
<1>5. answer' \in [Worker -> Answer]
  BY <1>1, <1>3 DEF InFunction, WorkspaceExists, WorkspaceFails, Lookup, Fetch, FetchFails,
     Store, FillDefaultsFails, DescribeFails, ReadHeader, WriteHeader, Request, SendResult, ReturnsBare,
     Answer
<1> QED
  BY <1>4, <1>5

\* The lists and the counters.
LEMMA OutputTypes ==
  ASSUME IInv, ReportTypeOK, NEW w \in Worker, InFunction(w)
  PROVE  /\ header' \in [Worker -> Seq(Event)] /\ output' \in [Op -> Seq(Event)]
         /\ stats' \in [Op -> Nat]
<1>1. header \in [Worker -> Seq(Event)] /\ output \in [Op -> Seq(Event)] /\ stats \in [Op -> Nat]
  BY DEF ReportTypeOK
<1>2. wpc[w] = "call"
  BY InsideFrame DEF InsideMoves
<1>3. wev[w] \in Event /\ opOf(w) \in Op
  BY <1>2, InHand, TypesOfHand
<1>4. CASE ReadHeader(w)
  BY <1>1, <1>3, <1>4 DEF ReadHeader
<1>5. CASE WriteHeader(w)
  <2>1. Append(header[w], wev[w]) \in Seq(Event)
    BY <1>1, <1>3
  <2>2. output' \in [Op -> Seq(Event)]
    BY <1>1, <1>3, <1>5, <2>1 DEF WriteHeader
  <2>3. header' \in [Worker -> Seq(Event)]
    BY <1>1, <1>5 DEF WriteHeader
  <2> QED
    BY <1>1, <1>5, <2>2, <2>3 DEF WriteHeader
<1>6. [stats EXCEPT ![opOf(w)] = @ + 1] \in [Op -> Nat]
  BY <1>1, <1>3
<1>7. CASE Request(w) \/ SendResult(w)
  BY <1>1, <1>6, <1>7 DEF Request, SendResult, Returns
<1> QED
  BY <1>1, <1>4, <1>5, <1>7 DEF InFunction, WorkspaceExists, WorkspaceFails, Lookup, Fetch, FetchFails,
     Store, FillDefaultsFails, DescribeFails, ReturnsBare

\* The cache, the channel and the histories.
LEMMA SharedTypes ==
  ASSUME IInv, ReportTypeOK, PlaceInv, NEW w \in Worker, InFunction(w)
  PROVE  /\ mode' \in Modes /\ schemas' \subseteq Schema
         /\ resultChan' \in Seq(Event \X BOOLEAN) /\ Len(resultChan') <= ResultBuffer
         /\ resultChanClosed' \in BOOLEAN /\ received' \in [Event -> Seq(BOOLEAN)]
         /\ accepted' \subseteq Event /\ overlapped' \subseteq Event /\ fetched' \in [Schema -> Nat]
<1> USE DEF ReportTypeOK
<1>1. wpc[w] = "call" /\ wev[w] \in Event
  BY InsideFrame, InHand DEF InsideMoves
<1>2. CASE Fetch(w)
  <2>1. schemaOf(w) \in Schema
    BY <1>1, <1>2 DEF Fetch, At, PlaceInv
  <2> QED
    BY <1>2, <2>1 DEF Fetch
<1>3. CASE Store(w)
  <2>1. schemaOf(w) \in Schema
    BY <1>1, <1>3 DEF Store, At, PlaceInv
  <2> QED
    BY <1>3, <2>1 DEF Store
<1>4. CASE ReadHeader(w)
  <2>1. \A v \in Worker : At(v, "write") => wev[v] \in Event
    BY InHand DEF At
  <2> QED
    BY <1>1, <1>4, <2>1 DEF ReadHeader
<1>5. CASE Request(w)
  BY <1>1, <1>5 DEF Request
<1>6. CASE SendResult(w)
  <2>1. CASE UNCHANGED resultChan
    BY <1>6, <2>1 DEF SendResult
  <2>2. CASE Len(resultChan) < ResultBuffer /\ resultChan' = Append(resultChan, <<wev[w], answer[w] = "ok">>)
    <3>1. <<wev[w], answer[w] = "ok">> \in Event \X BOOLEAN
      BY <1>1
    <3>2. resultChan' \in Seq(Event \X BOOLEAN) /\ Len(resultChan') = Len(resultChan) + 1
      BY <2>2, <3>1, AppendProperties
    <3>3. Len(resultChan') <= ResultBuffer
      BY <2>2, <3>2, ReportAssumption
    <3> QED
      BY <1>6, <3>2, <3>3 DEF SendResult
  <2> QED
    BY <1>6, <2>1, <2>2 DEF SendResult
<1>7. CASE \/ WorkspaceExists(w) \/ WorkspaceFails(w) \/ Lookup(w) \/ FetchFails(w)
           \/ FillDefaultsFails(w) \/ DescribeFails(w) \/ WriteHeader(w)
  BY <1>7 DEF WorkspaceExists, WorkspaceFails, Lookup, FetchFails, FillDefaultsFails, DescribeFails,
     WriteHeader, ReturnsBare
<1> QED
  BY <1>2, <1>3, <1>4, <1>5, <1>6, <1>7 DEF InFunction

LEMMA InFunctionTypes ==
  ASSUME IInv, ReportTypeOK, PlaceInv, NEW w \in Worker, InFunction(w) PROVE ReportTypeOK'
BY StepTypes, OutputTypes, SharedTypes DEF ReportTypeOK

LEMMA OutsideTypes ==
  ASSUME ReportTypeOK, NEW w \in Worker, OutsideFunction(w) PROVE ReportTypeOK'
<1>1. answer' \in [Worker -> Answer]
  BY DEF OutsideFunction, ReportTypeOK, Answer
<1> QED
  BY <1>1 DEF OutsideFunction, ReportTypeOK

LEMMA ReceiveResultTypes == ASSUME ReportTypeOK, ReceiveResult PROVE ReportTypeOK'
<1> DEFINE r == Head(resultChan)
<1>1. r \in Event \X BOOLEAN /\ resultChan' \in Seq(Event \X BOOLEAN) /\ Len(resultChan') <= ResultBuffer
  BY ReportAssumption DEF ReportTypeOK, ReceiveResult
<1> HIDE DEF r
<1>2. \A b \in BOOLEAN : \A t \in Seq(BOOLEAN) : Append(t, b) \in Seq(BOOLEAN)
  BY AppendProperties
<1>3. r[1] \in Event /\ r[2] \in BOOLEAN
  BY <1>1
<1>4. received' = [received EXCEPT ![r[1]] = Append(@, r[2])]
  BY DEF ReceiveResult, r
<1>5. received' \in [Event -> Seq(BOOLEAN)]
  BY <1>2, <1>3, <1>4 DEF ReportTypeOK
<1> QED
  BY <1>1, <1>5 DEF ReportTypeOK, ReceiveResult

-----------------------------------------------------------------------------
(* Where the workers are.                                                   *)

\* A worker in the function moves no other worker.
LEMMA OthersStay ==
  ASSUME ReportTypeOK, NEW w \in Worker, InFunction(w)
  PROVE  \A v \in Worker \ {w} : step'[v] = step[v] /\ answer'[v] = answer[v]
BY DEF ReportTypeOK, InFunction, WorkspaceExists, WorkspaceFails, Lookup, Fetch, FetchFails,
   Store, FillDefaultsFails, DescribeFails, ReadHeader, WriteHeader, Request, SendResult, ReturnsBare, Move

LEMMA InFunctionPlaces ==
  ASSUME IInv, ReportTypeOK, PlaceInv, NEW w \in Worker, InFunction(w) PROVE PlaceInv'
<1>1. InsideMoves(w) /\ Others(w) /\ step' \in [Worker -> Step] /\ step \in [Worker -> Step]
  BY InsideFrame, StepTypes DEF ReportTypeOK
<1>2. \A v \in Worker \ {w} : step'[v] = step[v]
  BY OthersStay
<1>3. wpc'[w] # "call" => step'[w] = "workspace"
  <2>1. wpc[w] = "call"
    BY <1>1 DEF InsideMoves
  <2>2. CASE UNCHANGED vars
    BY <2>1, <2>2 DEF vars
  <2>3. CASE step' = [step EXCEPT ![w] = "workspace"]
    BY <1>1, <2>3
  <2> QED
    BY <2>2, <2>3 DEF InFunction, WorkspaceExists, WorkspaceFails, Lookup, Fetch, FetchFails,
     Store, FillDefaultsFails, DescribeFails, ReadHeader, WriteHeader, Request, SendResult, ReturnsBare, Move
<1>4. step'[w] \in {"lookup", "fetch", "store"} => schemaOf(w) \in Schema
  <2>1. CASE WorkspaceExists(w)
    <3>1. step'[w] \in {"lookup", "fetch", "store"} => schemaOf(w) # NoSchema
      BY <1>1, <2>1 DEF WorkspaceExists, Move
    <3> QED
      BY <1>1, <3>1, TypesOfHand DEF InsideMoves
  <2>2. CASE Lookup(w) \/ Fetch(w)
    BY <2>2 DEF Lookup, Fetch, At, PlaceInv
  <2>3. CASE ~WorkspaceExists(w) /\ ~Lookup(w) /\ ~Fetch(w)
    <3>1. step'[w] \in Step \ {"lookup", "fetch", "store"}
      BY <1>1, <2>3 DEF InFunction, WorkspaceFails, FetchFails, Step,
         Store, FillDefaultsFails, DescribeFails, ReadHeader, WriteHeader, Request, SendResult, ReturnsBare, Move
    <3> QED
      BY <3>1
  <2> QED
    BY <2>1, <2>2, <2>3
<1>5. \A v \in Worker : schemaOf(v)' = schemaOf(v)
  BY <1>1 DEF InsideMoves, schemaOf
<1> QED
  BY <1>1, <1>2, <1>3, <1>4, <1>5 DEF PlaceInv, Others

LEMMA OutsidePlaces ==
  ASSUME IInv, PlaceInv, NEW w \in Worker, OutsideFunction(w) PROVE PlaceInv'
<1>1. OutsideMoves(w) /\ Others(w) /\ step' = step
  BY OutsideFrame DEF OutsideFunction
<1>2. wpc[w] # "call" /\ step'[w] = "workspace"
  BY <1>1 DEF OutsideMoves, PlaceInv
<1> QED
  BY <1>1, <1>2 DEF PlaceInv, Others, schemaOf

-----------------------------------------------------------------------------
(* What was answered well.                                                  *)

\* What a step of the function does to the counters and to what was answered
\* well: it counts when it returns without an error, and only then.
Counts(w) ==
  /\ stats' = [stats EXCEPT ![opOf(w)] = @ + 1]
  /\ accepted' = accepted \cup {wev[w]} /\ wpc'[w] = "post" /\ step'[w] = "workspace"
Waits(w) ==
  /\ stats' = stats
  /\ wpc'[w] = "call" /\ accepted' \subseteq accepted \cup {wev[w]} /\ accepted \subseteq accepted'
  /\ wev[w] \in accepted' <=> step'[w] = "send" /\ answer'[w] = "ok"
GivesUp(w) ==
  /\ stats' = stats /\ accepted' = accepted /\ wev[w] \notin accepted /\ wpc'[w] \in {"backoff", "err"}
  /\ step'[w] = "workspace"

LEMMA CallCases ==
  ASSUME IInv, ReportTypeOK, AcceptedInv, NEW w \in Worker, InFunction(w)
  PROVE  Counts(w) \/ Waits(w) \/ GivesUp(w)
<1>1. /\ wpc[w] = "call" /\ step \in [Worker -> Step] /\ answer \in [Worker -> Answer]
      /\ wpc \in [Worker -> WorkerPc]
      /\ wev[w] \in accepted <=> Pending(w)
  BY InsideFrame DEF InsideMoves, ReportTypeOK, AcceptedInv, IInv, TypeOK
<1>2. CASE \/ WorkspaceExists(w) \/ Lookup(w) \/ Fetch(w) \/ Store(w) \/ ReadHeader(w) \/ WriteHeader(w)
  BY <1>1, <1>2 DEF WorkspaceExists, Lookup, Fetch, Store, ReadHeader, WriteHeader, Move, At, Pending,
     vars, Waits
<1>3. CASE WorkspaceFails(w) \/ FetchFails(w) \/ FillDefaultsFails(w)
  <2>1. ReturnsBare(w) /\ wev[w] \notin accepted
    BY <1>1, <1>3 DEF WorkspaceFails, FetchFails, FillDefaultsFails, At, Pending
  <2>2. wpc'[w] \in {"backoff", "err"}
    BY <1>1, <2>1, BareFrame
  <2> QED
    BY <1>1, <2>1, <2>2 DEF ReturnsBare, Move, GivesUp
<1>4. CASE DescribeFails(w)
  <2>1. wev[w] \notin accepted
    BY <1>1, <1>4 DEF DescribeFails, At, Pending
  <2>2. CASE Move(w, "send") /\ UNCHANGED vars
    BY <1>1, <1>4, <2>1, <2>2 DEF DescribeFails, Move, vars, Waits
  <2>3. CASE Move(w, "workspace") /\ CallFails(w)
    BY <1>1, <1>4, <2>1, <2>3 DEF DescribeFails, Move, CallFails, Goto, GivesUp
  <2> QED
    BY <1>4, <2>2, <2>3 DEF DescribeFails
<1>5. CASE Request(w)
  <2>1. wev[w] \notin accepted
    BY <1>1, <1>5 DEF Request, At, Pending
  <2>2. PICK a \in Answer :
          /\ answer' = [answer EXCEPT ![w] = a]
          /\ accepted' = IF a = "ok" THEN accepted \cup {wev[w]} ELSE accepted
          /\ IF mode.enableEntityActions
               THEN Move(w, "send") /\ UNCHANGED <<vars, stats>>
               ELSE Move(w, "workspace") /\ Returns(w, a)
    BY <1>5 DEF Request, Answer
  <2>3. CASE Move(w, "send") /\ UNCHANGED <<vars, stats>>
    BY <1>1, <2>1, <2>2, <2>3 DEF Move, vars, Waits
  <2>4. CASE Move(w, "workspace") /\ Returns(w, a)
    <3>1. wpc'[w] = IF a = "ok" THEN "post" ELSE "err"
      BY <1>1, <2>4, ReturnFrame
    <3> QED
      BY <1>1, <2>1, <2>2, <2>4, <3>1 DEF Move, Returns, Counts, GivesUp
  <2> QED
    BY <2>2, <2>3, <2>4
<1>6. CASE SendResult(w)
  <2>1. Move(w, "workspace") /\ Returns(w, answer[w]) /\ accepted' = accepted /\ At(w, "send")
    BY <1>6 DEF SendResult
  <2>2. wpc'[w] = IF answer[w] = "ok" THEN "post" ELSE "err"
    BY <1>1, <2>1, ReturnFrame
  <2>3. wev[w] \in accepted <=> answer[w] = "ok"
    BY <1>1, <2>1 DEF Pending
  <2> QED
    BY <1>1, <2>1, <2>2, <2>3 DEF Move, Returns, Counts, GivesUp
<1> QED
  BY <1>2, <1>3, <1>4, <1>5, <1>6 DEF InFunction

\* An event that was answered well is begun, so that nobody takes it again.
LEMMA InFunctionAccepted ==
  ASSUME IInv, ReportTypeOK, PlaceInv, AcceptedInv, NEW w \in Worker, InFunction(w)
  PROVE  AcceptedInv'
<1>1. /\ InsideMoves(w) /\ Others(w) /\ wev[w] \in Event /\ status[wev[w]] = "executing"
      /\ \A v \in Worker \ {w} : wev[v] # wev[w]
  BY InsideFrame, InHand DEF InsideMoves, IInv, WorkerInv, TypeOK, EventAssumption
<1>2. accepted' \subseteq accepted \cup {wev[w]} /\ accepted \subseteq accepted'
  BY CallCases DEF Counts, Waits, GivesUp
<1>3. \A v \in Worker \ {w} : step'[v] = step[v] /\ answer'[v] = answer[v]
  BY OthersStay
<1>4. \A e \in accepted' : status'[e] \in Begun
  BY <1>1, <1>2 DEF InsideMoves, AcceptedInv, Begun
<1>5. \A v \in Worker \ {w} : (wev[v] \in accepted' <=> wev[v] \in accepted) /\ Pending(v)' = Pending(v)
  BY <1>1, <1>2, <1>3 DEF Pending, At, Others
<1>6. /\ wev'[w] \in accepted' => wpc'[w] \in {"post", "ok", "err", "sendErr"} \/ Pending(w)'
      /\ Pending(w)' => wev'[w] \in accepted'
  BY <1>1, CallCases DEF Counts, Waits, GivesUp, Pending, At, InsideMoves
<1> QED
  BY <1>1, <1>4, <1>5, <1>6 DEF AcceptedInv, InsideMoves, Others

LEMMA OutsideAccepted ==
  ASSUME IInv, ReportTypeOK, PlaceInv, AcceptedInv, NEW w \in Worker, OutsideFunction(w)
  PROVE  AcceptedInv' /\ (\A e \in accepted : (\A v \in Worker : wev[v] = e => wpc[v] # "call")
                                         <=> (\A v \in Worker : wev[v] = e => wpc[v] # "call")')
<1>1. OutsideMoves(w) /\ Others(w) /\ BegunStays /\ step' = step /\ accepted' = accepted
  BY OutsideFrame DEF OutsideFunction
<1>2. accepted \subseteq Event /\ NoEvent \notin Event
  BY EventAssumption DEF ReportTypeOK
<1>3. wpc[w] # "call" /\ step[w] = "workspace"
  BY <1>1 DEF OutsideMoves, PlaceInv
<1>4. \A v \in Worker \ {w} : answer'[v] = answer[v]
  BY DEF OutsideFunction, ReportTypeOK
<1>5. ~Pending(w) /\ ~Pending(w)'
  BY <1>1, <1>3 DEF Pending, At
<1>6. \A v \in Worker \ {w} : Pending(v)' = Pending(v)
  BY <1>1, <1>4 DEF Pending, At, Others
<1>7. wev'[w] \in accepted => /\ wev'[w] = wev[w] /\ wpc[w] \in {"post", "ok", "err", "sendErr"}
                             /\ wpc'[w] \in {"post", "ok", "err", "sendErr"}
  <2>1. wev[w] \in accepted => wpc[w] \in {"post", "ok", "err", "sendErr"}
    BY <1>5 DEF AcceptedInv
  <2>2. \A e \in accepted : status[e] # "queued"
    BY DEF AcceptedInv, Begun
  <2> QED
    BY <1>1, <1>2, <2>1, <2>2 DEF OutsideMoves
<1>8. AcceptedInv'
  BY <1>1, <1>2, <1>5, <1>6, <1>7 DEF AcceptedInv, BegunStays, Others
<1>9. wev[w] \in accepted => wpc'[w] # "call" \/ wev'[w] # wev[w]
  BY <1>1, <1>5 DEF AcceptedInv, OutsideMoves
<1> QED
  BY <1>1, <1>3, <1>7, <1>8, <1>9 DEF Others

LEMMA EngineAccepted ==
  ASSUME ReportTypeOK, AcceptedInv, UNCHANGED <<wpc, wev, step, answer, accepted>>, BegunStays
  PROVE  AcceptedInv'
<1>1. \A w \in Worker : Pending(w)' = Pending(w)
  BY DEF Pending, At
<1> QED
  BY <1>1 DEF AcceptedInv, BegunStays, ReportTypeOK

-----------------------------------------------------------------------------
(* The counters.                                                            *)

LEMMA RecordedFinite ==
  ASSUME ReportTypeOK, NEW op PROVE IsFiniteSet(Recorded(op))
<1>1. Recorded(op) \in SUBSET Event
  BY DEF Recorded, ReportTypeOK
<1> QED
  BY <1>1, EventAssumption, FS_Subset

LEMMA InFunctionCount ==
  ASSUME IInv, ReportTypeOK, AcceptedInv, CountInv, NEW w \in Worker, InFunction(w)
  PROVE  CountInv'
<1>1. /\ InsideMoves(w) /\ Others(w) /\ wev[w] \in Event /\ opOf(w) \in Op
      /\ \A v \in Worker \ {w} : wev[v] # wev[w]
  BY InsideFrame, InHand, TypesOfHand DEF InsideMoves, IInv, WorkerInv, TypeOK, EventAssumption
<1>2. stats \in [Op -> Nat] /\ accepted \subseteq Event
  BY DEF ReportTypeOK
<1> SUFFICES ASSUME NEW op \in Op PROVE stats'[op] = Cardinality(Recorded(op)')
  BY DEF CountInv
<1>3. stats[op] = Cardinality(Recorded(op)) /\ wev[w] \notin Recorded(op)
  BY <1>1 DEF CountInv, Recorded, InsideMoves
<1>4. CASE Waits(w) \/ GivesUp(w)
  <2>1. Recorded(op)' = Recorded(op)
    <3>1. wev[w] \notin Recorded(op)'
      BY <1>1, <1>4 DEF Waits, GivesUp, Recorded, InsideMoves
    <3>2. \A e : e # wev[w] => (e \in accepted' <=> e \in accepted)
      BY <1>4 DEF Waits, GivesUp
    <3>3. \A e : e # wev[w] => (e \in Recorded(op)' <=> e \in Recorded(op))
      BY <1>1, <3>2 DEF Recorded, InsideMoves, Others
    <3> QED
      BY <1>3, <3>1, <3>3
  <2> QED
    BY <1>3, <1>4, <2>1 DEF Waits, GivesUp
<1>5. CASE Counts(w)
  <2>1. \A e : e # wev[w] => (e \in Recorded(op)' <=> e \in Recorded(op))
    BY <1>1, <1>5 DEF Recorded, InsideMoves, Others, Counts
  <2>2. wev[w] \in Recorded(op)' <=> OpOf[wev[w]] = op
    BY <1>1, <1>5 DEF Recorded, InsideMoves, Counts
  <2>3. CASE op = opOf(w)
    <3>1. Recorded(op)' = Recorded(op) \cup {wev[w]}
      BY <2>1, <2>2, <2>3 DEF opOf
    <3>2. Cardinality(Recorded(op) \cup {wev[w]}) = Cardinality(Recorded(op)) + 1
      BY <1>3, RecordedFinite, FS_AddElement
    <3> QED
      BY <1>1, <1>2, <1>3, <1>5, <2>3, <3>1, <3>2 DEF Counts
  <2>4. CASE op # opOf(w)
    <3>1. Recorded(op)' = Recorded(op)
      BY <1>3, <2>1, <2>2, <2>4 DEF opOf
    <3> QED
      BY <1>1, <1>2, <1>3, <1>5, <2>4, <3>1 DEF Counts
  <2> QED
    BY <2>3, <2>4
<1> QED
  BY <1>4, <1>5, CallCases

LEMMA OutsideCount ==
  ASSUME IInv, ReportTypeOK, PlaceInv, AcceptedInv, CountInv, NEW w \in Worker, OutsideFunction(w)
  PROVE  CountInv'
<1>1. \A op : Recorded(op)' = Recorded(op)
  BY OutsideAccepted DEF Recorded, OutsideFunction
<1> QED
  BY <1>1 DEF CountInv, OutsideFunction

-----------------------------------------------------------------------------
(* The schema cache.                                                        *)

LEMMA WorkersFinite ==
  ASSUME NEW S \in SUBSET Worker
  PROVE  IsFiniteSet(S) /\ Cardinality(S) \in Nat /\ Cardinality(S) <= Cardinality(Worker)
         /\ Cardinality(Worker) \in Nat
BY WorkerAssumption, FS_Subset, FS_CardinalityType

\* Who fetches and who stores is a matter of the worker that moves.
LEMMA FetchersElsewhere ==
  ASSUME NEW w \in Worker, Others(w), \A v \in Worker \ {w} : step'[v] = step[v], NEW s
  PROVE  \A v : v # w => /\ v \in Fetchers(s)' <=> v \in Fetchers(s)
                         /\ v \in Storers(s)' <=> v \in Storers(s)
BY DEF Fetchers, Storers, At, schemaOf, Others

\* Whoever gives up or goes by without fetching takes nothing from the bound.
LEMMA FetchQuiet ==
  ASSUME ReportTypeOK, FetchInv, UNCHANGED <<schemas, fetched>>,
         \A s \in Schema : /\ Fetchers(s)' \subseteq Fetchers(s) \/ s \notin schemas
                           /\ Storers(s)' = Storers(s) \/ s \in schemas
  PROVE  FetchInv'
<1> SUFFICES ASSUME NEW s \in Schema
             PROVE  IF s \in schemas THEN fetched[s] + Cardinality(Fetchers(s)') <= Cardinality(Worker)
                                     ELSE fetched[s] = Cardinality(Storers(s)')
  BY DEF FetchInv
<1>1. CASE s \in schemas
  <2>1. Fetchers(s) \in SUBSET Worker /\ Fetchers(s)' \in SUBSET Fetchers(s)
    BY <1>1 DEF Fetchers
  <2>2. Cardinality(Fetchers(s)') <= Cardinality(Fetchers(s))
    BY <2>1, WorkersFinite, FS_Subset
  <2>3. /\ Cardinality(Fetchers(s)) \in Nat /\ Cardinality(Fetchers(s)') \in Nat
        /\ Cardinality(Worker) \in Nat /\ fetched[s] \in Nat
    BY <2>1, WorkersFinite DEF ReportTypeOK
  <2>4. fetched[s] + Cardinality(Fetchers(s)) <= Cardinality(Worker)
    BY <1>1 DEF FetchInv
  <2> QED
    BY <1>1, <2>2, <2>3, <2>4
<1>2. CASE s \notin schemas
  BY <1>2 DEF FetchInv
<1> QED
  BY <1>1, <1>2

\* A fetch moves its worker from those who fetch to those who store.
LEMMA FetchCounts ==
  ASSUME IInv, ReportTypeOK, PlaceInv, FetchInv, NEW w \in Worker, InFunction(w), Fetch(w)
  PROVE  FetchInv'
<1> DEFINE t == schemaOf(w)
<1>1. /\ wpc[w] = "call" /\ step[w] = "fetch" /\ t \in Schema /\ step'[w] = "store"
      /\ wpc' = wpc /\ wev' = wev /\ schemas' = schemas
      /\ step \in [Worker -> Step] /\ Others(w)
  BY DEF Fetch, At, Move, PlaceInv, ReportTypeOK, vars, Others
<1>2. /\ fetched \in [Schema -> Nat] /\ fetched'[t] = fetched[t] + 1
      /\ \A s \in Schema \ {t} : fetched'[s] = fetched[s]
  BY <1>1 DEF Fetch, ReportTypeOK
<1>3. \A s : \A v : v # w => /\ v \in Fetchers(s)' <=> v \in Fetchers(s)
                             /\ v \in Storers(s)' <=> v \in Storers(s)
  BY <1>1, OthersStay, FetchersElsewhere
<1>4. \A s : /\ w \in Fetchers(s) <=> s = t
             /\ w \notin Fetchers(s)' /\ w \notin Storers(s)
             /\ w \in Storers(s)' <=> s = t
  BY <1>1 DEF Fetchers, Storers, At, schemaOf
<1> SUFFICES ASSUME NEW s \in Schema
             PROVE  IF s \in schemas THEN fetched'[s] + Cardinality(Fetchers(s)') <= Cardinality(Worker)
                                     ELSE fetched'[s] = Cardinality(Storers(s)')
  BY <1>1 DEF FetchInv
<1>5. /\ Fetchers(s) \in SUBSET Worker /\ Storers(s) \in SUBSET Worker
  BY DEF Fetchers, Storers
<1>6. /\ IsFiniteSet(Fetchers(s)) /\ IsFiniteSet(Storers(s))
      /\ Cardinality(Fetchers(s)) \in Nat /\ Cardinality(Storers(s)) \in Nat /\ Cardinality(Worker) \in Nat
  BY <1>5, WorkersFinite
<1> HIDE DEF t
<1>7. CASE s = t
  <2>1. Fetchers(s)' = Fetchers(s) \ {w} /\ Storers(s)' = Storers(s) \cup {w}
    BY <1>3, <1>4, <1>7
  <2>2. Cardinality(Fetchers(s) \ {w}) = Cardinality(Fetchers(s)) - 1
    BY <1>4, <1>6, <1>7, FS_RemoveElement
  <2>3. Cardinality(Storers(s) \cup {w}) = Cardinality(Storers(s)) + 1
    BY <1>4, <1>6, FS_AddElement
  <2> QED
    BY <1>2, <1>6, <1>7, <2>1, <2>2, <2>3 DEF FetchInv
<1>8. CASE s # t
  <2>1. Fetchers(s)' = Fetchers(s) /\ Storers(s)' = Storers(s)
    BY <1>3, <1>4, <1>8
  <2> QED
    BY <1>2, <1>8, <2>1 DEF FetchInv
<1> QED
  BY <1>7, <1>8

\* The first to store a schema leaves the others where they are: those who store
\* it too have fetched it, those who fetch it have still to.
LEMMA StoreCounts ==
  ASSUME IInv, ReportTypeOK, PlaceInv, FetchInv, NEW w \in Worker, InFunction(w), Store(w)
  PROVE  FetchInv'
<1> DEFINE t == schemaOf(w)
<1>1. /\ wpc[w] = "call" /\ step[w] = "store" /\ t \in Schema /\ step'[w] = "describe"
      /\ wpc' = wpc /\ wev' = wev /\ schemas' = schemas \cup {t} /\ fetched' = fetched
      /\ step \in [Worker -> Step] /\ Others(w)
  BY DEF Store, At, Move, PlaceInv, ReportTypeOK, vars, Others
<1>2. \A s : \A v : v # w => /\ v \in Fetchers(s)' <=> v \in Fetchers(s)
                             /\ v \in Storers(s)' <=> v \in Storers(s)
  BY <1>1, OthersStay, FetchersElsewhere
<1>3. \A s : /\ w \notin Fetchers(s) /\ w \notin Fetchers(s)' /\ w \notin Storers(s)'
             /\ w \in Storers(s) <=> s = t
  BY <1>1 DEF Fetchers, Storers, At, schemaOf
<1> HIDE DEF t
<1> SUFFICES ASSUME NEW s \in Schema
             PROVE  IF s \in schemas' THEN fetched[s] + Cardinality(Fetchers(s)') <= Cardinality(Worker)
                                      ELSE fetched[s] = Cardinality(Storers(s)')
  BY <1>1 DEF FetchInv
<1>4. Fetchers(s)' = Fetchers(s)
  BY <1>2, <1>3
<1>5. CASE s \in schemas
  BY <1>1, <1>4, <1>5 DEF FetchInv
<1>6. CASE s = t /\ s \notin schemas
  <2>1. fetched[s] = Cardinality(Storers(s))
    BY <1>6 DEF FetchInv
  <2>2. /\ Storers(s) \in SUBSET Worker /\ Fetchers(s) \in SUBSET Worker
        /\ Storers(s) \cap Fetchers(s) = {} /\ Storers(s) \cup Fetchers(s) \in SUBSET Worker
    BY DEF Storers, Fetchers, At
  <2>3. Cardinality(Storers(s) \cup Fetchers(s)) = Cardinality(Storers(s)) + Cardinality(Fetchers(s)) - 0
    BY <2>2, WorkersFinite, FS_Union, FS_EmptySet
  <2>4. Cardinality(Storers(s) \cup Fetchers(s)) <= Cardinality(Worker)
    BY <2>2, WorkersFinite
  <2>5. Cardinality(Storers(s)) \in Nat /\ Cardinality(Fetchers(s)) \in Nat
    BY <2>2, WorkersFinite
  <2> QED
    BY <1>1, <1>4, <1>6, <2>1, <2>3, <2>4, <2>5
<1>7. CASE s # t /\ s \notin schemas
  <2>1. Storers(s)' = Storers(s)
    BY <1>2, <1>3, <1>7
  <2> QED
    BY <1>1, <1>7, <2>1 DEF FetchInv
<1> QED
  BY <1>5, <1>6, <1>7

LEMMA InFunctionFetch ==
  ASSUME IInv, ReportTypeOK, PlaceInv, FetchInv, NEW w \in Worker, InFunction(w)
  PROVE  FetchInv'
<1>1. CASE Fetch(w) \/ Store(w)
  BY <1>1, FetchCounts, StoreCounts
<1>2. CASE ~Fetch(w) /\ ~Store(w)
  <2>1. InsideMoves(w) /\ Others(w) /\ step' \in [Worker -> Step] /\ step \in [Worker -> Step]
    BY InsideFrame, StepTypes DEF ReportTypeOK
  <2>2. UNCHANGED <<schemas, fetched>> /\ step[w] # "store"
    BY <1>2 DEF InFunction, WorkspaceExists, WorkspaceFails, Lookup, FetchFails, FillDefaultsFails,
       DescribeFails, ReadHeader, WriteHeader, Request, SendResult, ReturnsBare, At
  <2>3. /\ step'[w] # "store"
        /\ step'[w] = "fetch" => Lookup(w) /\ schemaOf(w) \notin schemas
    BY <1>2, <2>1 DEF InFunction, WorkspaceExists, WorkspaceFails, Lookup, FetchFails, FillDefaultsFails,
       DescribeFails, ReadHeader, WriteHeader, Request, SendResult, ReturnsBare, Move
  <2>4. \A s : \A v : v # w => /\ v \in Fetchers(s)' <=> v \in Fetchers(s)
                               /\ v \in Storers(s)' <=> v \in Storers(s)
    BY <2>1, OthersStay, FetchersElsewhere
  <2>5. \A s : /\ w \notin Storers(s) /\ w \notin Storers(s)'
               /\ w \in Fetchers(s)' => s \notin schemas
    BY <2>1, <2>2, <2>3 DEF Storers, Fetchers, At, schemaOf, InsideMoves
  <2>6. ASSUME NEW s PROVE Fetchers(s)' \subseteq Fetchers(s) \/ s \notin schemas
    BY <2>4, <2>5
  <2>7. ASSUME NEW s PROVE Storers(s)' = Storers(s)
    <3>1. \A v : v \in Storers(s)' <=> v \in Storers(s)
      BY <2>4, <2>5
    <3> QED
      BY <3>1
  <2> QED
    BY <2>2, <2>6, <2>7, FetchQuiet
<1> QED
  BY <1>1, <1>2

LEMMA OutsideFetch ==
  ASSUME IInv, ReportTypeOK, PlaceInv, FetchInv, NEW w \in Worker, OutsideFunction(w)
  PROVE  FetchInv'
<1>1. OutsideMoves(w) /\ Others(w) /\ step' = step /\ UNCHANGED <<schemas, fetched>>
  BY OutsideFrame DEF OutsideFunction
<1>2. step[w] = "workspace"
  BY <1>1 DEF OutsideMoves, PlaceInv
<1>3. \A s : \A v : v # w => /\ v \in Fetchers(s)' <=> v \in Fetchers(s)
                             /\ v \in Storers(s)' <=> v \in Storers(s)
  BY <1>1, FetchersElsewhere
<1>4. \A s : w \notin Fetchers(s)' /\ w \notin Fetchers(s) /\ w \notin Storers(s)' /\ w \notin Storers(s)
  BY <1>1, <1>2 DEF Fetchers, Storers, At
<1>5. \A s : Fetchers(s)' = Fetchers(s) /\ Storers(s)' = Storers(s)
  BY <1>3, <1>4
<1> QED
  BY <1>1, <1>5, FetchQuiet

-----------------------------------------------------------------------------
(* The theorems.                                                            *)

\* The producer, Run, the caller and the goroutine that closes the channel
\* touch nothing of this.
LEMMA QuietKeepsReport ==
  ASSUME ReportInv, ReportTypeOK', UNCHANGED <<wpc, wev, callVars, stats, schemas, accepted, fetched>>,
         BegunStays
  PROVE  ReportInv'
<1> USE DEF ReportInv
<1>1. PlaceInv'
  BY DEF PlaceInv, schemaOf
<1>2. AcceptedInv'
  BY EngineAccepted
<1>3. \A op : Recorded(op)' = Recorded(op)
  BY DEF Recorded
<1>4. CountInv'
  BY <1>3 DEF CountInv
<1>5. \A s : Fetchers(s)' = Fetchers(s) /\ Storers(s)' = Storers(s)
  BY DEF Fetchers, Storers, At, schemaOf
<1>6. FetchInv'
  BY <1>5, FetchQuiet
<1> QED
  BY <1>1, <1>2, <1>4, <1>6

LEMMA ReportStep ==
  ASSUME IInv, ReportInv, [SolveNext]_solveVars PROVE ReportInv'
<1> USE DEF ReportInv
<1>1. ASSUME NEW w \in Worker, InFunction(w) PROVE ReportInv'
  BY <1>1, InFunctionTypes, InFunctionPlaces, InFunctionAccepted, InFunctionCount, InFunctionFetch
<1>2. ASSUME NEW w \in Worker, OutsideFunction(w) PROVE ReportInv'
  BY <1>2, OutsideTypes, OutsidePlaces, OutsideAccepted, OutsideCount, OutsideFetch
<1>3. CASE (Producer \/ Main \/ CancelContext \/ Done) /\ UNCHANGED reportVars
  <2>1. wpc' = wpc /\ wev' = wev /\ BegunStays
    BY <1>3, EngineFrame
  <2>2. ReportTypeOK'
    BY <1>3 DEF ReportTypeOK, reportVars
  <2> QED
    BY <1>3, <2>1, <2>2, QuietKeepsReport DEF reportVars
<1>4. CASE CloseResultChan
  <2>1. ReportTypeOK'
    BY <1>4 DEF ReportTypeOK, CloseResultChan
  <2>2. BegunStays
    BY <1>4 DEF CloseResultChan, vars, BegunStays
  <2> QED
    BY <1>4, <2>1, <2>2, QuietKeepsReport DEF CloseResultChan, vars
<1>5. CASE ReceiveResult
  <2>1. BegunStays
    BY <1>5 DEF ReceiveResult, vars, BegunStays
  <2> QED
    BY <1>5, <2>1, ReceiveResultTypes, QuietKeepsReport DEF ReceiveResult, vars
<1>6. CASE UNCHANGED solveVars
  <2>1. ReportTypeOK' /\ BegunStays
    BY <1>6 DEF ReportTypeOK, solveVars, reportVars, vars, BegunStays
  <2> QED
    BY <1>6, <2>1, QuietKeepsReport DEF solveVars, reportVars, vars
<1> QED
  BY <1>1, <1>2, <1>3, <1>4, <1>5, <1>6 DEF SolveNext, Running, SolveWorker

\* The invariant of what the workers share holds in every state of Solve.
THEOREM ReportInvariance == SolveSpec => []ReportInv
<1>1. SolveInit => ReportInv
  BY InitReportInv
<1>2. IInv /\ ReportInv /\ [SolveNext]_solveVars => ReportInv'
  BY ReportStep
<1> QED
  BY <1>1, <1>2, SolveKeepsEngine, PTL DEF SolveSpec

\* What the function shares keeps its types, and the channel of results its
\* capacity.
THEOREM ReportTypesHold == SolveSpec => []ReportTypeOK
<1>1. ReportInv => ReportTypeOK
  BY DEF ReportInv
<1> QED
  BY <1>1, ReportInvariance, PTL

\* The counters that Solve returns count every operation that was carried out,
\* once: for any number of workers, events and retries, and however Run ends.
THEOREM CountersAreExact == SolveSpec => []StatsExact
<1>1. ASSUME IInv, ReportInv, mainPc = "solved", NEW op \in Op
      PROVE  stats[op] = Cardinality({e \in accepted : OpOf[e] = op})
  <2>1. \A w \in Worker : wpc[w] # "call"
    BY <1>1 DEF IInv, MainInv
  <2>2. Recorded(op) = {e \in accepted : OpOf[e] = op}
    BY <2>1 DEF Recorded
  <2> QED
    BY <1>1, <2>2 DEF ReportInv, CountInv
<1>2. IInv /\ ReportInv => StatsExact
  BY <1>1 DEF StatsExact
<1> QED
  BY <1>2, ReportInvariance, SolveKeepsEngine, PTL

\* No schema is fetched more often than there are workers.
THEOREM SchemaFetchesBounded == SolveSpec => []FetchesBounded
<1>1. ASSUME ReportInv, NEW s \in Schema PROVE fetched[s] <= Cardinality(Worker)
  <2>1. Fetchers(s) \in SUBSET Worker /\ Storers(s) \in SUBSET Worker
    BY DEF Fetchers, Storers
  <2>2. /\ Cardinality(Fetchers(s)) \in Nat /\ Cardinality(Worker) \in Nat
        /\ Cardinality(Storers(s)) <= Cardinality(Worker)
    BY <2>1, WorkersFinite
  <2>3. fetched[s] \in Nat
    BY <1>1 DEF ReportInv, ReportTypeOK
  <2>4. IF s \in schemas THEN fetched[s] + Cardinality(Fetchers(s)) <= Cardinality(Worker)
                         ELSE fetched[s] = Cardinality(Storers(s))
    BY <1>1 DEF ReportInv, FetchInv
  <2> QED
    BY <2>2, <2>3, <2>4
<1>2. ReportInv => FetchesBounded
  BY <1>1 DEF FetchesBounded
<1> QED
  BY <1>2, ReportInvariance, PTL
=============================================================================
