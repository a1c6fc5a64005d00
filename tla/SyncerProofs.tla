---------------------------- MODULE SyncerProofs ----------------------------
(* Theorems about Syncer, for every set of workers and events, any stages, *)
(* any buffer and any number of retries.                                   *)
EXTENDS SyncerInvariants, FiniteSetTheorems, SequenceTheorems, TLAPS

USE DEF prodVars, chanVars, workVars, mainVars

OpenEvents == {e \in Event : status[e] \in Open}

-----------------------------------------------------------------------------
(* What the parts of the invariant say, in the form the steps need it.     *)

\* What a worker has in hand.
LEMMA Held ==
  ASSUME TypeOK, WorkerInv, NEW w \in Worker
  PROVE  /\ wpc[w] = "check" => wev[w] \in Event /\ status[wev[w]] = "taken"
         /\ wpc[w] \in Executing => wev[w] \in Event /\ status[wev[w]] = "executing"
         /\ wpc[w] = "sendErr" => wev[w] \in Event /\ status[wev[w]] = "failed"
         /\ wpc[w] \in {"recv", "exited"} => wev[w] = NoEvent
<1>1. /\ wpc[w] \in WorkerPc /\ wev[w] \in Event \cup {NoEvent}
      /\ wev[w] = NoEvent <=> wpc[w] \in {"recv", "exited"}
      /\ wev[w] # NoEvent => status[wev[w]] = HeldAt(wpc[w])
  BY DEF TypeOK, WorkerInv
<1> QED
  BY <1>1 DEF HeldAt, Executing, WorkerPc

\* Receive takes the oldest queued event and leaves the others in order.
LEMMA ReceiveTakes ==
  ASSUME TypeOK, QueueInv, NEW w \in Worker, Receive(w)
  PROVE  /\ Head(eventChan) \in Event
         /\ Head(eventChan) = eventChan[1]
         /\ Len(eventChan) \in Nat \ {0}
         /\ status[Head(eventChan)] = "queued"
         /\ Len(eventChan') = Len(eventChan) - 1
         /\ \A i \in 1..Len(eventChan') : eventChan'[i] = eventChan[i+1]
<1>1. eventChan \in Seq(Event) /\ eventChan # <<>> /\ eventChan' = Tail(eventChan)
  BY DEF TypeOK, Receive
<1>2. Len(eventChan) \in Nat \ {0} /\ Head(eventChan) = eventChan[1] /\ Head(eventChan) \in Event
  BY <1>1
<1>3. status[eventChan[1]] = "queued"
  BY <1>2 DEF QueueInv
<1> QED
  BY <1>1, <1>2, <1>3, HeadTailProperties

\* The steps that change what has become of an event.
LEMMA StatusSteps ==
  Next => \/ UNCHANGED status
          \/ \E e \in Event : EmitEvent(e)
          \/ EnqueueEvent \/ EnqueueRefused \/ CollectDropped
          \/ \E w \in Worker : Receive(w) \/ StopSeen(w) \/ HandleEvent(w) \/ EventCompleted(w)
BY DEF Next, Producer, WorkerStep, Main, DifferFails, StageEmitted, WaitReturns, NextStage, CloseEventChan,
       SendProducerErr, LoopEnds, CallSucceeds, CallFails, ServerError, Retry, PostProcessed,
       PostProcessFails, Goto, SendWorkerErr, WorkerErrSent, CloseErrChan, SelectCtxDone, SelectErrChanClosed,
       CloseStopChan, RunReturns, SolveReturns, CancelContext, Done, vars

(* Each part of the invariant is kept by every step.                       *)

LEMMA TypeOKStep == TypeOK /\ ProducerInv /\ WorkerInv /\ RetryInv /\ Next => TypeOK'
<1> SUFFICES ASSUME TypeOK, ProducerInv, WorkerInv, RetryInv, Next PROVE TypeOK'
  OBVIOUS
<1>1. ASSUME NEW e \in Event, EmitEvent(e) PROVE TypeOK'
  <2>1. status' \in [Event -> Status]
    BY <1>1 DEF TypeOK, EmitEvent, Status, Open
  <2> QED
    BY <1>1, <2>1 DEF TypeOK, EmitEvent, ProdPc
<1>2. CASE EnqueueEvent
  <2>1. cur \in Event
    BY <1>2 DEF TypeOK, EnqueueEvent, ProducerInv
  <2>2. eventChan' \in Seq(Event) /\ Len(eventChan') <= EventBuffer
    BY <1>2, <2>1, BufferAssumption DEF TypeOK, EnqueueEvent
  <2>3. status' \in [Event -> Status]
    BY <1>2 DEF TypeOK, EnqueueEvent, Status, Open
  <2> QED
    BY <1>2, <2>2, <2>3 DEF TypeOK, EnqueueEvent, ProdPc
<1>3. CASE EnqueueRefused
  <2>1. cur \in Event
    BY <1>3 DEF TypeOK, EnqueueRefused, ProducerInv
  <2>2. status' \in [Event -> Status]
    BY <1>3 DEF TypeOK, EnqueueRefused, Status
  <2> QED
    BY <1>3, <2>1, <2>2 DEF TypeOK, EnqueueRefused, ProdPc
<1>4. CASE DifferFails \/ StageEmitted \/ CloseEventChan
  BY <1>4 DEF TypeOK, DifferFails, StageEmitted, CloseEventChan, ProdPc
<1>5. CASE WaitReturns
  BY <1>5, StageAssumption DEF TypeOK, WaitReturns, NextStage, ProdPc
<1>6. CASE SendProducerErr
  BY <1>6 DEF TypeOK, SendProducerErr, ReceiveErr, ProdPc, MainPc
<1>7. CASE CloseErrChan \/ SelectCtxDone \/ SelectErrChanClosed \/ CloseStopChan
  BY <1>7 DEF TypeOK, CloseErrChan, SelectCtxDone, SelectErrChanClosed, CloseStopChan, MainPc
<1>8. CASE RunReturns \/ SolveReturns \/ CancelContext \/ Done
  BY <1>8 DEF TypeOK, RunReturns, SolveReturns, CancelContext, Done, vars, MainPc
<1>9. CASE CollectDropped
  <2>1. status' \in [Event -> Status]
    BY <1>9 DEF TypeOK, CollectDropped, Status, Open
  <2>2. eventChan' \in Seq(Event) /\ Len(eventChan') <= EventBuffer
    BY <1>9, BufferAssumption DEF CollectDropped
  <2>3. droppedEvents' \subseteq Event
    BY <1>9 DEF TypeOK, CollectDropped
  <2> QED
    BY <1>9, <2>1, <2>2, <2>3 DEF TypeOK, CollectDropped, MainPc
<1>10. ASSUME NEW w \in Worker, WorkerStep(w) PROVE TypeOK'
  <2>1. CASE Receive(w)
    <3>1. Head(eventChan) \in Event /\ eventChan' \in Seq(Event) /\ Len(eventChan') <= EventBuffer
      BY <2>1, BufferAssumption DEF TypeOK, Receive
    <3>2. status' \in [Event -> Status]
      BY <2>1 DEF TypeOK, Receive, Status, Open
    <3>3. wpc' \in [Worker -> WorkerPc] /\ wev' \in [Worker -> Event \cup {NoEvent}]
      BY <2>1, <3>1 DEF TypeOK, Receive, WorkerPc
    <3> QED
      BY <2>1, <3>1, <3>2, <3>3 DEF TypeOK, Receive
  <2>2. CASE LoopEnds(w)
    <3>1. wpc' \in [Worker -> WorkerPc]
      BY <2>2 DEF TypeOK, LoopEnds, WorkerPc
    <3> QED
      BY <2>2, <3>1 DEF TypeOK, LoopEnds
  <2>3. CASE StopSeen(w)
    <3>1. status' \in [Event -> Status]
      BY <2>3 DEF TypeOK, StopSeen, Status, Open
    <3>2. wpc' \in [Worker -> WorkerPc] /\ wev' \in [Worker -> Event \cup {NoEvent}]
      BY <2>3 DEF TypeOK, StopSeen, WorkerPc
    <3> QED
      BY <2>3, <3>1, <3>2 DEF TypeOK, StopSeen
  <2>4. CASE HandleEvent(w)
    <3>1. status' \in [Event -> Status]
      BY <2>4 DEF TypeOK, HandleEvent, StartHandling, Status, Open
    <3>2. wpc' \in [Worker -> WorkerPc]
      BY <2>4 DEF TypeOK, HandleEvent, StartHandling, WorkerPc, Executing
    <3>3. attempts' \in [Worker -> 0..MaxRetries + 1]
      BY <2>4, BufferAssumption DEF TypeOK, HandleEvent, StartHandling
    <3> QED
      BY <2>4, <3>1, <3>2, <3>3 DEF TypeOK, HandleEvent, StartHandling
  <2>5. ASSUME NEW from, NEW to \in WorkerPc, Goto(w, from, to) PROVE TypeOK'
    <3>1. wpc' \in [Worker -> WorkerPc]
      BY <2>5 DEF TypeOK, Goto
    <3> QED
      BY <2>5, <3>1 DEF TypeOK, Goto
  <2>6. CASE CallSucceeds(w) \/ CallFails(w) \/ ServerError(w) \/ PostProcessed(w) \/ PostProcessFails(w)
    BY <2>5, <2>6 DEF CallSucceeds, CallFails, ServerError, PostProcessed, PostProcessFails,
                      WorkerPc, Executing
  <2>7. CASE Retry(w)
    <3>1. wpc' \in [Worker -> WorkerPc]
      BY <2>7 DEF TypeOK, Retry, WorkerPc, Executing
    <3>2. attempts' \in [Worker -> 0..MaxRetries + 1]
      BY <2>7, BufferAssumption DEF TypeOK, Retry, RetryInv
    <3> QED
      BY <2>7, <3>1, <3>2 DEF TypeOK, Retry
  <2>8. CASE EventCompleted(w)
    <3>1. status' \in [Event -> Status]
      BY <2>8 DEF TypeOK, EventCompleted, Status, Settled
    <3>2. wpc' \in [Worker -> WorkerPc] /\ wev' \in [Worker -> Event \cup {NoEvent}]
      BY <2>8 DEF TypeOK, EventCompleted, WorkerPc
    <3>3. attempts' \in [Worker -> 0..MaxRetries + 1]
      BY <2>8, BufferAssumption DEF TypeOK, EventCompleted
    <3> QED
      BY <2>8, <3>1, <3>2, <3>3 DEF TypeOK, EventCompleted
  <2>9. CASE SendWorkerErr(w)
    <3>1. wpc' \in [Worker -> WorkerPc] /\ wev' \in [Worker -> Event \cup {NoEvent}]
      BY <2>9 DEF TypeOK, SendWorkerErr, WorkerErrSent, WorkerPc
    <3>2. mainPc' \in MainPc
      BY <2>9 DEF TypeOK, SendWorkerErr, WorkerErrSent, ReceiveErr, MainPc
    <3>3. errs' \subseteq Event \cup {CtxErr, DifferErr}
      BY <2>9, Held DEF TypeOK, SendWorkerErr, WorkerErrSent, ReceiveErr
    <3> QED
      BY <2>9, <3>1, <3>2, <3>3 DEF TypeOK, SendWorkerErr, WorkerErrSent, ReceiveErr
  <2> QED
    BY <1>10, <2>1, <2>2, <2>3, <2>4, <2>6, <2>7, <2>8, <2>9 DEF WorkerStep
<1> QED
  BY <1>1, <1>2, <1>3, <1>4, <1>5, <1>6, <1>7, <1>8, <1>9, <1>10 DEF Next, Producer, Main

LEMMA RetryInvStep == TypeOK /\ RetryInv /\ Next => RetryInv'
<1> SUFFICES ASSUME TypeOK, RetryInv, Next PROVE RetryInv'
  OBVIOUS
<1> USE DEF TypeOK, RetryInv, Executing
<1>1. CASE Producer
  BY <1>1 DEF Producer, EmitEvent, EnqueueEvent, EnqueueRefused, DifferFails, StageEmitted,
              WaitReturns, NextStage, SendProducerErr, CloseEventChan
<1>2. CASE Main \/ CancelContext \/ Done
  BY <1>2 DEF Main, CloseErrChan, SelectCtxDone, SelectErrChanClosed, CloseStopChan, RunReturns,
              CollectDropped, SolveReturns, CancelContext, Done, vars
<1>3. ASSUME NEW w \in Worker, WorkerStep(w) PROVE RetryInv'
  <2>1. CASE ServerError(w)
    BY <2>1 DEF ServerError, Goto
  <2>2. CASE HandleEvent(w) \/ Retry(w) \/ EventCompleted(w)
    BY <2>2 DEF HandleEvent, StartHandling, Retry, EventCompleted
  <2>3. CASE Receive(w) \/ LoopEnds(w) \/ StopSeen(w) \/ SendWorkerErr(w)
    BY <2>3 DEF Receive, LoopEnds, StopSeen, SendWorkerErr, WorkerErrSent, ReceiveErr
  <2>4. CASE CallSucceeds(w) \/ CallFails(w) \/ PostProcessed(w) \/ PostProcessFails(w)
    BY <2>4 DEF CallSucceeds, CallFails, PostProcessed, PostProcessFails, Goto
  <2> QED
    BY <1>3, <2>1, <2>2, <2>3, <2>4 DEF WorkerStep
<1> QED
  BY <1>1, <1>2, <1>3 DEF Next

LEMMA ProducerInvStep ==
  TypeOK /\ ProducerInv /\ QueueInv /\ WorkerInv /\ MainInv /\ Next => ProducerInv'
<1> SUFFICES ASSUME TypeOK, ProducerInv, QueueInv, WorkerInv, MainInv, Next PROVE ProducerInv'
  OBVIOUS
<1> USE DEF TypeOK, ProducerInv, ProdPc
<1>1. ASSUME NEW e \in Event, EmitEvent(e) PROVE ProducerInv'
  BY <1>1, EventAssumption DEF EmitEvent
<1>2. CASE EnqueueEvent
  BY <1>2 DEF EnqueueEvent
<1>3. CASE EnqueueRefused
  BY <1>3 DEF EnqueueRefused
<1>4. CASE DifferFails \/ StageEmitted \/ CloseEventChan \/ WaitReturns \/ SendProducerErr
  BY <1>4 DEF DifferFails, StageEmitted, CloseEventChan, WaitReturns, NextStage, SendProducerErr, ReceiveErr, MainInv
<1>5. CASE CollectDropped
  <2>1. prodPc = "exited" /\ cur = NoEvent
    BY <1>5 DEF CollectDropped, MainInv
  <2>2. \A f \in Event : status'[f] # "enqueuing" \/ status[f] = "enqueuing"
    BY <1>5 DEF CollectDropped
  <2> QED
    BY <1>5, <2>1, <2>2, EventAssumption DEF CollectDropped
<1>6. CASE \/ CloseErrChan \/ SelectCtxDone \/ SelectErrChanClosed \/ CloseStopChan
           \/ RunReturns \/ SolveReturns \/ CancelContext \/ Done
  BY <1>6 DEF CloseErrChan, SelectCtxDone, SelectErrChanClosed, CloseStopChan, RunReturns,
              SolveReturns, CancelContext, Done, vars
<1> SUFFICES ASSUME NEW w \in Worker, WorkerStep(w) PROVE ProducerInv'
  BY <1>1, <1>2, <1>3, <1>4, <1>5, <1>6 DEF Next, Producer, Main
<1>7. CASE \/ LoopEnds(w) \/ CallSucceeds(w) \/ CallFails(w) \/ ServerError(w) \/ Retry(w)
           \/ PostProcessed(w) \/ PostProcessFails(w) \/ SendWorkerErr(w)
  BY <1>7 DEF LoopEnds, CallSucceeds, CallFails, ServerError, Retry, PostProcessed,
              PostProcessFails, SendWorkerErr, WorkerErrSent, ReceiveErr, Goto
<1>8. CASE Receive(w)
  BY <1>8, ReceiveTakes DEF Receive
<1>9. CASE StopSeen(w)
  BY <1>9, Held DEF StopSeen
<1>10. CASE HandleEvent(w)
  BY <1>10, Held DEF HandleEvent, StartHandling
<1>11. CASE EventCompleted(w)
  <2>1. wev[w] \in Event /\ status[wev[w]] = "executing"
    BY <1>11, Held DEF EventCompleted, Executing
  <2>2. PICK s \in {"applied", "failed"} : status' = [status EXCEPT ![wev[w]] = s]
    BY <1>11 DEF EventCompleted
  <2> QED
    BY <1>11, <2>1, <2>2 DEF EventCompleted
<1> QED
  BY <1>7, <1>8, <1>9, <1>10, <1>11 DEF WorkerStep

LEMMA QueueInvStep ==
  TypeOK /\ ProducerInv /\ QueueInv /\ WorkerInv /\ Next => QueueInv'
<1> SUFFICES ASSUME TypeOK, ProducerInv, QueueInv, WorkerInv, Next PROVE QueueInv'
  OBVIOUS
<1> USE DEF TypeOK
<1>1. ASSUME NEW e \in Event, EmitEvent(e) PROVE QueueInv'
  BY <1>1 DEF QueueInv, EmitEvent
<1>2. CASE EnqueueEvent
  <2>1. cur \in Event /\ status[cur] = "enqueuing"
    BY <1>2 DEF EnqueueEvent, ProducerInv
  <2>2. /\ Len(eventChan') = Len(eventChan) + 1 /\ Len(eventChan) \in Nat
        /\ eventChan'[Len(eventChan) + 1] = cur
        /\ \A i \in 1..Len(eventChan) : eventChan'[i] = eventChan[i]
    BY <1>2, <2>1, AppendProperties DEF EnqueueEvent
  <2>3. /\ status'[cur] = "queued"
        /\ \A f \in Event \ {cur} : status'[f] = status[f]
    BY <1>2, <2>1 DEF EnqueueEvent
  <2>4. \A i \in 1..Len(eventChan) : eventChan[i] \in Event \ {cur}
    BY <2>1 DEF QueueInv
  <2>5. \A i \in 1..Len(eventChan') : status'[eventChan'[i]] = "queued"
    <3> TAKE i \in 1..Len(eventChan')
    <3>1. CASE i = Len(eventChan) + 1
      BY <3>1, <2>2, <2>3
    <3>2. CASE i \in 1..Len(eventChan)
      BY <3>2, <2>2, <2>3, <2>4 DEF QueueInv
    <3> QED
      BY <3>1, <3>2, <2>2
  <2>6. \A i, j \in 1..Len(eventChan') : eventChan'[i] = eventChan'[j] => i = j
    BY <2>2, <2>4 DEF QueueInv
  <2>7. \A f \in Event : status'[f] = "queued" => \E i \in 1..Len(eventChan') : eventChan'[i] = f
    <3> SUFFICES ASSUME NEW f \in Event, status'[f] = "queued"
                 PROVE  \E i \in 1..Len(eventChan') : eventChan'[i] = f
      OBVIOUS
    <3>1. CASE f = cur
      <4>1. Len(eventChan) + 1 \in 1..Len(eventChan')
        BY <2>2
      <4> QED
        BY <3>1, <4>1, <2>2
    <3>2. CASE f # cur
      <4>1. PICK i \in 1..Len(eventChan) : eventChan[i] = f
        BY <3>2, <2>3 DEF QueueInv
      <4> QED
        BY <4>1, <2>2
    <3> QED
      BY <3>1, <3>2
  <2> QED
    BY <2>5, <2>6, <2>7 DEF QueueInv
<1>3. CASE EnqueueRefused
  BY <1>3 DEF QueueInv, EnqueueRefused, ProducerInv
<1>4. CASE DifferFails \/ StageEmitted \/ CloseEventChan \/ WaitReturns \/ SendProducerErr
  BY <1>4 DEF QueueInv, DifferFails, StageEmitted, CloseEventChan, WaitReturns, NextStage, SendProducerErr
<1>5. CASE CollectDropped
  <2>1. Len(eventChan') = 0
    BY <1>5 DEF CollectDropped
  <2>2. \A f \in Event : status'[f] # "queued"
    BY <1>5 DEF CollectDropped, QueueInv
  <2> QED
    BY <2>1, <2>2 DEF QueueInv
<1>6. CASE \/ CloseErrChan \/ SelectCtxDone \/ SelectErrChanClosed \/ CloseStopChan
           \/ RunReturns \/ SolveReturns \/ CancelContext \/ Done
  BY <1>6 DEF QueueInv, CloseErrChan, SelectCtxDone, SelectErrChanClosed, CloseStopChan, RunReturns,
              SolveReturns, CancelContext, Done, vars
<1>7. ASSUME NEW w \in Worker, WorkerStep(w) PROVE QueueInv'
  <2>1. CASE \/ LoopEnds(w) \/ CallSucceeds(w) \/ CallFails(w) \/ ServerError(w) \/ Retry(w)
             \/ PostProcessed(w) \/ PostProcessFails(w) \/ SendWorkerErr(w)
    <3>1. UNCHANGED <<eventChan, status>>
      BY <2>1 DEF LoopEnds, CallSucceeds, CallFails, ServerError, Retry, PostProcessed,
                  PostProcessFails, SendWorkerErr, WorkerErrSent, Goto
    <3> QED
      BY <3>1 DEF QueueInv
  <2>2. CASE Receive(w)
    <3>1. /\ Head(eventChan) = eventChan[1] /\ Len(eventChan) \in Nat \ {0}
          /\ Len(eventChan') = Len(eventChan) - 1
          /\ \A i \in 1..Len(eventChan') : eventChan'[i] = eventChan[i+1]
      BY <2>2, ReceiveTakes
    <3>2. /\ eventChan[1] \in Event /\ status'[eventChan[1]] = "taken"
          /\ \A f \in Event \ {eventChan[1]} : status'[f] = status[f]
      BY <2>2, <3>1, ReceiveTakes DEF Receive
    <3>3. \A i \in 2..Len(eventChan) : eventChan[i] \in Event \ {eventChan[1]}
      BY <3>1 DEF QueueInv
    <3>4. \A i \in 1..Len(eventChan') : status'[eventChan'[i]] = "queued"
      <4> TAKE i \in 1..Len(eventChan')
      <4>1. i + 1 \in 2..Len(eventChan) /\ i + 1 \in 1..Len(eventChan)
        BY <3>1
      <4>2. eventChan'[i] = eventChan[i+1]
        BY <3>1
      <4>3. eventChan[i+1] \in Event \ {eventChan[1]} /\ status[eventChan[i+1]] = "queued"
        BY <3>3, <4>1 DEF QueueInv
      <4> QED
        BY <3>2, <4>2, <4>3
    <3>5. \A i, j \in 1..Len(eventChan') : eventChan'[i] = eventChan'[j] => i = j
      <4> TAKE i, j \in 1..Len(eventChan')
      <4>1. i + 1 \in 1..Len(eventChan) /\ j + 1 \in 1..Len(eventChan)
        BY <3>1
      <4>2. eventChan[i+1] = eventChan[j+1] => i + 1 = j + 1
        BY <4>1 DEF QueueInv
      <4>3. eventChan'[i] = eventChan[i+1] /\ eventChan'[j] = eventChan[j+1]
        BY <3>1
      <4>4. i \in Int /\ j \in Int
        BY <3>1
      <4> QED
        BY <4>2, <4>3, <4>4
    <3>6. ASSUME NEW f \in Event, status'[f] = "queued"
          PROVE  \E i \in 1..Len(eventChan') : eventChan'[i] = f
      <4>1. PICK i \in 1..Len(eventChan) : eventChan[i] = f
        BY <3>2, <3>6 DEF QueueInv
      <4>2. i - 1 \in 1..Len(eventChan')
        BY <3>1, <3>2, <3>6, <4>1
      <4> QED
        <5>1. eventChan'[i-1] = eventChan[(i-1)+1] /\ (i-1)+1 = i
          BY <3>1, <4>2
        <5> QED
          BY <4>1, <4>2, <5>1
    <3> QED
      BY <3>4, <3>5, <3>6 DEF QueueInv
  <2>3. ASSUME StopSeen(w) \/ HandleEvent(w) \/ EventCompleted(w)
        PROVE  QueueInv'
    <3>1. wev[w] \in Event /\ status[wev[w]] # "queued"
      BY <2>3, Held DEF StopSeen, HandleEvent, StartHandling, EventCompleted, Executing
    <3>2. PICK s \in {"discarded", "executing", "applied", "failed"} :
             status' = [status EXCEPT ![wev[w]] = s]
      BY <2>3 DEF StopSeen, HandleEvent, StartHandling, EventCompleted
    <3>3. eventChan' = eventChan
      BY <2>3 DEF StopSeen, HandleEvent, StartHandling, EventCompleted
    <3> QED
      BY <3>1, <3>2, <3>3 DEF QueueInv
  <2> QED
    BY <1>7, <2>1, <2>2, <2>3 DEF WorkerStep
<1> QED
  BY <1>1, <1>2, <1>3, <1>4, <1>5, <1>6, <1>7 DEF Next, Producer, Main

LEMMA WorkerInvStep ==
  TypeOK /\ ProducerInv /\ QueueInv /\ WorkerInv /\ Next => WorkerInv'
<1> SUFFICES ASSUME TypeOK, ProducerInv, QueueInv, WorkerInv, Next PROVE WorkerInv'
  OBVIOUS
<1> USE DEF TypeOK
<1>1. ASSUME UNCHANGED <<wpc, wev>>,
             \A e \in Event : status'[e] = status[e] \/
                /\ status[e] \in {"idle", "enqueuing", "queued"}
                /\ status'[e] \in {"enqueuing", "queued", "dropped", "leftover"}
      PROVE  WorkerInv'
  <2>1. \A w \in Worker : wev[w] # NoEvent => status[wev[w]] \in {"taken", "executing", "failed"}
    BY DEF WorkerInv, HeldAt
  <2>2. \A w \in Worker : wev[w] # NoEvent => status'[wev[w]] = status[wev[w]]
    BY <1>1, <2>1
  <2>3. \A e \in Event : status'[e] \in {"taken", "executing"} => status[e] = status'[e]
    BY <1>1
  <2> QED
    BY <1>1, <2>2, <2>3 DEF WorkerInv, HeldAt
<1>2. CASE Producer
  BY <1>1, <1>2 DEF Producer, EmitEvent, EnqueueEvent, EnqueueRefused, DifferFails, StageEmitted,
                    WaitReturns, NextStage, SendProducerErr, CloseEventChan, ProducerInv
<1>3. CASE CollectDropped
  BY <1>1, <1>3 DEF CollectDropped, QueueInv
<1>4. CASE \/ CloseErrChan \/ SelectCtxDone \/ SelectErrChanClosed \/ CloseStopChan
           \/ RunReturns \/ SolveReturns \/ CancelContext \/ Done
  BY <1>1, <1>4 DEF CloseErrChan, SelectCtxDone, SelectErrChanClosed, CloseStopChan, RunReturns,
                    SolveReturns, CancelContext, Done, vars
<1>5. ASSUME NEW w \in Worker, WorkerStep(w) PROVE WorkerInv'
  <2>1. CASE Receive(w)
    <3>1. Head(eventChan) \in Event /\ status[Head(eventChan)] = "queued" /\ Head(eventChan) # NoEvent
      BY <2>1, ReceiveTakes, EventAssumption
    <3>2. \A v \in Worker : wev[v] # NoEvent => status[wev[v]] # "queued" /\ wev[v] \in Event
      BY DEF WorkerInv, HeldAt
    <3>3. \A v \in Worker : wev[v] # Head(eventChan)
      BY <3>1, <3>2
    <3>4. /\ wpc'[w] = "check" /\ wev'[w] = Head(eventChan) /\ status'[Head(eventChan)] = "taken"
          /\ \A v \in Worker \ {w} : wpc'[v] = wpc[v] /\ wev'[v] = wev[v]
          /\ \A e \in Event \ {Head(eventChan)} : status'[e] = status[e]
          /\ wev[w] = NoEvent
      BY <2>1, <3>1, Held DEF Receive
    <3>5. \A v \in Worker : wev'[v] = NoEvent <=> wpc'[v] \in {"recv", "exited"}
      BY <3>1, <3>4 DEF WorkerInv
    <3>6. \A v \in Worker : wev'[v] # NoEvent => status'[wev'[v]] = HeldAt(wpc'[v])
      <4> TAKE v \in Worker
      <4>1. CASE v = w
        BY <4>1, <3>4 DEF HeldAt, Executing
      <4>2. CASE v # w
        <5>1. wev'[v] = wev[v] /\ wpc'[v] = wpc[v]
          BY <4>2, <3>4
        <5>2. wev[v] # NoEvent => status'[wev[v]] = status[wev[v]]
          BY <3>2, <3>3, <3>4
        <5> QED
          BY <5>1, <5>2 DEF WorkerInv
      <4> QED
        BY <4>1, <4>2
    <3>7. \A u, v \in Worker : wev'[v] # NoEvent /\ wev'[v] = wev'[u] => v = u
      BY <3>3, <3>4 DEF WorkerInv
    <3>8. \A e \in Event : status'[e] \in {"taken", "executing"} => \E v \in Worker : wev'[v] = e
      <4> TAKE e \in Event
      <4>1. CASE e = Head(eventChan)
        BY <3>4, <4>1
      <4>2. ASSUME e # Head(eventChan), status'[e] \in {"taken", "executing"}
            PROVE  \E v \in Worker : wev'[v] = e
        <5>1. PICK v \in Worker : wev[v] = e
          BY <3>4, <4>2 DEF WorkerInv
        <5>2. v # w
          BY <3>4, <5>1, EventAssumption
        <5> QED
          BY <3>4, <5>1, <5>2
      <4> QED
        BY <4>1, <4>2
    <3> QED
      BY <3>5, <3>6, <3>7, <3>8 DEF WorkerInv
  <2>2. CASE LoopEnds(w)
    BY <2>2 DEF LoopEnds, WorkerInv, HeldAt
  <2>3. CASE StopSeen(w)
    BY <2>3, Held DEF StopSeen, WorkerInv, HeldAt
  <2>4. CASE HandleEvent(w)
    <3>1. wev[w] \in Event /\ status[wev[w]] = "taken" /\ wev' = wev
      BY <2>4, Held DEF HandleEvent, StartHandling
    <3>2. /\ wpc'[w] = "call" /\ status'[wev[w]] = "executing"
          /\ \A v \in Worker \ {w} : wpc'[v] = wpc[v]
          /\ \A e \in Event \ {wev[w]} : status'[e] = status[e]
      BY <2>4, <3>1 DEF HandleEvent, StartHandling
    <3>3. \A v \in Worker : wev'[v] = NoEvent <=> wpc'[v] \in {"recv", "exited"}
      BY <2>4, <3>1, <3>2, EventAssumption DEF WorkerInv
    <3>4. \A v \in Worker : wev'[v] # NoEvent => status'[wev'[v]] = HeldAt(wpc'[v])
      BY <3>1, <3>2 DEF WorkerInv, HeldAt, Executing
    <3>5. \A e \in Event : status'[e] \in {"taken", "executing"} => \E v \in Worker : wev'[v] = e
      BY <3>1, <3>2 DEF WorkerInv
    <3> QED
      BY <3>1, <3>3, <3>4, <3>5 DEF WorkerInv
  <2>5. ASSUME NEW from \in Executing, NEW to \in Executing, Goto(w, from, to) PROVE WorkerInv'
    BY <2>5 DEF Goto, WorkerInv, HeldAt, Executing
  <2>6. CASE CallSucceeds(w) \/ CallFails(w) \/ ServerError(w) \/ PostProcessed(w) \/ PostProcessFails(w)
    BY <2>5, <2>6 DEF CallSucceeds, CallFails, ServerError, PostProcessed, PostProcessFails, Executing
  <2>7. CASE Retry(w)
    BY <2>7 DEF Retry, WorkerInv, HeldAt, Executing
  <2>8. CASE EventCompleted(w)
    BY <2>8, Held DEF EventCompleted, WorkerInv, HeldAt, Executing
  <2>9. CASE SendWorkerErr(w)
    BY <2>9, Held DEF SendWorkerErr, WorkerErrSent, WorkerInv, HeldAt, Executing
  <2> QED
    BY <1>5, <2>1, <2>2, <2>3, <2>4, <2>6, <2>7, <2>8, <2>9 DEF WorkerStep
<1> QED
  BY <1>2, <1>3, <1>4, <1>5 DEF Next, Main

\* The count moves with the set it counts.
LEMMA OpenEventsCounted ==
  ASSUME TypeOK, InFlightExact, NEW e \in Event, NEW s \in Status, NEW t \in Status,
         status[e] = s, status' = [status EXCEPT ![e] = t]
  PROVE  /\ s \in Open /\ t \in Open /\ inFlightOps' = inFlightOps => InFlightExact'
         /\ s \notin Open /\ t \in Open /\ inFlightOps' = inFlightOps + 1 => InFlightExact'
         /\ s \in Open /\ t \notin Open /\ inFlightOps' = inFlightOps - 1 => InFlightExact'
<1>1. IsFiniteSet(OpenEvents) /\ inFlightOps = Cardinality(OpenEvents)
  BY EventAssumption, FS_Subset DEF OpenEvents, InFlightExact
<1>2. InFlightExact' <=> inFlightOps' = Cardinality(OpenEvents')
  BY DEF OpenEvents, InFlightExact
<1>3. Cardinality(OpenEvents) \in Nat
  BY <1>1, FS_CardinalityType
<1>4. ASSUME s \in Open, t \in Open PROVE OpenEvents' = OpenEvents
  BY <1>4 DEF OpenEvents, TypeOK
<1>5. ASSUME s \notin Open, t \in Open
      PROVE  OpenEvents' = OpenEvents \cup {e} /\ e \notin OpenEvents
  BY <1>5 DEF OpenEvents, TypeOK
<1>6. ASSUME s \in Open, t \notin Open
      PROVE  OpenEvents' = OpenEvents \ {e} /\ e \in OpenEvents
  BY <1>6 DEF OpenEvents, TypeOK
<1>7. s \notin Open /\ t \in Open => Cardinality(OpenEvents') = Cardinality(OpenEvents) + 1
  BY <1>1, <1>5, FS_AddElement
<1>8. s \in Open /\ t \notin Open => Cardinality(OpenEvents') = Cardinality(OpenEvents) - 1
  BY <1>1, <1>6, FS_RemoveElement
<1> QED
  BY <1>1, <1>2, <1>3, <1>4, <1>7, <1>8

LEMMA InFlightExactStep ==
  TypeOK /\ ProducerInv /\ QueueInv /\ WorkerInv /\ InFlightExact /\ Next => InFlightExact'
<1> SUFFICES ASSUME TypeOK, ProducerInv, QueueInv, WorkerInv, InFlightExact, Next
             PROVE  InFlightExact'
  OBVIOUS
<1>1. ASSUME NEW e \in Event, EmitEvent(e) PROVE InFlightExact'
  BY <1>1, OpenEventsCounted DEF EmitEvent, Open, Status
<1>2. CASE EnqueueEvent
  <2>1. cur \in Event /\ status[cur] = "enqueuing"
    BY <1>2 DEF EnqueueEvent, ProducerInv, TypeOK
  <2> QED
    BY <1>2, <2>1, OpenEventsCounted DEF EnqueueEvent, Open, Status
<1>3. CASE EnqueueRefused
  <2>1. cur \in Event /\ status[cur] = "enqueuing"
    BY <1>3 DEF EnqueueRefused, ProducerInv, TypeOK
  <2>2. "dropped" \notin Open
    BY DEF Open
  <2> QED
    BY <1>3, <2>1, <2>2, OpenEventsCounted DEF EnqueueRefused, Open, Status
<1>4. CASE UNCHANGED <<inFlightOps, status>>
  BY <1>4 DEF InFlightExact
<1>5. CASE DifferFails \/ StageEmitted \/ CloseEventChan \/ WaitReturns \/ SendProducerErr
  BY <1>4, <1>5 DEF DifferFails, StageEmitted, CloseEventChan, WaitReturns, NextStage, SendProducerErr
<1>6. CASE \/ CloseErrChan \/ SelectCtxDone \/ SelectErrChanClosed \/ CloseStopChan
           \/ RunReturns \/ SolveReturns \/ CancelContext \/ Done
  BY <1>4, <1>6 DEF CloseErrChan, SelectCtxDone, SelectErrChanClosed, CloseStopChan, RunReturns,
                    SolveReturns, CancelContext, Done, vars
<1>7. CASE CollectDropped
  <2>1. \A e \in Event : status'[e] \in Open <=> status[e] \in Open
    BY <1>7 DEF CollectDropped, QueueInv, Open
  <2>2. inFlightOps' = inFlightOps
    BY <1>7 DEF CollectDropped
  <2>3. {e \in Event : status'[e] \in Open} = {e \in Event : status[e] \in Open}
    BY <2>1
  <2> QED
    BY <2>2, <2>3 DEF InFlightExact
<1>8. ASSUME NEW w \in Worker, WorkerStep(w) PROVE InFlightExact'
  <2>1. CASE \/ LoopEnds(w) \/ CallSucceeds(w) \/ CallFails(w) \/ ServerError(w) \/ Retry(w)
             \/ PostProcessed(w) \/ PostProcessFails(w) \/ SendWorkerErr(w)
    BY <1>4, <2>1 DEF LoopEnds, CallSucceeds, CallFails, ServerError, Retry, PostProcessed,
                      PostProcessFails, SendWorkerErr, WorkerErrSent, Goto
  <2>2. CASE Receive(w)
    <3>1. Head(eventChan) \in Event /\ status[Head(eventChan)] = "queued"
      BY <2>2, ReceiveTakes
    <3> QED
      BY <2>2, <3>1, OpenEventsCounted DEF Receive, Open, Status
  <2>3. CASE StopSeen(w)
    <3>1. wev[w] \in Event /\ status[wev[w]] = "taken"
      BY <2>3, Held DEF StopSeen
    <3> QED
      BY <2>3, <3>1, OpenEventsCounted DEF StopSeen, Open, Status
  <2>4. CASE HandleEvent(w)
    <3>1. wev[w] \in Event /\ status[wev[w]] = "taken"
      BY <2>4, Held DEF HandleEvent, StartHandling
    <3> QED
      BY <2>4, <3>1, OpenEventsCounted DEF HandleEvent, StartHandling, Open, Status
  <2>5. CASE EventCompleted(w)
    <3>1. wev[w] \in Event /\ status[wev[w]] = "executing"
      BY <2>5, Held DEF EventCompleted, Executing
    <3>2. PICK t \in Settled : status' = [status EXCEPT ![wev[w]] = t]
      BY <2>5 DEF EventCompleted, Settled
    <3>3. "executing" \in Open /\ t \notin Open /\ t \in Status /\ "executing" \in Status
      BY <3>2 DEF Open, Settled, Status
    <3>4. inFlightOps' = inFlightOps - 1
      BY <2>5 DEF EventCompleted
    <3> QED
      BY <3>1, <3>2, <3>3, <3>4, OpenEventsCounted
  <2> QED
    BY <1>8, <2>1, <2>2, <2>3, <2>4, <2>5 DEF WorkerStep
<1> QED
  BY <1>1, <1>2, <1>3, <1>5, <1>6, <1>7, <1>8 DEF Next, Producer, Main

\* Apart from EmitEvent, no step moves an event that is not open into play,
\* nor an idle one anywhere.
LEMMA OpenOnlyByEmit ==
  ASSUME TypeOK, ProducerInv, QueueInv, WorkerInv, Next
  PROVE  \/ \E e \in Event : EmitEvent(e)
         \/ \A e \in Event : status'[e] # status[e] => status[e] \in Open
<1>1. CASE EnqueueEvent \/ EnqueueRefused
  BY <1>1 DEF EnqueueEvent, EnqueueRefused, ProducerInv, TypeOK, Open
<1>2. CASE CollectDropped
  BY <1>2 DEF CollectDropped, QueueInv, TypeOK, Open
<1>3. ASSUME NEW w \in Worker, Receive(w) PROVE \A e \in Event : status'[e] # status[e] => status[e] \in Open
  BY <1>3, ReceiveTakes DEF Receive, TypeOK, Open
<1>4. ASSUME NEW w \in Worker, StopSeen(w) \/ HandleEvent(w) \/ EventCompleted(w)
      PROVE \A e \in Event : status'[e] # status[e] => status[e] \in Open
  <2>1. wev[w] \in Event /\ status[wev[w]] \in {"taken", "executing"}
    BY <1>4, Held DEF StopSeen, HandleEvent, StartHandling, EventCompleted, Executing
  <2>2. \E t \in Status : status' = [status EXCEPT ![wev[w]] = t]
    BY <1>4 DEF StopSeen, HandleEvent, StartHandling, EventCompleted, Status, Open, Settled
  <2> QED
    BY <2>1, <2>2 DEF TypeOK, Open
<1> QED
  BY StatusSteps, <1>1, <1>2, <1>3, <1>4

LEMMA StageInvStep ==
  TypeOK /\ ProducerInv /\ QueueInv /\ WorkerInv /\ InFlightExact /\ StageInv /\ Next => StageInv'
<1> SUFFICES ASSUME TypeOK, ProducerInv, QueueInv, WorkerInv, InFlightExact, StageInv, Next
             PROVE  StageInv'
  OBVIOUS
<1>1. ASSUME NEW e \in Event, EmitEvent(e) PROVE StageInv'
  BY <1>1, StageAssumption DEF EmitEvent, StageInv, TypeOK
<1>2. CASE WaitReturns
  <2>1. UNCHANGED <<status, stopped>> /\ (stage' = stage \/ stage' = stage + 1)
    BY <1>2 DEF WaitReturns, NextStage
  <2>2. stopped \/ OpenEvents = {}
    <3>1. IsFiniteSet(OpenEvents)
      BY EventAssumption, FS_Subset DEF OpenEvents
    <3> QED
      BY <1>2, <3>1, FS_EmptySet DEF WaitReturns, NextStage, InFlightExact, OpenEvents
  <2> QED
    BY <2>1, <2>2, StageAssumption DEF StageInv, TypeOK, OpenEvents
<1>3. ASSUME ~ \E e \in Event : EmitEvent(e), ~WaitReturns PROVE StageInv'
  <2>1. stage' = stage /\ (stopped => stopped')
    BY <1>3 DEF Next, Producer, WorkerStep, Main, DifferFails, StageEmitted, CloseEventChan, EnqueueEvent,
       EnqueueRefused, SendProducerErr, Receive, LoopEnds, StopSeen, HandleEvent, StartHandling, EventCompleted,
       CallSucceeds, CallFails, ServerError, Retry, PostProcessed, ReceiveErr,
       PostProcessFails, Goto, SendWorkerErr, WorkerErrSent, CloseErrChan, SelectCtxDone, SelectErrChanClosed,
       CloseStopChan, RunReturns, CollectDropped, SolveReturns, CancelContext, Done, vars
  <2>2. \A e \in Event : status'[e] # status[e] => status[e] \in Open
    BY <1>3, OpenOnlyByEmit
  <2>3. "idle" \notin Open
    BY DEF Open
  <2> QED
    BY <2>1, <2>2, <2>3 DEF StageInv
<1> QED
  BY <1>1, <1>2, <1>3

\* The promise of the barrier: nothing starts before what it depends on has
\* ended, because the event was emitted in a stage entered by WaitReturns.
LEMMA StageBarrierStep ==
  TypeOK /\ ProducerInv /\ QueueInv /\ WorkerInv /\ StageInv /\ StageBarrier /\ Next => StageBarrier'
<1> SUFFICES ASSUME TypeOK, ProducerInv, QueueInv, WorkerInv, StageInv, StageBarrier, Next,
                    NEW e \in Event, NEW f \in Event,
                    status'[e] = "executing", StageOf[f] < StageOf[e]
             PROVE  status'[f] \notin Open
  BY DEF StageBarrier
<1>1. "idle" \notin Open /\ StageOf[e] \in Nat /\ StageOf[f] \in Nat /\ stage \in Nat
  BY StageAssumption DEF Open, TypeOK
<1>2. ASSUME NEW g \in Event, EmitEvent(g) PROVE status'[f] \notin Open
  <2>1. status[e] = "executing" /\ StageOf[g] = stage
    BY <1>2 DEF EmitEvent, TypeOK
  <2>2. StageOf[e] <= stage
    BY <1>1, <2>1 DEF StageInv
  <2> QED
    BY <1>1, <1>2, <2>1, <2>2 DEF EmitEvent, StageBarrier, TypeOK
<1>3. ASSUME NEW w \in Worker, HandleEvent(w), wev[w] = e PROVE status'[f] \notin Open
  <2>1. status[e] = "taken" /\ ~stopped
    BY <1>3, Held DEF HandleEvent, StartHandling
  <2>2. StageOf[f] < stage
    BY <1>1, <2>1 DEF StageInv
  <2>3. status[f] \notin Open /\ e # f
    BY <1>1, <2>1, <2>2 DEF StageInv
  <2> QED
    BY <1>3, <2>3 DEF HandleEvent, StartHandling, TypeOK
<1>4. CASE (~ \E g \in Event : EmitEvent(g)) /\ status[e] = "executing"
  <2>1. status[f] \notin Open
    BY <1>4 DEF StageBarrier
  <2> QED
    BY <1>4, <2>1, OpenOnlyByEmit
<1>5. CASE status[e] # "executing"
  <2>1. ~ \/ UNCHANGED status \/ (\E g \in Event : EmitEvent(g))
          \/ EnqueueEvent \/ EnqueueRefused \/ CollectDropped
    BY <1>5 DEF EmitEvent, EnqueueEvent, EnqueueRefused, CollectDropped, TypeOK
  <2>2. \A w \in Worker : ~(Receive(w) \/ StopSeen(w) \/ EventCompleted(w))
    BY <1>5 DEF Receive, StopSeen, EventCompleted, TypeOK
  <2>3. PICK w \in Worker : HandleEvent(w)
    BY <2>1, <2>2, StatusSteps
  <2>4. wev[w] = e
    BY <1>5, <2>3 DEF HandleEvent, StartHandling, TypeOK
  <2> QED
    BY <1>3, <2>3, <2>4
<1> QED
  BY <1>2, <1>4, <1>5

LEMMA MainInvStep ==
  TypeOK /\ ProducerInv /\ QueueInv /\ WorkerInv /\ MainInv /\ Next => MainInv'
<1> SUFFICES ASSUME TypeOK, ProducerInv, QueueInv, WorkerInv, MainInv, Next PROVE MainInv'
  OBVIOUS
<1> USE DEF TypeOK, MainInv
<1>1. ASSUME NEW e \in Event, EmitEvent(e) PROVE MainInv'
  BY <1>1 DEF EmitEvent
<1>2. CASE EnqueueEvent
  BY <1>2 DEF EnqueueEvent
<1>3. CASE EnqueueRefused
  BY <1>3 DEF EnqueueRefused
<1>4. CASE DifferFails \/ StageEmitted \/ CloseEventChan \/ WaitReturns
  BY <1>4 DEF DifferFails, StageEmitted, CloseEventChan, WaitReturns, NextStage
<1>5. CASE SendProducerErr
  BY <1>5 DEF SendProducerErr, ReceiveErr, ProducerInv
<1>6. CASE CollectDropped
  BY <1>6 DEF CollectDropped
<1>7. CASE \/ CloseErrChan \/ SelectCtxDone \/ SelectErrChanClosed \/ CloseStopChan
           \/ RunReturns \/ SolveReturns \/ CancelContext \/ Done
  BY <1>7 DEF CloseErrChan, SelectCtxDone, SelectErrChanClosed, CloseStopChan, RunReturns,
              SolveReturns, CancelContext, Done, vars
<1>8. ASSUME NEW w \in Worker, WorkerStep(w) PROVE MainInv'
  <2>1. CASE Receive(w)
    BY <2>1, ReceiveTakes DEF Receive
  <2>2. CASE LoopEnds(w)
    BY <2>2 DEF LoopEnds
  <2>3. CASE StopSeen(w)
    BY <2>3 DEF StopSeen
  <2>4. CASE HandleEvent(w)
    BY <2>4, Held DEF HandleEvent, StartHandling
  <2>5. ASSUME NEW from \in Executing, NEW to \in Executing, Goto(w, from, to) PROVE MainInv'
    BY <2>5 DEF Goto, Executing
  <2>6. CASE CallSucceeds(w) \/ CallFails(w) \/ ServerError(w) \/ PostProcessed(w) \/ PostProcessFails(w)
    BY <2>5, <2>6 DEF CallSucceeds, CallFails, ServerError, PostProcessed, PostProcessFails, Executing
  <2>7. CASE Retry(w)
    BY <2>7 DEF Retry
  <2>8. CASE EventCompleted(w)
    BY <2>8, Held DEF EventCompleted
  <2>9. CASE SendWorkerErr(w)
    BY <2>9 DEF SendWorkerErr, WorkerErrSent, ReceiveErr
  <2> QED
    BY <1>8, <2>1, <2>2, <2>3, <2>4, <2>6, <2>7, <2>8, <2>9 DEF WorkerStep
<1> QED
  BY <1>1, <1>2, <1>3, <1>4, <1>5, <1>6, <1>7, <1>8 DEF Next, Producer, Main

LEMMA ErrorInvStep ==
  TypeOK /\ ProducerInv /\ QueueInv /\ WorkerInv /\ MainInv /\ ErrorInv /\ Next => ErrorInv'
<1> SUFFICES ASSUME TypeOK, ProducerInv, QueueInv, WorkerInv, MainInv, ErrorInv, Next PROVE ErrorInv'
  OBVIOUS
<1> USE DEF TypeOK, ErrorInv
<1>1. ASSUME NEW e \in Event, EmitEvent(e) PROVE ErrorInv'
  BY <1>1 DEF EmitEvent, MainInv
<1>2. CASE EnqueueEvent
  BY <1>2 DEF EnqueueEvent, MainInv, ProducerInv
<1>3. CASE EnqueueRefused
  BY <1>3 DEF EnqueueRefused, MainInv, ProducerInv
<1>4. CASE DifferFails \/ StageEmitted \/ CloseEventChan \/ WaitReturns
  BY <1>4 DEF DifferFails, StageEmitted, CloseEventChan, WaitReturns, NextStage, MainInv
<1>5. CASE SendProducerErr
  BY <1>5, EventAssumption DEF SendProducerErr, ReceiveErr, ProducerInv, MainInv
<1>6. CASE CollectDropped
  BY <1>6 DEF CollectDropped, QueueInv, MainInv
<1>7. CASE SelectErrChanClosed
  <2>1. \A v \in Worker : wpc[v] = "exited" /\ wev[v] = NoEvent
    BY <1>7, Held DEF SelectErrChanClosed, MainInv
  <2>2. eventChan = <<>> /\ cur = NoEvent /\ ~stopped /\ errs = {}
    BY <1>7, <2>1, WorkerAssumption DEF SelectErrChanClosed, MainInv, ProducerInv
  <2>3. ASSUME NEW e \in Event PROVE status[e] \in {"idle", "applied"}
    <3>1. status[e] # "enqueuing"
      BY <2>2, EventAssumption DEF ProducerInv
    <3>2. status[e] # "queued"
      BY <2>2 DEF QueueInv
    <3>3. status[e] \notin {"taken", "executing", "failed"}
      BY <2>1, <2>2, EventAssumption DEF WorkerInv
    <3>4. status[e] \notin {"dropped", "discarded", "leftover"}
      BY <2>2 DEF MainInv
    <3> QED
      BY <3>1, <3>2, <3>3, <3>4 DEF Status, Open, Settled
  <2> QED
    BY <1>7, <2>3 DEF SelectErrChanClosed
<1>8. CASE SelectCtxDone
  BY <1>8, EventAssumption DEF SelectCtxDone, MainInv
<1>9. CASE \/ CloseErrChan \/ CloseStopChan \/ RunReturns \/ SolveReturns \/ CancelContext \/ Done
  BY <1>9 DEF CloseErrChan, CloseStopChan, RunReturns, SolveReturns, CancelContext, Done, vars
<1>10. ASSUME NEW w \in Worker, WorkerStep(w) PROVE ErrorInv'
  <2>1. CASE Receive(w)
    <3>1. Head(eventChan) \in Event /\ status[Head(eventChan)] = "queued"
      BY <2>1, ReceiveTakes
    <3>2. wev[w] = NoEvent /\ ~errChanClosed /\ UNCHANGED <<mainPc, errs, errChanClosed>>
      BY <2>1, Held DEF Receive, MainInv
    <3>3. \A e \in Event : status'[e] = "failed" <=> status[e] = "failed"
      BY <2>1, <3>1 DEF Receive
    <3>4. \A e \in Event, v \in Worker : wev[v] = e => wev'[v] = e
      BY <2>1, <3>2, EventAssumption DEF Receive
    <3> QED
      BY <3>2, <3>3, <3>4
  <2>2. CASE LoopEnds(w)
    BY <2>2 DEF LoopEnds, MainInv
  <2>3. CASE StopSeen(w)
    BY <2>3, Held DEF StopSeen, MainInv
  <2>4. CASE HandleEvent(w)
    BY <2>4, Held DEF HandleEvent, StartHandling, MainInv
  <2>5. CASE \/ CallSucceeds(w) \/ CallFails(w) \/ ServerError(w) \/ PostProcessed(w)
             \/ PostProcessFails(w) \/ Retry(w)
    BY <2>5 DEF CallSucceeds, CallFails, ServerError, PostProcessed, PostProcessFails, Retry, Goto
  <2>6. CASE EventCompleted(w)
    BY <2>6, Held DEF EventCompleted, MainInv, Executing
  <2>7. CASE SendWorkerErr(w)
    BY <2>7, Held DEF SendWorkerErr, WorkerErrSent, ReceiveErr, MainInv
  <2> QED
    BY <1>10, <2>1, <2>2, <2>3, <2>4, <2>5, <2>6, <2>7 DEF WorkerStep
<1> QED
  BY <1>1, <1>2, <1>3, <1>4, <1>5, <1>6, <1>7, <1>8, <1>9, <1>10 DEF Next, Producer, Main

-----------------------------------------------------------------------------
(* The inductive invariant, and what follows from it.                      *)

LEMMA InitIInv == Init => IInv
<1> SUFFICES ASSUME Init PROVE IInv
  OBVIOUS
<1> USE DEF Init
<1>1. TypeOK
  <2>1. prodPc \in ProdPc /\ stage \in 1..NumStages /\ cur \in Event \cup {NoEvent}
    BY StageAssumption DEF ProdPc
  <2>2. eventChan \in Seq(Event) /\ Len(eventChan) <= EventBuffer
    BY BufferAssumption
  <2>3. wpc \in [Worker -> WorkerPc] /\ wev \in [Worker -> Event \cup {NoEvent}]
    BY DEF WorkerPc
  <2>4. attempts \in [Worker -> 0..MaxRetries + 1]
    BY BufferAssumption
  <2>5. status \in [Event -> Status] /\ mainPc \in MainPc
    BY DEF Status, MainPc
  <2>6. inFlightOps \in Int /\ droppedEvents \subseteq Event /\ errs \subseteq Event \cup {CtxErr, DifferErr}
    OBVIOUS
  <2>7. chanClosed \in BOOLEAN /\ stopped \in BOOLEAN /\ errChanClosed \in BOOLEAN /\ ctxDone \in BOOLEAN
    OBVIOUS
  <2> HIDE DEF Init
  <2> QED
    BY <2>1, <2>2, <2>3, <2>4, <2>5, <2>6, <2>7 DEF TypeOK
<1>2. ProducerInv /\ QueueInv /\ WorkerInv /\ RetryInv
  BY DEF ProducerInv, QueueInv, WorkerInv, RetryInv
<1>3. InFlightExact
  <2>1. {e \in Event : status[e] \in Open} = {}
    BY DEF Open
  <2> QED
    BY <2>1, FS_EmptySet DEF InFlightExact
<1>4. StageInv /\ StageBarrier
  BY DEF StageInv, StageBarrier, Open
<1>5. MainInv /\ ErrorInv
  BY DEF MainInv, ErrorInv
<1> QED
  BY <1>1, <1>2, <1>3, <1>4, <1>5 DEF IInv

LEMMA StutterIInv == IInv /\ UNCHANGED vars => IInv'
<1> SUFFICES ASSUME IInv, UNCHANGED vars PROVE IInv'
  OBVIOUS
<1> USE DEF vars
<1>1. TypeOK'
  BY DEF IInv, TypeOK
<1>2. ProducerInv' /\ QueueInv' /\ RetryInv'
  BY DEF IInv, ProducerInv, QueueInv, RetryInv
<1>3. WorkerInv'
  BY DEF IInv, WorkerInv
<1>4. InFlightExact' /\ StageInv' /\ StageBarrier'
  BY DEF IInv, InFlightExact, StageInv, StageBarrier
<1>5. MainInv' /\ ErrorInv'
  BY DEF IInv, MainInv, ErrorInv
<1> QED
  BY <1>1, <1>2, <1>3, <1>4, <1>5 DEF IInv

\* The parts of IInv hold in every reachable state.
THEOREM Invariance == Spec => []IInv
<1>1. IInv /\ Next => IInv'
  BY TypeOKStep, ProducerInvStep, QueueInvStep, WorkerInvStep, RetryInvStep, InFlightExactStep,
     StageInvStep, StageBarrierStep, MainInvStep, ErrorInvStep DEF IInv
<1> QED
  BY <1>1, InitIInv, StutterIInv, PTL DEF Spec

\* Every variable keeps its type: in particular no worker makes more than
\* MaxRetries + 1 calls for an event and eventChan never exceeds its capacity.
THEOREM TypeCorrect == Spec => []TypeOK
BY Invariance, PTL DEF IInv

\* The counter wait() polls is exact at every step of every goroutine.
THEOREM InFlightIsExact == Spec => []InFlightExact
BY Invariance, PTL DEF IInv

\* The stages are a barrier, for any number of workers, stages and retries.
THEOREM BarrierHolds == Spec => []StageBarrier
BY Invariance, PTL DEF IInv

\* No event is in two places at once.
THEOREM NoEventTwice == Spec => []HandsDisjoint
<1>1. IInv => HandsDisjoint
  <2> SUFFICES ASSUME IInv, NEW w \in Worker, wev[w] # NoEvent
               PROVE  /\ \A v \in Worker \ {w} : wev[v] # wev[w]
                      /\ \A i \in 1..Len(eventChan) : eventChan[i] # wev[w]
    BY DEF HandsDisjoint
  <2>1. status[wev[w]] # "queued"
    BY DEF IInv, WorkerInv, HeldAt
  <2> QED
    BY <2>1 DEF IInv, WorkerInv, QueueInv
<1> QED
  BY <1>1, Invariance, PTL

\* A Solve that returns no error has applied every event that was emitted.
THEOREM SuccessIsComplete == Spec => []NoSilentLoss
<1>1. IInv => NoSilentLoss
  BY DEF IInv, ErrorInv, NoSilentLoss
<1> QED
  BY <1>1, Invariance, PTL

\* Solve returns the errors of the failed events, all of them and no other.
THEOREM ErrorsAreExact == Spec => []ErrorsReported
<1>1. IInv => ErrorsReported
  <2> SUFFICES ASSUME IInv, mainPc = "solved"
               PROVE  errs \cap Event = {e \in Event : status[e] = "failed"}
    BY DEF ErrorsReported
  <2>1. \A w \in Worker : wev[w] = NoEvent
    BY DEF IInv, MainInv, WorkerInv
  <2> QED
    BY <2>1, EventAssumption DEF IInv, ErrorInv
<1> QED
  BY <1>1, Invariance, PTL

\* When Solve returns, no event is still on its way.
THEOREM NothingIsInLimbo == Spec => []NothingInLimbo
<1>1. IInv => NothingInLimbo
  <2> SUFFICES ASSUME IInv, mainPc = "solved", NEW e \in Event
               PROVE  eventChan = <<>> /\ status[e] \notin {"enqueuing", "queued", "taken", "executing"}
    BY DEF NothingInLimbo, IInv, MainInv
  <2>1. eventChan = <<>> /\ cur = NoEvent /\ \A w \in Worker : wev[w] = NoEvent
    BY DEF IInv, MainInv, WorkerInv, ProducerInv
  <2>2. status[e] # "enqueuing" /\ status[e] \notin {"taken", "executing"}
    BY <2>1, EventAssumption DEF IInv, ProducerInv, WorkerInv
  <2>3. status[e] # "queued"
    BY <2>1 DEF IInv, QueueInv
  <2> QED
    BY <2>1, <2>2, <2>3
<1> QED
  BY <1>1, Invariance, PTL

\* An event that has ended is left alone for the rest of the run.
THEOREM SettledStays == Spec => SettledForever
<1>1. IInv /\ [Next]_vars => [\A e \in Event : status[e] \in Settled => status'[e] = status[e]]_vars
  <2> SUFFICES ASSUME IInv, Next, NEW e \in Event, status[e] \in Settled
               PROVE  status'[e] = status[e]
    OBVIOUS
  <2>1. status[e] \notin Open /\ status[e] # "idle"
    BY DEF Open, Settled
  <2>2. CASE \E f \in Event : EmitEvent(f)
    BY <2>1, <2>2 DEF EmitEvent, IInv, TypeOK
  <2> QED
    BY <2>1, <2>2, OpenOnlyByEmit DEF IInv
<1> QED
  BY <1>1, Invariance, PTL DEF Spec, SettledForever

-----------------------------------------------------------------------------
(* Syncer implements StagedSync: every step of the engine is a step of the *)
(* abstract synchronisation, or leaves it as it is.                        *)

AbstractFate == [e \in Event |-> FateOf(status[e])]

\* A step that leaves the abstract state alone.
LEMMA StutterMapped ==
  UNCHANGED <<status, stopped>> /\ VerdictOfRun' = VerdictOfRun => UNCHANGED Abstract!vars
BY DEF Abstract!vars

\* A step that changes the status of one event changes the fate of that event.
LEMMA FateMoves ==
  ASSUME TypeOK, NEW e \in Event, NEW t \in Status, NEW v,
         status' = [status EXCEPT ![e] = t], FateOf(t) = v
  PROVE  AbstractFate' = [AbstractFate EXCEPT ![e] = v]
BY DEF AbstractFate, TypeOK

LEMMA FateValues ==
  /\ FateOf("idle") = "idle" /\ FateOf("applied") = "applied" /\ FateOf("failed") = "failed"
  /\ FateOf("enqueuing") = "issued" /\ FateOf("queued") = "issued" /\ FateOf("taken") = "issued"
  /\ FateOf("executing") = "running"
  /\ FateOf("dropped") = "abandoned" /\ FateOf("discarded") = "abandoned" /\ FateOf("leftover") = "abandoned"
BY DEF FateOf

LEMMA StatusNames ==
  {"idle", "dropped", "enqueuing", "queued", "taken", "executing", "discarded", "leftover", "applied", "failed"}
    \subseteq Status
BY DEF Status, Open, Settled

\* The abstract guards in terms of the engine's state.
LEMMA FateReads ==
  ASSUME TypeOK, NEW e \in Event
  PROVE  /\ AbstractFate[e] = FateOf(status[e])
         /\ status[e] \notin Open /\ status[e] # "dropped" => FateOf(status[e]) \in {"idle", "applied", "failed"}
         /\ FateOf(status[e]) \in {"issued", "running"} =>
              status[e] \in {"enqueuing", "queued", "taken", "executing"}
BY DEF AbstractFate, FateOf, TypeOK, Status, Open, Settled

LEMMA InitMapped == Init => Abstract!Init
BY FateValues DEF Init, Abstract!Init, VerdictOfRun

LEMMA StepMapped == IInv /\ IInv' /\ [Next]_vars => [Abstract!Next]_(Abstract!vars)
<1> SUFFICES ASSUME IInv, IInv', [Next]_vars PROVE Abstract!Next \/ UNCHANGED Abstract!vars
  OBVIOUS
<1>t. TypeOK /\ MainInv /\ ProducerInv /\ QueueInv /\ WorkerInv /\ StageInv /\ ErrorInv /\ MainInv'
  BY DEF IInv
<1>v. mainPc # "solved" <=> VerdictOfRun = "none"
  BY DEF VerdictOfRun
<1>1. ASSUME NEW e \in Event, EmitEvent(e) PROVE Abstract!Issue(e)
  <2>1. status[e] = "idle" /\ StageOf[e] = stage /\ status' = [status EXCEPT ![e] = "enqueuing"]
        /\ UNCHANGED <<stopped, mainPc, errs>>
    BY <1>1 DEF EmitEvent
  <2>2. mainPc # "solved"
    BY <1>1, <1>t DEF EmitEvent, MainInv
  <2>3. ASSUME NEW f \in Event, StageOf[f] < StageOf[e], ~stopped
        PROVE  AbstractFate[f] \in {"idle", "applied", "failed"}
    BY <1>t, <2>1, <2>3, FateReads DEF StageInv, MainInv
  <2>4. ASSUME NEW f \in Event, StageOf[f] > StageOf[e] PROVE AbstractFate[f] = "idle"
    BY <1>t, <2>1, <2>4, FateReads, FateValues DEF StageInv
  <2>5. AbstractFate[e] = "idle"
    BY <1>t, <2>1, FateReads, FateValues
  <2>6. AbstractFate' = [AbstractFate EXCEPT ![e] = "issued"]
    BY <1>t, <2>1, FateMoves, FateValues, StatusNames
  <2> QED
    BY <1>v, <2>1, <2>2, <2>3, <2>4, <2>5, <2>6 DEF Abstract!Issue, Abstract!Become, AbstractFate, VerdictOfRun
<1>2. ASSUME NEW e \in Event, NEW s \in {"enqueuing", "queued"}, NEW t \in {"queued", "taken"},
             status[e] = s, status' = [status EXCEPT ![e] = t], UNCHANGED <<stopped, mainPc, errs>>
      PROVE  UNCHANGED Abstract!vars
  <2>1. AbstractFate[e] = "issued" /\ AbstractFate' = [AbstractFate EXCEPT ![e] = "issued"]
    <3>1. AbstractFate[e] = "issued"
      BY <1>t, <1>2, FateReads, FateValues
    <3>2. t \in Status /\ FateOf(t) = "issued"
      BY <1>2, FateValues, StatusNames
    <3>3. status' = [status EXCEPT ![e] = t]
      BY <1>2
    <3>4. AbstractFate' = [AbstractFate EXCEPT ![e] = "issued"]
      BY <1>t, <3>2, <3>3, FateMoves
    <3> QED
      BY <3>1, <3>4
  <2>2. AbstractFate' = AbstractFate
    BY <2>1 DEF AbstractFate
  <2> QED
    BY <1>2, <2>2 DEF Abstract!vars, AbstractFate, VerdictOfRun
<1>3. ASSUME NEW e \in Event, NEW t \in {"dropped", "discarded"}, status[e] \in {"enqueuing", "taken"},
             status' = [status EXCEPT ![e] = t], stopped, mainPc # "solved", UNCHANGED <<stopped, mainPc, errs>>
      PROVE  Abstract!Abandon({e})
  <2>1. AbstractFate[e] = "issued" /\ AbstractFate' = [AbstractFate EXCEPT ![e] = "abandoned"]
    <3>1. AbstractFate[e] = "issued"
      BY <1>t, <1>3, FateReads, FateValues
    <3>2. t \in Status /\ FateOf(t) = "abandoned"
      BY <1>3, FateValues, StatusNames
    <3>3. status' = [status EXCEPT ![e] = t]
      BY <1>3
    <3>4. AbstractFate' = [AbstractFate EXCEPT ![e] = "abandoned"]
      BY <1>t, <3>2, <3>3, FateMoves
    <3> QED
      BY <3>1, <3>4
  <2>2. AbstractFate' = [f \in Event |-> IF f \in {e} THEN "abandoned" ELSE AbstractFate[f]]
    BY <2>1 DEF AbstractFate
  <2> QED
    BY <1>3, <1>v, <2>1, <2>2 DEF Abstract!Abandon, AbstractFate, VerdictOfRun
<1>4. CASE EnqueueEvent
  BY <1>2, <1>4, <1>t DEF EnqueueEvent, ProducerInv, TypeOK
<1>5. CASE EnqueueRefused
  <2>1. cur \in Event /\ status[cur] = "enqueuing" /\ mainPc # "solved"
    BY <1>5, <1>t DEF EnqueueRefused, ProducerInv, MainInv, TypeOK
  <2> QED
    BY <1>3, <1>5, <2>1 DEF EnqueueRefused, Abstract!Next
<1>6. CASE CollectDropped
  <2> DEFINE left == {eventChan[i] : i \in 1..Len(eventChan)}
  <2>1. /\ left \subseteq Event /\ stopped /\ mainPc # "solved" /\ mainPc' # "solved"
        /\ \A e \in left : status[e] = "queued"
        /\ status' = [e \in Event |-> IF e \in left THEN "leftover" ELSE status[e]]
        /\ UNCHANGED <<stopped, errs>>
    BY <1>6, <1>t DEF CollectDropped, QueueInv, MainInv, TypeOK
  <2> HIDE DEF left
  <2>2. \A e \in left : AbstractFate[e] = "issued"
    BY <1>t, <2>1, FateReads, FateValues
  <2>3. AbstractFate' = [e \in Event |-> IF e \in left THEN "abandoned" ELSE AbstractFate[e]]
    BY <2>1, FateValues DEF AbstractFate
  <2>4. Abstract!Abandon(left)
    BY <1>v, <2>1, <2>2, <2>3 DEF Abstract!Abandon, AbstractFate, VerdictOfRun
  <2> QED
    BY <2>1, <2>4 DEF Abstract!Next
<1>7. ASSUME NEW w \in Worker, Receive(w) PROVE UNCHANGED Abstract!vars
  BY <1>2, <1>7, <1>t, ReceiveTakes DEF Receive
<1>8. ASSUME NEW w \in Worker, StopSeen(w) PROVE Abstract!Next
  <2>1. wev[w] \in Event /\ status[wev[w]] = "taken" /\ mainPc # "solved"
    BY <1>8, <1>t, Held DEF StopSeen, MainInv
  <2> QED
    BY <1>3, <1>8, <2>1 DEF StopSeen, Abstract!Next
<1>9. ASSUME NEW w \in Worker, HandleEvent(w) PROVE Abstract!Next
  <2>1. wev[w] \in Event /\ status[wev[w]] = "taken" /\ ~stopped
        /\ status' = [status EXCEPT ![wev[w]] = "executing"] /\ UNCHANGED <<stopped, mainPc, errs>>
    BY <1>9, <1>t, Held DEF HandleEvent, StartHandling
  <2>2. AbstractFate[wev[w]] = "issued" /\ AbstractFate' = [AbstractFate EXCEPT ![wev[w]] = "running"]
    <3>1. AbstractFate[wev[w]] = "issued"
      BY <1>t, <2>1, FateReads, FateValues
    <3>2. AbstractFate' = [AbstractFate EXCEPT ![wev[w]] = "running"]
      BY <1>t, <2>1, FateMoves, FateValues, StatusNames
    <3> QED
      BY <3>1, <3>2
  <2>3. Abstract!Start(wev[w])
    BY <2>1, <2>2 DEF Abstract!Start, Abstract!Become, AbstractFate, VerdictOfRun
  <2> QED
    BY <2>1, <2>3 DEF Abstract!Next
<1>10. ASSUME NEW w \in Worker, EventCompleted(w) PROVE Abstract!Next
  <2>1. wev[w] \in Event /\ status[wev[w]] = "executing" /\ UNCHANGED <<stopped, mainPc, errs>>
    BY <1>10, <1>t, Held DEF EventCompleted, Executing
  <2>2. AbstractFate[wev[w]] = "running"
    BY <1>t, <2>1, FateReads, FateValues
  <2>3. CASE status' = [status EXCEPT ![wev[w]] = "applied"]
    <3>1. AbstractFate' = [AbstractFate EXCEPT ![wev[w]] = "applied"]
      BY <1>t, <2>1, <2>3, FateMoves, FateValues, StatusNames
    <3>2. Abstract!Apply(wev[w])
      BY <2>1, <2>2, <3>1 DEF Abstract!Apply, Abstract!Become, AbstractFate, VerdictOfRun
    <3> QED
      BY <2>1, <3>2 DEF Abstract!Next
  <2>4. CASE status' = [status EXCEPT ![wev[w]] = "failed"]
    <3>1. AbstractFate' = [AbstractFate EXCEPT ![wev[w]] = "failed"]
      BY <1>t, <2>1, <2>4, FateMoves, FateValues, StatusNames
    <3>2. Abstract!Fail(wev[w])
      BY <2>1, <2>2, <3>1 DEF Abstract!Fail, Abstract!Become, AbstractFate, VerdictOfRun
    <3> QED
      BY <2>1, <3>2 DEF Abstract!Next
  <2> QED
    BY <1>10, <2>3, <2>4 DEF EventCompleted
<1>11. CASE CloseStopChan
  <2>1. ~stopped /\ stopped' = TRUE /\ mainPc # "solved" /\ mainPc' # "solved" /\ UNCHANGED status
    BY <1>11, <1>t DEF CloseStopChan, MainInv
  <2>2. Abstract!Halt
    BY <2>1 DEF Abstract!Halt, VerdictOfRun
  <2> QED
    BY <2>2 DEF Abstract!Next
<1>12. CASE SolveReturns
  <2>1. /\ mainPc = "output" /\ mainPc' = "solved" /\ stopped /\ UNCHANGED <<stopped, errs, status>>
        /\ errChanClosed
    BY <1>12, <1>t DEF SolveReturns, MainInv
  <2>2. eventChan = <<>> /\ cur = NoEvent /\ \A w \in Worker : wev[w] = NoEvent
    BY <2>1, <1>t DEF MainInv, ProducerInv, WorkerInv
  <2>3. \A e \in Event : status[e] \notin {"enqueuing", "queued", "taken", "executing"}
    BY <2>2, <1>t, EventAssumption DEF ProducerInv, QueueInv, WorkerInv
  <2>4. \A e \in Event : AbstractFate[e] \notin {"issued", "running"}
    BY <1>t, <2>3, FateReads
  <2>5. errs = {} => \A e \in Event : AbstractFate[e] \in {"idle", "applied"}
    BY <1>t, <2>1, FateReads, FateValues DEF ErrorInv
  <2>6. Abstract!Finish
    BY <2>1, <2>4, <2>5 DEF Abstract!Finish, AbstractFate, VerdictOfRun
  <2> QED
    BY <2>6 DEF Abstract!Next
<1>13. CASE UNCHANGED <<status, stopped>> /\ (mainPc = "solved" <=> mainPc' = "solved")
            /\ (mainPc = "solved" => UNCHANGED errs)
  BY <1>13 DEF Abstract!vars, VerdictOfRun
<1>14. CASE Main \/ CancelContext \/ Done \/ UNCHANGED vars
  BY <1>6, <1>11, <1>12, <1>13, <1>14 DEF Main, CloseErrChan, SelectCtxDone, SelectErrChanClosed, RunReturns,
                                          CancelContext, Done, vars
<1>15. CASE Producer
  BY <1>1, <1>4, <1>5, <1>13, <1>15, <1>t DEF Producer, DifferFails, StageEmitted, WaitReturns, NextStage, SendProducerErr,
                                        CloseEventChan, ReceiveErr, Abstract!Next
<1>16. ASSUME NEW w \in Worker, WorkerStep(w) PROVE Abstract!Next \/ UNCHANGED Abstract!vars
  BY <1>7, <1>8, <1>9, <1>10, <1>13, <1>16 DEF WorkerStep, LoopEnds, CallSucceeds, CallFails, ServerError,
     Retry, PostProcessed, PostProcessFails, SendWorkerErr, WorkerErrSent, ReceiveErr, Goto
<1> QED
  BY <1>14, <1>15, <1>16 DEF Next

\* The engine with its goroutines, channels, retries and errors does nothing
\* that the staged synchronisation does not allow.
THEOREM Refinement == Spec => ImplementsStagedSync
<1>1. Spec => []IInv
  BY Invariance
<1> QED
  BY <1>1, InitMapped, StepMapped, PTL DEF Spec, ImplementsStagedSync, Abstract!Spec
=============================================================================
