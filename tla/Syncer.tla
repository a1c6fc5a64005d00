------------------------------- MODULE Syncer -------------------------------
(***************************************************************************)
(* The engine of pkg/diff: Syncer.Run with its producer (diff and the      *)
(* differs it drives), its pool of workers (eventLoop, handleEvent), the   *)
(* goroutine that closes errChan, Run's own body, and the tail of Solve    *)
(* that collects what was never dispatched.                                *)
(*                                                                         *)
(* An event is one create, update or delete of one entity.  The producer   *)
(* goes through NumStages stages; a stage is what lies between two calls   *)
(* of wait(): one level of deleteDuplicates, or one entity type of         *)
(* createUpdate or of delete (module DependencyOrder computes them).       *)
(* Which of the events of a stage a differ hands over depends on the       *)
(* state it reads (module Reconcile): here it is any subset, in any order. *)
(***************************************************************************)
EXTENDS Integers, Sequences, FiniteSets

CONSTANTS
  Worker,       \* the goroutines that Run starts, parallelism of them
  Event,        \* the events the differs may emit
  NumStages,    \* number of stages of diff()
  StageOf,      \* the stage of every event
  EventBuffer,  \* capacity of eventChan
  MaxRetries,   \* argument of backoff.WithMaxRetries
  CtxErr,       \* the error Run reports for a cancelled context
  DifferErr,    \* an error returned by a differ
  NoEvent       \* "no event in hand"

ASSUME WorkerAssumption == Worker # {} /\ IsFiniteSet(Worker)
ASSUME EventAssumption == /\ IsFiniteSet(Event)
                          /\ CtxErr \notin Event
                          /\ DifferErr \notin Event
                          /\ CtxErr # DifferErr
                          /\ NoEvent \notin Event
ASSUME StageAssumption == NumStages \in Nat \ {0} /\ StageOf \in [Event -> 1..NumStages]
ASSUME BufferAssumption == EventBuffer \in Nat \ {0} /\ MaxRetries \in Nat

VARIABLES
  prodPc,     \* control point of the producer
  stage,      \* stage the producer is in
  cur,        \* argument of the queueEvent call under way
  eventChan,  \* events queued and not yet received
  chanClosed, \* eventChan is closed
  inFlightOps,
  wpc,        \* control point of each worker
  wev,        \* the event each worker holds
  attempts,   \* calls of the Do function for the event in hand
  mainPc,     \* control point of Run, then of Solve
  stopped,    \* stopChan is closed
  errChanClosed,
  ctxDone,    \* the context is cancelled
  errs,       \* the errors Run returns
  droppedEvents,
  status      \* history: what has become of each event

prodVars == <<prodPc, stage, cur>>
chanVars == <<eventChan, chanClosed>>
workVars == <<wpc, wev, attempts>>
mainVars == <<mainPc, stopped, errChanClosed, errs>>
vars == <<prodVars, chanVars, inFlightOps, workVars, mainVars, ctxDone, droppedEvents, status>>

(***************************************************************************)
(* The status of an event.  It is open from the increment of inFlightOps   *)
(* in queueEvent to the decrement in eventCompleted (or in queueEvent, if  *)
(* it is refused); a discarded event, one that a worker received and threw *)
(* away because stopChan was closed, stays open for ever, and so does one  *)
(* left over in eventChan when the workers are gone.                       *)
(***************************************************************************)
Open    == {"enqueuing", "queued", "taken", "executing", "discarded", "leftover"}
Settled == {"applied", "failed"}
Status  == {"idle", "dropped"} \cup Open \cup Settled

(***************************************************************************)
(* The control points.  A producer holding an error is at errEnqueue or    *)
(* errDiffer; a worker is at ok or err between the return of handleEvent   *)
(* and eventCompleted, and at sendErr when it has an error to send.        *)
(***************************************************************************)
ProdPc == {"emit", "enqueue", "wait", "errEnqueue", "errDiffer", "close", "exited"}
Executing == {"call", "backoff", "post", "ok", "err"}
WorkerPc == {"recv", "check", "sendErr", "exited"} \cup Executing
MainPc == {"select", "stop", "drain", "collect", "output", "solved"}

Init ==
  /\ prodPc = "emit" /\ stage = 1 /\ cur = NoEvent
  /\ eventChan = <<>> /\ chanClosed = FALSE
  /\ inFlightOps = 0
  /\ wpc = [w \in Worker |-> "recv"]
  /\ wev = [w \in Worker |-> NoEvent]
  /\ attempts = [w \in Worker |-> 0]
  /\ mainPc = "select" /\ stopped = FALSE /\ errChanClosed = FALSE /\ errs = {}
  /\ ctxDone = FALSE
  /\ droppedEvents = {}
  /\ status = [e \in Event |-> "idle"]

-----------------------------------------------------------------------------
(* The producer: diff(), the differs, queueEvent and wait().               *)

\* Mutant: a differ walks over an entity again after it was processed.
EmitAgain(e) ==
  /\ prodPc = "emit" /\ StageOf[e] = stage /\ status[e] \in {"idle", "applied"}
  /\ inFlightOps' = inFlightOps + 1
  /\ cur' = e
  /\ prodPc' = "enqueue"
  /\ status' = [status EXCEPT ![e] = "enqueuing"]
  /\ UNCHANGED <<stage, chanVars, workVars, mainVars, ctxDone, droppedEvents>>

\* A differ calls queueEvent, which counts the event before it offers it.
EmitEvent(e) ==
  /\ prodPc = "emit" /\ StageOf[e] = stage /\ status[e] = "idle"
  /\ inFlightOps' = inFlightOps + 1
  /\ cur' = e
  /\ prodPc' = "enqueue"
  /\ status' = [status EXCEPT ![e] = "enqueuing"]
  /\ UNCHANGED <<stage, chanVars, workVars, mainVars, ctxDone, droppedEvents>>

\* The select in queueEvent takes either branch when both are ready.
EnqueueEvent ==
  /\ prodPc = "enqueue" /\ Len(eventChan) < EventBuffer
  /\ eventChan' = Append(eventChan, cur)
  /\ status' = [status EXCEPT ![cur] = "queued"]
  /\ cur' = NoEvent
  /\ prodPc' = "emit"
  /\ UNCHANGED <<stage, chanClosed, inFlightOps, workVars, mainVars, ctxDone, droppedEvents>>

\* Mutant: the refused event stays counted.
EnqueueRefusedStillCounted ==
  /\ prodPc = "enqueue" /\ stopped
  /\ droppedEvents' = droppedEvents \cup {cur}
  /\ status' = [status EXCEPT ![cur] = "dropped"]
  /\ cur' = NoEvent
  /\ prodPc' = "errEnqueue"
  /\ UNCHANGED <<stage, chanVars, inFlightOps, workVars, mainVars, ctxDone>>

EnqueueRefused ==
  /\ prodPc = "enqueue" /\ stopped
  /\ inFlightOps' = inFlightOps - 1
  /\ droppedEvents' = droppedEvents \cup {cur}
  /\ status' = [status EXCEPT ![cur] = "dropped"]
  /\ cur' = NoEvent
  /\ prodPc' = "errEnqueue"
  /\ UNCHANGED <<stage, chanVars, workVars, mainVars, ctxDone>>

\* A differ fails on its own account (a lookup in the state, a bad object).
DifferFails ==
  /\ prodPc = "emit"
  /\ prodPc' = "errDiffer"
  /\ UNCHANGED <<stage, cur, chanVars, inFlightOps, workVars, mainVars, ctxDone, droppedEvents, status>>

\* The differ of this stage returns nil.
StageEmitted ==
  /\ prodPc = "emit"
  /\ prodPc' = "wait"
  /\ UNCHANGED <<stage, cur, chanVars, inFlightOps, workVars, mainVars, ctxDone, droppedEvents, status>>

NextStage ==
  /\ IF stage < NumStages
       THEN prodPc' = "emit" /\ stage' = stage + 1
       ELSE prodPc' = "close" /\ stage' = stage
  /\ UNCHANGED <<cur, chanVars, inFlightOps, workVars, mainVars, ctxDone, droppedEvents, status>>

\* Mutants: wait for the queue to be empty instead of for the work to be done;
\* wait for the work without looking at stopChan.
WaitForEmptyQueue == prodPc = "wait" /\ (eventChan = <<>> \/ stopped) /\ NextStage
WaitIgnoringStop  == prodPc = "wait" /\ inFlightOps = 0 /\ NextStage

\* wait() returns when nothing is in flight, and also, without an error,
\* when stopChan is closed: diff() then goes on to the next stage.
WaitReturns == prodPc = "wait" /\ (inFlightOps = 0 \/ stopped) /\ NextStage

CloseEventChan ==
  /\ prodPc = "close"
  /\ chanClosed' = TRUE
  /\ prodPc' = "exited"
  /\ UNCHANGED <<stage, cur, eventChan, inFlightOps, workVars, mainVars, ctxDone, droppedEvents, status>>

-----------------------------------------------------------------------------
(* The workers: eventLoop and handleEvent.                                 *)

Receive(w) ==
  /\ wpc[w] = "recv" /\ eventChan # <<>>
  /\ wev' = [wev EXCEPT ![w] = Head(eventChan)]
  /\ eventChan' = Tail(eventChan)
  /\ wpc' = [wpc EXCEPT ![w] = "check"]
  /\ status' = [status EXCEPT ![Head(eventChan)] = "taken"]
  /\ UNCHANGED <<prodVars, chanClosed, inFlightOps, attempts, mainVars, ctxDone, droppedEvents>>

LoopEnds(w) ==
  /\ wpc[w] = "recv" /\ eventChan = <<>> /\ chanClosed
  /\ wpc' = [wpc EXCEPT ![w] = "exited"]
  /\ UNCHANGED <<prodVars, chanVars, inFlightOps, wev, attempts, mainVars, ctxDone, droppedEvents, status>>

\* The event in hand is neither handled, nor completed, nor kept as dropped.
StopSeen(w) ==
  /\ wpc[w] = "check" /\ stopped
  /\ wpc' = [wpc EXCEPT ![w] = "exited"]
  /\ status' = [status EXCEPT ![wev[w]] = "discarded"]
  /\ wev' = [wev EXCEPT ![w] = NoEvent]
  /\ UNCHANGED <<prodVars, chanVars, inFlightOps, attempts, mainVars, ctxDone, droppedEvents>>

StartHandling(w) ==
  /\ wpc' = [wpc EXCEPT ![w] = "call"]
  /\ attempts' = [attempts EXCEPT ![w] = 1]
  /\ status' = [status EXCEPT ![wev[w]] = "executing"]
  /\ UNCHANGED <<prodVars, chanVars, inFlightOps, wev, mainVars, ctxDone, droppedEvents>>

\* Mutant: stopChan is not looked at.
HandleEventAlways(w) == wpc[w] = "check" /\ StartHandling(w)

HandleEvent(w) == wpc[w] = "check" /\ ~stopped /\ StartHandling(w)

\* handleEvent moves from one control point to another, all else unchanged.
Goto(w, from, to) ==
  /\ wpc[w] = from
  /\ wpc' = [wpc EXCEPT ![w] = to]
  /\ UNCHANGED <<prodVars, chanVars, inFlightOps, wev, attempts, mainVars, ctxDone, droppedEvents, status>>

CallSucceeds(w) == Goto(w, "call", "post")
\* An error that is not a 500 of Kong's, or a nil result, is permanent.
CallFails(w) == Goto(w, "call", "err")
\* Mutant: backoff without WithMaxRetries.
ServerErrorForever(w) == Goto(w, "call", "backoff")
\* A 500 is retried until the retries are used up.
ServerError(w) == \/ attempts[w] <= MaxRetries /\ Goto(w, "call", "backoff")
                  \/ attempts[w] > MaxRetries /\ Goto(w, "call", "err")
PostProcessed(w) == Goto(w, "post", "ok")
PostProcessFails(w) == Goto(w, "post", "err")

\* The backoff does not look at the context or at stopChan.
Retry(w) ==
  /\ wpc[w] = "backoff"
  /\ wpc' = [wpc EXCEPT ![w] = "call"]
  /\ attempts' = [attempts EXCEPT ![w] = @ + 1]
  /\ UNCHANGED <<prodVars, chanVars, inFlightOps, wev, mainVars, ctxDone, droppedEvents, status>>

\* eventCompleted comes before the error, if there is one, is returned.
EventCompleted(w) ==
  /\ wpc[w] \in {"ok", "err"}
  /\ inFlightOps' = inFlightOps - 1
  /\ status' = [status EXCEPT ![wev[w]] = IF wpc[w] = "ok" THEN "applied" ELSE "failed"]
  /\ wpc' = [wpc EXCEPT ![w] = IF wpc[w] = "ok" THEN "recv" ELSE "sendErr"]
  /\ wev' = [wev EXCEPT ![w] = IF wpc[w] = "ok" THEN NoEvent ELSE @]
  /\ attempts' = [attempts EXCEPT ![w] = 0]
  /\ UNCHANGED <<prodVars, chanVars, mainVars, ctxDone, droppedEvents>>

-----------------------------------------------------------------------------
(* Run: the first error or the end of the context stops the producer, then *)
(* errChan is drained.  errChan is unbuffered: a send is a rendezvous.     *)

\* Mutant: only the error that ends the select is kept.
ReceiveFirstErr(err) ==
  /\ mainPc \in {"select", "drain"}
  /\ mainPc' = IF mainPc = "select" THEN "stop" ELSE "drain"
  /\ errs' = IF mainPc = "select" THEN errs \cup err ELSE errs
  /\ UNCHANGED <<stopped, errChanClosed>>

\* Run takes an error from errChan; errEnqueueFailed is not reported.
ReceiveErr(err) ==
  /\ mainPc \in {"select", "drain"}
  /\ mainPc' = IF mainPc = "select" THEN "stop" ELSE "drain"
  /\ errs' = errs \cup err
  /\ UNCHANGED <<stopped, errChanClosed>>

WorkerErrSent(w, to) ==
  /\ wpc[w] = "sendErr"
  /\ ReceiveErr({wev[w]})
  /\ wpc' = [wpc EXCEPT ![w] = to]
  /\ wev' = [wev EXCEPT ![w] = NoEvent]
  /\ UNCHANGED <<prodVars, chanVars, inFlightOps, attempts, ctxDone, droppedEvents, status>>

\* The worker returns the error and is gone.
SendWorkerErr(w) == WorkerErrSent(w, "exited")

SendProducerErr ==
  /\ \/ prodPc = "errEnqueue" /\ ReceiveErr({})
     \/ prodPc = "errDiffer" /\ ReceiveErr({DifferErr})
  /\ prodPc' = "close"
  /\ UNCHANGED <<stage, cur, chanVars, inFlightOps, workVars, ctxDone, droppedEvents, status>>

\* Once every goroutine of the wait group is done.
CloseErrChan ==
  /\ prodPc = "exited" /\ \A w \in Worker : wpc[w] = "exited"
  /\ ~errChanClosed
  /\ errChanClosed' = TRUE
  /\ UNCHANGED <<prodVars, chanVars, inFlightOps, workVars, mainPc, stopped, errs, ctxDone, droppedEvents, status>>

\* Mutant: a cancelled context is no error.
SelectCtxDoneQuietly ==
  /\ mainPc = "select" /\ ctxDone
  /\ mainPc' = "stop"
  /\ UNCHANGED <<prodVars, chanVars, inFlightOps, workVars, stopped, errChanClosed, errs, ctxDone, droppedEvents, status>>

SelectCtxDone ==
  /\ mainPc = "select" /\ ctxDone
  /\ mainPc' = "stop"
  /\ errs' = errs \cup {CtxErr}
  /\ UNCHANGED <<prodVars, chanVars, inFlightOps, workVars, stopped, errChanClosed, ctxDone, droppedEvents, status>>

SelectErrChanClosed ==
  /\ mainPc = "select" /\ errChanClosed
  /\ mainPc' = "stop"
  /\ UNCHANGED <<prodVars, chanVars, inFlightOps, workVars, stopped, errChanClosed, errs, ctxDone, droppedEvents, status>>

CloseStopChan ==
  /\ mainPc = "stop"
  /\ stopped' = TRUE
  /\ mainPc' = "drain"
  /\ UNCHANGED <<prodVars, chanVars, inFlightOps, workVars, errChanClosed, errs, ctxDone, droppedEvents, status>>

RunReturns ==
  /\ mainPc = "drain" /\ errChanClosed
  /\ mainPc' = "collect"
  /\ UNCHANGED <<prodVars, chanVars, inFlightOps, workVars, stopped, errChanClosed, errs, ctxDone, droppedEvents, status>>

\* Mutant: nobody drains eventChan.
CollectNothing ==
  /\ mainPc = "collect"
  /\ mainPc' = "output"
  /\ UNCHANGED <<prodVars, chanVars, inFlightOps, workVars, stopped, errChanClosed, errs, ctxDone, droppedEvents, status>>

\* Solve adds what is left in eventChan to the dropped events.
CollectDropped ==
  /\ mainPc = "collect"
  /\ LET left == {eventChan[i] : i \in 1..Len(eventChan)}
     IN /\ droppedEvents' = droppedEvents \cup left
        /\ status' = [e \in Event |-> IF e \in left THEN "leftover" ELSE status[e]]
  /\ eventChan' = <<>>
  /\ mainPc' = "output"
  /\ UNCHANGED <<prodVars, chanClosed, inFlightOps, workVars, stopped, errChanClosed, errs, ctxDone>>

\* Solve reports the dropped events and returns errs.
SolveReturns ==
  /\ mainPc = "output"
  /\ mainPc' = "solved"
  /\ UNCHANGED <<prodVars, chanVars, inFlightOps, workVars, stopped, errChanClosed, errs, ctxDone, droppedEvents, status>>

-----------------------------------------------------------------------------
\* The caller cancels the context.
CancelContext ==
  /\ ~ctxDone
  /\ ctxDone' = TRUE
  /\ UNCHANGED <<prodVars, chanVars, inFlightOps, workVars, mainVars, droppedEvents, status>>

\* Solve has returned.
Done == mainPc = "solved" /\ UNCHANGED vars

Producer == \/ \E e \in Event : EmitEvent(e)
            \/ EnqueueEvent \/ EnqueueRefused \/ DifferFails
            \/ StageEmitted \/ WaitReturns \/ SendProducerErr \/ CloseEventChan

WorkerStep(w) == \/ Receive(w) \/ LoopEnds(w) \/ StopSeen(w) \/ HandleEvent(w)
                 \/ CallSucceeds(w) \/ CallFails(w) \/ ServerError(w) \/ Retry(w)
                 \/ PostProcessed(w) \/ PostProcessFails(w)
                 \/ EventCompleted(w) \/ SendWorkerErr(w)

Main == \/ CloseErrChan \/ SelectCtxDone \/ SelectErrChanClosed
        \/ CloseStopChan \/ RunReturns \/ CollectDropped \/ SolveReturns

Next == Producer \/ (\E w \in Worker : WorkerStep(w)) \/ Main \/ CancelContext \/ Done

(***************************************************************************)
(* The Go scheduler runs every goroutine that can run, and every request   *)
(* is answered sooner or later.  Nothing makes the caller cancel.          *)
(***************************************************************************)
Fairness == WF_vars(Producer) /\ (\A w \in Worker : WF_vars(WorkerStep(w))) /\ WF_vars(Main)

Spec == Init /\ [][Next]_vars
FairSpec == Spec /\ Fairness

-----------------------------------------------------------------------------
(* Properties.                                                             *)

\* The types of the variables of Run, Solve and their goroutines.
TypeOK ==
  /\ prodPc \in ProdPc /\ stage \in 1..NumStages /\ cur \in Event \cup {NoEvent}
  /\ eventChan \in Seq(Event) /\ Len(eventChan) <= EventBuffer /\ chanClosed \in BOOLEAN
  /\ inFlightOps \in Int
  /\ wpc \in [Worker -> WorkerPc]
  /\ wev \in [Worker -> Event \cup {NoEvent}]
  /\ attempts \in [Worker -> 0..MaxRetries + 1]
  /\ mainPc \in MainPc
  /\ stopped \in BOOLEAN /\ errChanClosed \in BOOLEAN /\ ctxDone \in BOOLEAN
  /\ errs \subseteq Event \cup {CtxErr, DifferErr}
  /\ droppedEvents \subseteq Event
  /\ status \in [Event -> Status]

\* inFlightOps, an atomic that the producer and every worker update, is the
\* number of events handed to queueEvent whose outcome is not yet known.
\* wait() relies on it: a count too low lets the next stage start early, a
\* count too high makes the run wait for ever.
InFlightExact == inFlightOps = Cardinality({e \in Event : status[e] \in Open})

\* No event of a stage is being executed while an event of an earlier stage
\* is anywhere between queueEvent and eventCompleted, whatever the number of
\* workers, stops and retries: the promise in the comment on dependencyOrder.
StageBarrier ==
  \A e, f \in Event :
    status[e] = "executing" /\ StageOf[f] < StageOf[e] => status[f] \notin Open

\* Two workers never hold the same event, and an event in a worker's hands
\* is not in eventChan as well.
HandsDisjoint ==
  \A w \in Worker : wev[w] # NoEvent =>
    /\ \A v \in Worker \ {w} : wev[v] # wev[w]
    /\ \A i \in 1..Len(eventChan) : eventChan[i] # wev[w]

\* If Solve returns without an error, every event that a differ emitted was
\* applied: none was dropped, discarded or left in a queue.
NoSilentLoss ==
  mainPc = "solved" /\ errs = {} => \A e \in Event : status[e] \in {"idle", "applied"}

\* Solve returns the error of exactly the events that failed, also of those
\* whose worker was still waiting to send its error when Run was stopped.
ErrorsReported ==
  mainPc = "solved" => errs \cap Event = {e \in Event : status[e] = "failed"}

\* When Solve returns, every emitted event was applied, failed with an error
\* in errs, or was never sent to Kong.
NothingInLimbo ==
  mainPc = "solved" =>
    /\ eventChan = <<>>
    /\ \A e \in Event : status[e] \notin {"enqueuing", "queued", "taken", "executing"}

\* An event that was applied or has failed is never touched again.
SettledForever ==
  [][\A e \in Event : status[e] \in Settled => status'[e] = status[e]]_vars

\* What the comments in Solve say of the dropped events: an event that is not
\* dispatched to its end because of an error is among them.
UnprocessedAreDropped ==
  mainPc = "solved" =>
    \A e \in Event : status[e] \notin {"idle", "applied", "failed"} => e \in droppedEvents

\* Run ends, whatever fails and however often, and Solve returns: nobody
\* waits for ever for a slot of eventChan, for inFlightOps or on errChan.
Termination == <>(mainPc = "solved")
=============================================================================
