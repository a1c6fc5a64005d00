-------------------------- MODULE SyncerInvariants --------------------------
(* The inductive invariant of Syncer, as a conjunction of named parts.     *)
EXTENDS SyncerRefinement

\* queueEvent's argument is the only event that is being enqueued.
ProducerInv ==
  /\ cur # NoEvent <=> prodPc = "enqueue"
  /\ cur # NoEvent => status[cur] = "enqueuing"
  /\ \A e \in Event : status[e] = "enqueuing" => cur = e
  /\ prodPc = "errEnqueue" => stopped

\* eventChan holds every queued event once, and no other.
QueueInv ==
  /\ \A i \in 1..Len(eventChan) : status[eventChan[i]] = "queued"
  /\ \A i, j \in 1..Len(eventChan) : eventChan[i] = eventChan[j] => i = j
  /\ \A e \in Event : status[e] = "queued" => \E i \in 1..Len(eventChan) : eventChan[i] = e

\* What a worker at each of its control points has in hand.
HeldAt(pc) == CASE pc = "check" -> "taken"
                [] pc \in Executing -> "executing"
                [] OTHER -> "failed"

WorkerInv ==
  /\ \A w \in Worker : wev[w] = NoEvent <=> wpc[w] \in {"recv", "exited"}
  /\ \A w \in Worker : wev[w] # NoEvent => status[wev[w]] = HeldAt(wpc[w])
  /\ \A v, w \in Worker : wev[v] # NoEvent /\ wev[v] = wev[w] => v = w
  /\ \A e \in Event : status[e] \in {"taken", "executing"} => \E w \in Worker : wev[w] = e

\* A worker backs off only while it has retries left.
RetryInv == \A w \in Worker : wpc[w] = "backoff" => attempts[w] <= MaxRetries

\* The producer's stage separates what may be open from what is idle.
StageInv ==
  /\ \A e \in Event : StageOf[e] > stage => status[e] = "idle"
  /\ ~stopped => \A e \in Event : StageOf[e] < stage => status[e] \notin Open

\* How far Run and Solve have come, and what that says of the goroutines.
MainInv ==
  /\ stopped <=> mainPc \notin {"select", "stop"}
  /\ mainPc \in {"collect", "output", "solved"} => errChanClosed
  /\ errChanClosed => prodPc = "exited" /\ \A w \in Worker : wpc[w] = "exited"
  /\ mainPc = "select" => errs = {}
  /\ mainPc = "select" => \A w \in Worker : wpc[w] = "exited" => eventChan = <<>> /\ chanClosed
  /\ mainPc \in {"output", "solved"} => eventChan = <<>>
  /\ \A e \in Event : status[e] \in {"dropped", "discarded", "leftover"} => stopped
  /\ prodPc = "exited" <=> chanClosed

\* A failed event's error is with its worker or with Run; while Run has no
\* error although it has stopped waiting, everything has ended well.
ErrorInv ==
  /\ \A e \in Event : status[e] = "failed" => e \in errs \/ \E w \in Worker : wev[w] = e
  /\ \A e \in Event : e \in errs => status[e] = "failed"
  /\ mainPc # "select" /\ errs = {} =>
       errChanClosed /\ \A e \in Event : status[e] \in {"idle", "applied"}

IInv == /\ TypeOK /\ ProducerInv /\ QueueInv /\ WorkerInv /\ RetryInv
        /\ InFlightExact /\ StageInv /\ StageBarrier /\ MainInv /\ ErrorInv
=============================================================================
