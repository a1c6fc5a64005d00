----------------------------- MODULE StagedSync -----------------------------
(***************************************************************************)
(* What a caller of Syncer.Solve relies on, without goroutines, channels,  *)
(* counters or retries: events are issued stage by stage, run, and end; a  *)
(* halt abandons what has not started; the verdict is "ok" only if         *)
(* everything that was issued has been applied.  Module Syncer implements  *)
(* it (SyncerRefinement).                                                  *)
(***************************************************************************)
EXTENDS Naturals

CONSTANTS Event, StageOf

VARIABLES
  fate,    \* what has become of each event
  halted,  \* nothing starts any more
  verdict  \* how the synchronisation ended

vars == <<fate, halted, verdict>>

Fate == {"idle", "issued", "running", "applied", "failed", "abandoned"}

Init ==
  /\ fate = [e \in Event |-> "idle"]
  /\ halted = FALSE
  /\ verdict = "none"

Become(e, from, to) == fate[e] = from /\ fate' = [fate EXCEPT ![e] = to]

\* Unless it is halted, an event is issued when those of the earlier stages
\* have ended; stages never go back.
Issue(e) ==
  /\ verdict = "none"
  /\ halted \/ \A f \in Event : StageOf[f] < StageOf[e] => fate[f] \in {"idle", "applied", "failed"}
  /\ \A f \in Event : StageOf[f] > StageOf[e] => fate[f] = "idle"
  /\ Become(e, "idle", "issued")
  /\ UNCHANGED <<halted, verdict>>

Start(e) == ~halted /\ Become(e, "issued", "running") /\ UNCHANGED <<halted, verdict>>

Apply(e) == Become(e, "running", "applied") /\ UNCHANGED <<halted, verdict>>

Fail(e) == Become(e, "running", "failed") /\ UNCHANGED <<halted, verdict>>

Halt == ~halted /\ halted' = TRUE /\ UNCHANGED <<fate, verdict>>

Abandon(S) ==
  /\ halted /\ verdict = "none"
  /\ \A e \in S : fate[e] = "issued"
  /\ fate' = [e \in Event |-> IF e \in S THEN "abandoned" ELSE fate[e]]
  /\ UNCHANGED <<halted, verdict>>

Finish ==
  /\ halted /\ verdict = "none"
  /\ \A e \in Event : fate[e] \notin {"issued", "running"}
  /\ verdict' \in {"ok", "error"}
  /\ verdict' = "ok" => \A e \in Event : fate[e] \in {"idle", "applied"}
  /\ UNCHANGED <<fate, halted>>

Next ==
  \/ \E e \in Event : Issue(e) \/ Start(e) \/ Apply(e) \/ Fail(e)
  \/ \E S \in SUBSET Event : Abandon(S)
  \/ Halt \/ Finish

Spec == Init /\ [][Next]_vars
=============================================================================
