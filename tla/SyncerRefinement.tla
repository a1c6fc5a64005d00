-------------------------- MODULE SyncerRefinement --------------------------
(* Syncer implements StagedSync.                                           *)
EXTENDS Syncer

\* What the status of an event in the engine is to the caller.
FateOf(s) ==
  CASE s \in {"enqueuing", "queued", "taken"} -> "issued"
    [] s = "executing" -> "running"
    [] s \in {"dropped", "discarded", "leftover"} -> "abandoned"
    [] OTHER -> s

VerdictOfRun ==
  IF mainPc # "solved" THEN "none" ELSE IF errs = {} THEN "ok" ELSE "error"

Abstract == INSTANCE StagedSync WITH
  fate    <- [e \in Event |-> FateOf(status[e])],
  halted  <- stopped,
  verdict <- VerdictOfRun

\* The engine does what StagedSync allows and nothing else: stages in order,
\* no start after the stop, and no success reported over unfinished work.
ImplementsStagedSync == Abstract!Spec
=============================================================================
