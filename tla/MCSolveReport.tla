--------------------------- MODULE MCSolveReport ---------------------------
(* Small instances of SolveReport for TLC.                                 *)
EXTENDS SolveReport, TLC

CONSTANTS p, q, w1, w2, limiter

\* Two updates of plugins of one name.
MCEvent == {p, q}
MCStageOf == [e \in MCEvent |-> 1]
MCOpOf == [e \in MCEvent |-> "update"]
MCSchemaOf == [e \in MCEvent |-> limiter]

way(dry, json, actions, receiving, exists) ==
  [dry |-> dry, isJSONOut |-> json, enableEntityActions |-> actions,
   receiving |-> receiving, workspaceExists |-> exists]

\* JSON output; results that are received; results that nobody receives; a dry
\* run with JSON output into a workspace that does not exist.
MCMode == { way(FALSE, TRUE, FALSE, FALSE, TRUE), way(FALSE, FALSE, TRUE, TRUE, TRUE),
            way(FALSE, FALSE, TRUE, FALSE, TRUE), way(TRUE, TRUE, FALSE, FALSE, FALSE) }
=============================================================================
