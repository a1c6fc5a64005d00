------------------------------ MODULE MCSyncer ------------------------------
(* Small instances of Syncer for TLC.                                      *)
EXTENDS SyncerInvariants, TLC

CONSTANTS a, b, c, d, w1, w2, w3

\* Four events in three stages.
MCEvent == {a, b, c, d}
MCStageOf == (a :> 1) @@ (b :> 2) @@ (c :> 2) @@ (d :> 3)

\* Two events, one in each stage.
MCPair == {a, c}
MCPairStageOf == (a :> 1) @@ (c :> 2)
=============================================================================
