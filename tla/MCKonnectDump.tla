--------------------------- MODULE MCKonnectDump ---------------------------
(* Two service packages, the first with a version, and a semaphore that    *)
(* has no room for all the fetches, for KonnectDump.                       *)
EXTENDS KonnectDump

CONSTANT v1

MCVersionsOf == <<{v1}, {}>>
=============================================================================
