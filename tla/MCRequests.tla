----------------------------- MODULE MCRequests -----------------------------
(* Two contents and two services to be related to, for Requests.            *)
EXTENDS Requests, TLC

CONSTANTS b1, b2, s1, s2
=============================================================================
