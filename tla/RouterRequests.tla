---------------------------- MODULE RouterRequests ----------------------------
(* What the router's shared resources are shared between: the requests.  A   *)
(* request's id names it in the ledger and its owner token in the scheduler. *)
EXTENDS FiniteSets

CONSTANT Requests

ASSUME RequestsAssumption == IsFiniteSet(Requests)
=============================================================================
