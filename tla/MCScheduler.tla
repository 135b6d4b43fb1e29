---------------------------- MODULE MCScheduler ----------------------------
(* An instance of Scheduler for TLC.                                       *)
EXTENDS Scheduler, TLC

CONSTANTS w1, w2, w3, r1, r2, r3

(* Two levels of priority, with a tie between two of the requests.         *)
MCPriority == r1 :> 1 @@ r2 :> 2 @@ r3 :> 2
=============================================================================
