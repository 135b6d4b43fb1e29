---------------------------- MODULE BuildService ----------------------------
(***************************************************************************)
(* What the scheduler of build_cxx promises to its only client, the build  *)
(* loop: a request handed over is queued, started at most once, never by   *)
(* more than MaxParallel workers at a time, finished with or without       *)
(* success, and given back once.  After Close nothing is started any more. *)
(*                                                                         *)
(* Threads, locks and condition variables do not appear here: module       *)
(* Scheduler is the detailed specification and implements this one, and    *)
(* module BuildTargets uses the actions below as its view of the           *)
(* scheduler.                                                              *)
(***************************************************************************)
EXTENDS Naturals, FiniteSets

CONSTANTS
  Requests,     \* the calls of a recipe that may ever be asked for
  MaxParallel   \* how many recipes may run at a time

VARIABLES
  queued,       \* requests handed over and not started
  running,      \* requests whose recipe is being executed
  finished,     \* requests whose recipe has ended, result not given back
  returned,     \* requests whose result was given back
  failed,       \* ended requests whose recipe threw
  open          \* FALSE once the destructor has begun

vars == <<queued, running, finished, returned, failed, open>>

Ended == finished \cup returned
Known == queued \cup running \cup Ended

TypeOK ==
  /\ queued \subseteq Requests
  /\ running \subseteq Requests
  /\ finished \subseteq Requests
  /\ returned \subseteq Requests
  /\ failed \subseteq Ended
  /\ open \in BOOLEAN

Init ==
  /\ queued = {}
  /\ running = {}
  /\ finished = {}
  /\ returned = {}
  /\ failed = {}
  /\ open = TRUE

-----------------------------------------------------------------------------

(* A batch of fresh requests is handed over.                               *)
Schedule(S) ==
  /\ open
  /\ S # {}
  /\ S \cap Known = {}
  /\ queued' = queued \cup S
  /\ UNCHANGED <<running, finished, returned, failed, open>>

Start(r) ==
  /\ open
  /\ r \in queued
  /\ Cardinality(running) < MaxParallel
  /\ queued' = queued \ {r}
  /\ running' = running \cup {r}
  /\ UNCHANGED <<finished, returned, failed, open>>

Finish(r, ok) ==
  /\ r \in running
  /\ running' = running \ {r}
  /\ finished' = finished \cup {r}
  /\ failed' = IF ok THEN failed ELSE failed \cup {r}
  /\ UNCHANGED <<queued, returned, open>>

Return(r) ==
  /\ open
  /\ r \in finished
  /\ finished' = finished \ {r}
  /\ returned' = returned \cup {r}
  /\ UNCHANGED <<queued, running, failed, open>>

(* Destruction: what is queued is dropped, what runs is still waited for.  *)
Close ==
  /\ open
  /\ open' = FALSE
  /\ UNCHANGED <<queued, running, finished, returned, failed>>

Next ==
  \/ \E S \in SUBSET Requests : Schedule(S)
  \/ \E r \in Requests :
       \/ Start(r)
       \/ \E ok \in BOOLEAN : Finish(r, ok)
       \/ Return(r)
  \/ Close

(* While the service is open a queued request is started, and a started    *)
(* recipe ends, closed or not.                                             *)
Fairness ==
  /\ WF_vars(\E r \in Requests : Start(r))
  /\ \A r \in Requests : WF_vars(\E ok \in BOOLEAN : Finish(r, ok))

Safety == Init /\ [][Next]_vars

Spec == Safety /\ Fairness
=============================================================================
