------------------------------ MODULE Scheduler ------------------------------
(***************************************************************************)
(* driver/src/scheduler.cxx: the thread pool that executes recipes.        *)
(*                                                                         *)
(* One client thread (the build loop) owns the object; its methods are not *)
(* thread safe and never overlap.  Workers share two queues with it, each  *)
(* with a mutex and a condition variable: `todo`, from which workers take  *)
(* the request of highest priority, and `done`, through which results go   *)
(* back.  A critical section is one step, since every access to the state  *)
(* it touches is made under the same mutex; everything done outside of a   *)
(* mutex, the notifications above all, is a step of its own.               *)
(***************************************************************************)
EXTENDS Integers, Sequences, FiniteSets

CONSTANTS
  Workers,      \* the worker threads
  Requests,     \* build requests; each is handed over at most once
  Priority,     \* [Requests -> Nat], what the comparators chain says of them
  NoRequest     \* the content of an idle worker's `task`

ASSUME WorkersAssumption == IsFiniteSet(Workers) /\ Workers # {}
ASSUME RequestsAssumption == IsFiniteSet(Requests) /\ NoRequest \notin Requests
ASSUME PriorityAssumption == Priority \in [Requests -> Nat]

VARIABLES
  todo,               \* the priority queue, as the set of its elements
  done,               \* the FIFO of results, [rq, success]
  n_handled_targets,  \* handed over and not given back, client's own count
  should_run,
  wpc,                \* where each worker is
  task,               \* the request a worker holds
  success,            \* `res.success` of a worker
  main,               \* where the client thread is
  to_notify,          \* notify_one calls left in schedule_builds
  discarding,         \* the client is in discard_all_running_tasks
  scheduled,          \* history: every request ever handed over
  returned,           \* history: every request given back
  failed              \* history: every request whose recipe threw

shared == <<todo, done, should_run>>
local  == <<wpc, task, success>>
client == <<n_handled_targets, main, to_notify, discarding>>
hist   == <<scheduled, returned, failed>>
vars   == <<shared, local, client, hist>>

WorkerPlaces ==
  {"ready",     \* about to lock mtx_todo and test the predicate
   "waiting",   \* blocked in cv_todo.wait
   "recipe",    \* executing task.tgt->recipe
   "report",    \* the recipe has ended, about to lock mtx_done
   "notify",    \* the result is pushed, about to call cv_done.notify_one
   "exited"}

ClientPlaces ==
  {"client",        \* in the build loop's own code
   "notify_all", "notify_one",   \* after the push in schedule_builds
   "get",           \* get_build_result, about to test the predicate
   "waiting",       \* get_build_result, blocked in cv_done.wait
   "stop_notify",   \* destructor, after should_run = false
   "join",          \* destructor, joining
   "destroyed"}

At(p) == {w \in Workers : wpc[w] = p}

(* Workers that hold a request whose result is not in `done` yet.          *)
Busy == At("recipe") \cup At("report")

Waiting == At("waiting")
Ready   == At("ready")

RangeOf(s) == {s[i] : i \in DOMAIN s}

TypeOK ==
  /\ todo \subseteq Requests
  /\ done \in Seq([rq : Requests, success : BOOLEAN])
  /\ n_handled_targets \in Nat
  /\ should_run \in BOOLEAN
  /\ wpc \in [Workers -> WorkerPlaces]
  /\ task \in [Workers -> Requests \cup {NoRequest}]
  /\ success \in [Workers -> BOOLEAN]
  /\ main \in ClientPlaces
  /\ to_notify \in Nat
  /\ discarding \in BOOLEAN
  /\ scheduled \subseteq Requests
  /\ returned \subseteq Requests
  /\ failed \subseteq Requests

Init ==
  /\ todo = {}
  /\ done = <<>>
  /\ n_handled_targets = 0
  /\ should_run = TRUE
  /\ wpc = [w \in Workers |-> "ready"]
  /\ task = [w \in Workers |-> NoRequest]
  /\ success = [w \in Workers |-> FALSE]
  /\ main = "client"
  /\ to_notify = 0
  /\ discarding = FALSE
  /\ scheduled = {}
  /\ returned = {}
  /\ failed = {}

-----------------------------------------------------------------------------
(* The client thread.                                                      *)

CountAfterOneByOne(S) == n_handled_targets + 1
CountAfter(S) == n_handled_targets + Cardinality(S)

(* How many times notify_one is called; 0 stands for notify_all.           *)
NotificationsOnlyOne(S) == IF Cardinality(Workers) <= Cardinality(S) THEN 0 ELSE 1
Notifications(S) ==
  IF Cardinality(Workers) <= Cardinality(S) THEN 0 ELSE Cardinality(S)

(* schedule_builds up to the end of its critical section: the counter is   *)
(* the client's own, so raising it and pushing are one step.               *)
ScheduleBuilds(S) ==
  /\ main = "client"
  /\ S # {}
  /\ S \cap scheduled = {}
  /\ n_handled_targets' = CountAfter(S)
  /\ todo' = todo \cup S
  /\ to_notify' = Notifications(S)
  /\ main' = IF Notifications(S) = 0 THEN "notify_all" ELSE "notify_one"
  /\ scheduled' = scheduled \cup S
  /\ UNCHANGED <<done, should_run, local, discarding, returned, failed>>

WakeOneWorker ==
  \/ \E w \in Waiting : wpc' = [wpc EXCEPT ![w] = "ready"]
  \/ Waiting = {} /\ UNCHANGED wpc
WakeAllWorkers ==
  wpc' = [w \in Workers |-> IF wpc[w] = "waiting" THEN "ready" ELSE wpc[w]]

NotifyTodoAll ==
  /\ main = "notify_all"
  /\ WakeAllWorkers
  /\ main' = "client"
  /\ UNCHANGED <<shared, task, success, n_handled_targets, to_notify,
                 discarding, hist>>

OneTooMany == to_notify = 0
LastNotification == to_notify = 1

(* One of the notify_one calls: it wakes a waiting worker, or nobody.      *)
NotifyTodoOne ==
  /\ main = "notify_one"
  /\ WakeOneWorker
  /\ to_notify' = to_notify - 1
  /\ main' = IF LastNotification THEN "client" ELSE "notify_one"
  /\ UNCHANGED <<shared, task, success, n_handled_targets, discarding, hist>>

(* get_build_result; with nothing handled it throws and changes nothing.   *)
GetBuildResult ==
  /\ main = "client"
  /\ n_handled_targets # 0
  /\ main' = "get"
  /\ UNCHANGED <<shared, local, n_handled_targets, to_notify, discarding, hist>>

(* discard_all_running_tasks: get_build_result until nothing is handled.   *)
DiscardAllRunningTasks ==
  /\ main = "client"
  /\ n_handled_targets > 0
  /\ main' = "get"
  /\ discarding' = TRUE
  /\ UNCHANGED <<shared, local, n_handled_targets, to_notify, hist>>

WaitForResult ==
  /\ main = "get"
  /\ done = <<>>
  /\ main' = "waiting"
  /\ UNCHANGED <<shared, local, n_handled_targets, to_notify, discarding, hist>>

TakeResult ==
  /\ main = "get"
  /\ done # <<>>
  /\ done' = Tail(done)
  /\ n_handled_targets' = n_handled_targets - 1
  /\ returned' = returned \cup {Head(done).rq}
  /\ LET again == discarding /\ n_handled_targets > 1
     IN  /\ main' = IF again THEN "get" ELSE "client"
         /\ discarding' = again
  /\ UNCHANGED <<todo, should_run, local, to_notify, scheduled, failed>>

(* The destructor, which may run with requests queued, held or finished.   *)
Shutdown ==
  /\ main = "client"
  /\ should_run' = FALSE
  /\ main' = "stop_notify"
  /\ UNCHANGED <<todo, done, local, n_handled_targets, to_notify, discarding,
                 hist>>

StopNotifyAll ==
  /\ main = "stop_notify"
  /\ WakeAllWorkers
  /\ main' = "join"
  /\ UNCHANGED <<shared, task, success, n_handled_targets, to_notify,
                 discarding, hist>>

JoinAll ==
  /\ main = "join"
  /\ \A w \in Workers : wpc[w] = "exited"
  /\ main' = "destroyed"
  /\ UNCHANGED <<shared, local, n_handled_targets, to_notify, discarding, hist>>

-----------------------------------------------------------------------------
(* The worker threads.                                                     *)

WorkerWait(w) ==
  /\ wpc[w] = "ready"
  /\ should_run
  /\ todo = {}
  /\ wpc' = [wpc EXCEPT ![w] = "waiting"]
  /\ UNCHANGED <<shared, task, success, client, hist>>

(* The flag is looked at before the queue.                                 *)
MayTakeStopped == TRUE
MayTake == should_run

PopForgotten(r) == todo
Pop(r) == todo \ {r}

(* `build_result res;` at the top of the worker's loop.                    *)
ReusedResult(w) == success
FreshResult(w) == [success EXCEPT ![w] = FALSE]

WorkerTake(w) ==
  /\ wpc[w] = "ready"
  /\ MayTake
  /\ \E r \in todo :
       /\ \A q \in todo : Priority[q] <= Priority[r]
       /\ todo' = Pop(r)
       /\ task' = [task EXCEPT ![w] = r]
  /\ success' = FreshResult(w)
  /\ wpc' = [wpc EXCEPT ![w] = "recipe"]
  /\ UNCHANGED <<done, should_run, client, hist>>

WorkerStop(w) ==
  /\ wpc[w] = "ready"
  /\ ~should_run
  /\ wpc' = [wpc EXCEPT ![w] = "exited"]
  /\ UNCHANGED <<shared, task, success, client, hist>>

(* The recipe returns (ok) or throws; whatever it throws is caught.        *)
WorkerRecipe(w, ok) ==
  /\ wpc[w] = "recipe"
  /\ success' = IF ok THEN [success EXCEPT ![w] = TRUE] ELSE success
  /\ failed' = IF ok THEN failed ELSE failed \cup {task[w]}
  /\ wpc' = [wpc EXCEPT ![w] = "report"]
  /\ UNCHANGED <<shared, task, client, scheduled, returned>>

WorkerReport(w) ==
  /\ wpc[w] = "report"
  /\ done' = Append(done, [rq |-> task[w], success |-> success[w]])
  /\ task' = [task EXCEPT ![w] = NoRequest]
  /\ wpc' = [wpc EXCEPT ![w] = "notify"]
  /\ UNCHANGED <<todo, should_run, success, client, hist>>

ClientLeftWaiting == main
ClientWoken == IF main = "waiting" THEN "get" ELSE main

WorkerNotify(w) ==
  /\ wpc[w] = "notify"
  /\ wpc' = [wpc EXCEPT ![w] = "ready"]
  /\ main' = ClientWoken
  /\ UNCHANGED <<shared, task, success, n_handled_targets, to_notify,
                 discarding, hist>>

-----------------------------------------------------------------------------
(* A condition variable may also wake a thread for no reason.              *)

SpuriousWorkerWakeup(w) ==
  /\ wpc[w] = "waiting"
  /\ wpc' = [wpc EXCEPT ![w] = "ready"]
  /\ UNCHANGED <<shared, task, success, client, hist>>

SpuriousClientWakeup ==
  /\ main = "waiting"
  /\ main' = "get"
  /\ UNCHANGED <<shared, local, n_handled_targets, to_notify, discarding, hist>>

Worker(w) ==
  \/ WorkerWait(w)
  \/ WorkerTake(w)
  \/ WorkerStop(w)
  \/ \E ok \in BOOLEAN : WorkerRecipe(w, ok)
  \/ WorkerReport(w)
  \/ WorkerNotify(w)

(* What the client thread does without further decision once it is inside  *)
(* a method of the scheduler.                                              *)
ClientContinues ==
  \/ NotifyTodoAll
  \/ NotifyTodoOne
  \/ WaitForResult
  \/ TakeResult
  \/ StopNotifyAll
  \/ JoinAll

ClientCalls ==
  \/ \E S \in SUBSET Requests : ScheduleBuilds(S)
  \/ GetBuildResult
  \/ DiscardAllRunningTasks
  \/ Shutdown

Terminated == main = "destroyed" /\ UNCHANGED vars

Next ==
  \/ ClientCalls
  \/ ClientContinues
  \/ \E w \in Workers : Worker(w) \/ SpuriousWorkerWakeup(w)
  \/ SpuriousClientWakeup
  \/ Terminated

(* The operating system runs every thread that can run, and a recipe ends. *)
(* The client need not call anything, and no wake-up is owed to a sleeper  *)
(* but the notified ones.                                                  *)
Fairness ==
  /\ WF_vars(ClientContinues)
  /\ \A w \in Workers : WF_vars(Worker(w))

Safety == Init /\ [][Next]_vars

Spec == Safety /\ Fairness

-----------------------------------------------------------------------------
(* Properties.                                                             *)

Held     == {task[w] : w \in Busy}
Reported == {done[i].rq : i \in DOMAIN done}

(* A request that was handed over is in exactly one place: the priority    *)
(* queue, the hands of one worker, one slot of the result queue, or the    *)
(* client's.  Neither a pop nor a push loses or repeats it.                *)
ExactlyOnce ==
  /\ scheduled = todo \cup Held \cup Reported \cup returned
  /\ todo \cap Held = {}
  /\ todo \cap Reported = {}
  /\ todo \cap returned = {}
  /\ Held \cap Reported = {}
  /\ Held \cap returned = {}
  /\ Reported \cap returned = {}
  /\ \A v, w \in Busy : task[v] = task[w] => v = w
  /\ \A i, j \in DOMAIN done : done[i].rq = done[j].rq => i = j

(* The counter the client keeps without any lock equals what is really     *)
(* under way, so that get_build_result blocks only for a result that comes *)
(* and discard_all_running_tasks stops with nothing left behind.           *)
Accounting ==
  n_handled_targets = Cardinality(todo) + Cardinality(Busy) + Len(done)

(* A result says `success` exactly when that request's recipe returned:    *)
(* `res` is a new object in each round of the worker's loop.               *)
ResultsAreTrue ==
  \A i \in DOMAIN done : done[i].success <=> done[i].rq \notin failed

(* No wake-up is lost on cv_todo: whenever schedule_builds has returned,   *)
(* either no worker sleeps or as many workers are on their way to the      *)
(* queue as it has elements.  While it still notifies, the calls to come   *)
(* make up for the difference.                                             *)
NoWorkerSleepsOnWork ==
  \/ main = "notify_all"
  \/ ~should_run
  \/ Waiting = {}
  \/ Cardinality(todo) <= Cardinality(Ready) + to_notify

(* No wake-up is lost on cv_done: the client sleeps over a result only     *)
(* while the worker that pushed it is about to notify.                     *)
ClientNotForgotten ==
  main = "waiting" /\ done # <<>> => At("notify") # {}

(* The destructor flips should_run under mtx_todo, so that no worker can   *)
(* fall asleep after notify_all has gone by: join never waits for a        *)
(* sleeping worker.                                                        *)
NobodySleepsAtJoin ==
  main \in {"join", "destroyed"} => Waiting = {}

(* A call of get_build_result or discard_all_running_tasks returns.        *)
GetReturns == main \in {"get", "waiting"} ~> main = "client"

(* The destructor returns, whatever the workers were doing.                *)
DestructorReturns == main = "stop_notify" ~> main = "destroyed"

(* The pool of threads keeps the promise of BuildService: what is queued   *)
(* there is `todo`, what runs is what the workers hold inside a recipe,    *)
(* what has finished is held by a worker about to report or lies in        *)
(* `done`; and the fairness of the threads gives the service's fairness.   *)
Service ==
  INSTANCE BuildService WITH
    MaxParallel <- Cardinality(Workers),
    queued      <- todo,
    running     <- {task[w] : w \in At("recipe")},
    finished    <- {task[w] : w \in At("report")} \cup Reported,
    open        <- should_run

ImplementsService == Service!Spec
=============================================================================
