--------------------------- MODULE SchedulerProofs ---------------------------
(***************************************************************************)
(* Proofs about module Scheduler, for any finite sets of workers and of    *)
(* requests and any priorities: its type invariant, that a request is in   *)
(* exactly one place, that the client's unlocked counter is right, that    *)
(* every step of the thread pool is a step of BuildService or a stuttering *)
(* one, that no wake-up is missed on either condition variable, that the   *)
(* destructor joins no sleeping worker, and that every result says how its *)
(* recipe ended.                                                           *)
(***************************************************************************)
EXTENDS Scheduler, TLAPS, FiniteSetTheorems, SequenceTheorems

(* The parts of the actions that have a name of their own are expanded     *)
(* everywhere.                                                             *)
USE DEF CountAfter, Notifications, WakeOneWorker, LastNotification, MayTake,
        Pop, FreshResult, ClientWoken

(* A worker that is busy holds a request.                                  *)
HoldersOK == \A w \in Busy : task[w] \in Requests

(* What the place of the client says about its counters and the flag.      *)
ClientOK ==
  /\ main = "notify_one" => to_notify > 0
  /\ main \in {"stop_notify", "join", "destroyed"} <=> ~should_run

(* The inductive invariant.  None of TypeOK, ExactlyOnce and Accounting is *)
(* inductive alone: the decrement of the counter stays a natural number    *)
(* because the result taken is one of those counted, and a request stays   *)
(* in one place because a busy worker's task is one.                       *)
IInv ==
  /\ TypeOK
  /\ HoldersOK
  /\ ClientOK
  /\ ExactlyOnce
  /\ Accounting

-----------------------------------------------------------------------------
(* Finite sets.                                                            *)

(* What is made of finitely many requests is finite.                       *)
LEMMA FiniteParts ==
  ASSUME TypeOK
  PROVE  /\ IsFiniteSet(todo) /\ Cardinality(todo) \in Nat
         /\ IsFiniteSet(Busy) /\ Cardinality(Busy) \in Nat
         /\ Len(done) \in Nat
<1>1. todo \in SUBSET Requests
  BY DEF TypeOK
<1>2. Busy \in SUBSET Workers
  BY DEF Busy, At
<1>3. IsFiniteSet(todo) /\ IsFiniteSet(Busy)
  BY <1>1, <1>2, FS_Subset, WorkersAssumption, RequestsAssumption
<1> QED
  BY <1>3, FS_CardinalityType DEF TypeOK

(* A step that moves no request from one place to another keeps what is    *)
(* said about places.                                                      *)
LEMMA NothingMoves ==
  ASSUME HoldersOK, ExactlyOnce, Accounting,
         Busy' = Busy,
         \A w \in Busy : task'[w] = task[w],
         todo' = todo, done' = done, scheduled' = scheduled,
         returned' = returned, n_handled_targets' = n_handled_targets
  PROVE  HoldersOK' /\ ExactlyOnce' /\ Accounting'
<1>1. Held' = Held
  BY DEF Held
<1>2. Reported' = Reported
  BY DEF Reported
<1>3. HoldersOK'
  BY DEF HoldersOK
<1>4. ExactlyOnce'
  BY <1>1, <1>2 DEF ExactlyOnce
<1>5. Accounting'
  BY DEF Accounting
<1> QED
  BY <1>3, <1>4, <1>5

-----------------------------------------------------------------------------
(* One lemma for each step that moves a request.                           *)

(* The pool begins empty.                                                  *)
LEMMA InitInv == Init => IInv
<1> SUFFICES ASSUME Init PROVE IInv
  OBVIOUS
<1>1. TypeOK
  <2>1. done \in Seq([rq : Requests, success : BOOLEAN])
    BY EmptySeq DEF Init
  <2> QED
    BY <2>1 DEF Init, TypeOK, WorkerPlaces, ClientPlaces
<1>2. Busy = {} /\ Held = {} /\ Reported = {}
  BY DEF Init, Busy, At, Held, Reported
<1>3. ExactlyOnce
  BY <1>2 DEF ExactlyOnce, Init
<1>4. Accounting
  BY <1>2, FS_EmptySet DEF Accounting, Init
<1>5. HoldersOK /\ ClientOK
  BY <1>2 DEF HoldersOK, ClientOK, Init
<1> QED
  BY <1>1, <1>3, <1>4, <1>5 DEF IInv

(* schedule_builds moves requests from the client to the queue.            *)
LEMMA ScheduleInv ==
  ASSUME IInv, NEW S \in SUBSET Requests, ScheduleBuilds(S)
  PROVE  IInv'
<1> USE DEF IInv
<1>1. IsFiniteSet(S) /\ Cardinality(S) \in Nat
  BY FS_Subset, RequestsAssumption, FS_CardinalityType
<1>2. Cardinality(S) > 0
  BY <1>1, FS_EmptySet DEF ScheduleBuilds
<1>3. Busy' = Busy /\ Held' = Held /\ Reported' = Reported
  BY DEF ScheduleBuilds, local, Busy, At, Held, Reported
<1>4. TypeOK'
  BY <1>1 DEF TypeOK, ScheduleBuilds, local, ClientPlaces
<1>5. HoldersOK' /\ ClientOK'
  BY <1>1, <1>2, <1>3 DEF HoldersOK, ClientOK, ScheduleBuilds, local
<1>6. ExactlyOnce'
  BY <1>3 DEF ExactlyOnce, ScheduleBuilds, local, Busy, At
<1>7. Accounting'
  <2>1. todo \cap S = {}
    BY DEF ScheduleBuilds, ExactlyOnce
  <2>2. IsFiniteSet(todo) /\ Cardinality(todo) \in Nat
    BY FiniteParts
  <2>3. Cardinality(todo \cap S) = 0
    BY <2>1, FS_EmptySet
  <2>4. Cardinality(todo \cup S) =
          Cardinality(todo) + Cardinality(S) - Cardinality(todo \cap S)
    BY <1>1, <2>2, FS_Union, Zenon
  <2> QED
    BY <1>1, <1>3, <2>3, <2>4, FiniteParts DEF Accounting, ScheduleBuilds
<1> QED
  BY <1>4, <1>5, <1>6, <1>7

(* A worker takes a request off the queue.                                 *)
LEMMA TakeInv ==
  ASSUME IInv, NEW w \in Workers, WorkerTake(w)
  PROVE  IInv'
<1> USE DEF IInv
<1>1. PICK r \in todo : todo' = todo \ {r} /\ task' = [task EXCEPT ![w] = r]
  BY DEF WorkerTake
<1>2. r \in Requests
  BY DEF TypeOK
<1>3. w \notin Busy /\ Busy' = Busy \cup {w}
  BY DEF WorkerTake, Busy, At, TypeOK
<1>4. Held' = Held \cup {r}
  BY <1>1, <1>3 DEF Held, TypeOK, Busy, At
<1>5. Reported' = Reported /\ done' = done
  BY DEF WorkerTake, Reported
<1>6. TypeOK'
  BY <1>1, <1>2 DEF TypeOK, WorkerTake, client, hist, WorkerPlaces
<1>7. HoldersOK' /\ ClientOK'
  BY <1>1, <1>2, <1>3 DEF HoldersOK, ClientOK, WorkerTake, client, TypeOK, Busy, At
<1>8. ExactlyOnce'
  <2>1. \A v \in Busy : task'[v] = task[v] /\ task[v] # r
    BY <1>1, <1>3 DEF TypeOK, Busy, At, ExactlyOnce, Held
  <2>2. task'[w] = r
    BY <1>1 DEF TypeOK
  <2>3. \A u, v \in Busy' : task'[u] = task'[v] => u = v
    BY <1>3, <2>1, <2>2 DEF ExactlyOnce
  <2> QED
    BY <1>1, <1>4, <1>5, <2>3 DEF ExactlyOnce, WorkerTake, hist
<1>9. Accounting'
  <2>1. Cardinality(todo') = Cardinality(todo) - 1
    BY <1>1, FiniteParts, FS_RemoveElement
  <2>2. Cardinality(Busy') = Cardinality(Busy) + 1
    BY <1>3, FiniteParts, FS_AddElement
  <2> QED
    BY <1>5, <2>1, <2>2, FiniteParts DEF Accounting, WorkerTake, client
<1> QED
  BY <1>6, <1>7, <1>8, <1>9

(* A worker hands its result over.                                         *)
LEMMA ReportInv ==
  ASSUME IInv, NEW w \in Workers, WorkerReport(w)
  PROVE  /\ IInv'
         /\ Reported' = Reported \cup {task[w]}
<1> USE DEF IInv
<1> DEFINE res == [rq |-> task[w], success |-> success[w]]
           n == Len(done)
<1>1. w \in Busy /\ Busy' = Busy \ {w}
  BY DEF WorkerReport, Busy, At, TypeOK
<1>2. task[w] \in Requests
  BY <1>1 DEF HoldersOK
<1>3. res \in [rq : Requests, success : BOOLEAN]
  BY <1>2 DEF TypeOK
<1>4. done \in Seq([rq : Requests, success : BOOLEAN]) /\ done' = Append(done, res)
  BY DEF TypeOK, WorkerReport
<1>5. /\ done' \in Seq([rq : Requests, success : BOOLEAN])
      /\ n \in Nat /\ Len(done') = n + 1
      /\ DOMAIN done = 1..n /\ DOMAIN done' = 1..(n + 1)
      /\ \A i \in 1..n : done'[i] = done[i]
      /\ done'[n + 1] = res
  BY <1>3, <1>4, AppendProperties, LenProperties
<1>6. Reported' = Reported \cup {task[w]}
  BY <1>5 DEF Reported
<1>7. \A v \in Busy' : task'[v] = task[v]
  BY <1>1 DEF WorkerReport, TypeOK
<1>8. Held' = Held \ {task[w]}
  BY <1>1, <1>7 DEF Held, ExactlyOnce
<1>9. TypeOK'
  BY <1>5 DEF TypeOK, WorkerReport, client, hist, WorkerPlaces
<1>10. HoldersOK' /\ ClientOK'
  BY <1>1, <1>7 DEF HoldersOK, ClientOK, WorkerReport, client
<1>11. ExactlyOnce'
  <2>1. task[w] \in Held /\ task[w] \notin Reported
    BY <1>1 DEF Held, ExactlyOnce
  <2>2. \A i \in 1..n : done'[i].rq # task[w]
    BY <1>5, <2>1 DEF Reported
  <2>3. \A i, j \in DOMAIN done' : done'[i].rq = done'[j].rq => i = j
    BY <1>5, <2>2 DEF ExactlyOnce
  <2>4. \A u, v \in Busy' : task'[u] = task'[v] => u = v
    BY <1>1, <1>7 DEF ExactlyOnce
  <2> QED
    BY <1>6, <1>8, <2>1, <2>3, <2>4 DEF ExactlyOnce, WorkerReport, hist
<1>12. Accounting'
  <2>1. Cardinality(Busy') = Cardinality(Busy) - 1
    BY <1>1, FiniteParts, FS_RemoveElement
  <2> QED
    BY <1>5, <2>1, FiniteParts DEF Accounting, WorkerReport, client
<1> QED
  BY <1>6, <1>9, <1>10, <1>11, <1>12

(* The client takes a result, or discards one.                             *)
LEMMA TakeResultInv ==
  ASSUME IInv, TakeResult
  PROVE  /\ IInv'
         /\ Head(done).rq \in Reported
         /\ Reported' = Reported \ {Head(done).rq}
<1> USE DEF IInv
<1> DEFINE r == Head(done).rq
           n == Len(done)
<1>1. /\ done \in Seq([rq : Requests, success : BOOLEAN]) /\ done # <<>>
      /\ done' = Tail(done)
  BY DEF TypeOK, TakeResult
<1>2. /\ done' \in Seq([rq : Requests, success : BOOLEAN])
      /\ n \in Nat /\ n > 0 /\ Len(done') = n - 1
      /\ DOMAIN done = 1..n /\ DOMAIN done' = 1..(n - 1)
      /\ \A i \in 1..(n - 1) : done'[i] = done[i + 1]
      /\ Head(done) = done[1]
  BY <1>1, HeadTailProperties, LenProperties, EmptySeq
<1>3. r \in Reported
  BY <1>2 DEF Reported
<1>4. Reported' = Reported \ {r}
  <2>1. \A i \in 1..n : i # 1 => done[i].rq # r
    BY <1>2 DEF ExactlyOnce
  <2>2. ASSUME NEW x \in Reported \ {r} PROVE x \in Reported'
    <3>1. PICK i \in 1..n : x = done[i].rq
      BY <1>2 DEF Reported
    <3>2. i # 1 /\ i - 1 \in 1..(n - 1) /\ done'[i - 1] = done[i]
      BY <1>2, <3>1
    <3> QED
      BY <1>2, <3>1, <3>2 DEF Reported
  <2>3. ASSUME NEW x \in Reported' PROVE x \in Reported \ {r}
    <3>1. PICK i \in 1..(n - 1) : x = done'[i].rq
      BY <1>2 DEF Reported
    <3>2. i + 1 \in 1..n /\ i + 1 # 1 /\ x = done[i + 1].rq
      BY <1>2, <3>1
    <3> QED
      BY <1>2, <2>1, <3>2 DEF Reported
  <2> QED
    BY <2>2, <2>3
<1>5. Busy' = Busy /\ Held' = Held /\ task' = task
  BY DEF TakeResult, local, Busy, At, Held
<1>6. n_handled_targets - 1 \in Nat
  <2>1. n_handled_targets = Cardinality(todo) + Cardinality(Busy) + n
    BY DEF Accounting
  <2> QED
    BY <1>2, <2>1, FiniteParts
<1>7. r \in Requests
  <2>1. Head(done) \in [rq : Requests, success : BOOLEAN]
    BY <1>1, HeadTailProperties
  <2> QED
    BY <2>1
<1>8. TypeOK'
  BY <1>2, <1>6, <1>7 DEF TypeOK, TakeResult, local, ClientPlaces
<1>9. HoldersOK' /\ ClientOK'
  BY <1>5 DEF HoldersOK, ClientOK, TakeResult
<1>10. ExactlyOnce'
  <2>1. \A i, j \in DOMAIN done' : done'[i].rq = done'[j].rq => i = j
    <3> SUFFICES ASSUME NEW i \in 1..(n - 1), NEW j \in 1..(n - 1),
                        done'[i].rq = done'[j].rq
                 PROVE  i = j
      BY <1>2
    <3>1. i + 1 \in 1..n /\ j + 1 \in 1..n /\ done[i + 1].rq = done[j + 1].rq
      BY <1>2
    <3>2. i + 1 = j + 1
      BY <1>2, <3>1 DEF ExactlyOnce
    <3> QED
      BY <3>2
  <2>2. returned' = returned \cup {r} /\ todo' = todo /\ scheduled' = scheduled
    BY DEF TakeResult
  <2> QED
    BY <1>3, <1>4, <1>5, <2>1, <2>2 DEF ExactlyOnce
<1>11. Accounting'
  BY <1>2, <1>5, FiniteParts DEF Accounting, TakeResult
<1> QED
  BY <1>3, <1>4, <1>8, <1>9, <1>10, <1>11

-----------------------------------------------------------------------------
(* The steps that move no request.                                         *)

(* The client moves no request in its other steps.                         *)
LEMMA ClientOnlyInv ==
  ASSUME IInv,
         \/ NotifyTodoAll \/ NotifyTodoOne \/ GetBuildResult
         \/ DiscardAllRunningTasks \/ WaitForResult \/ Shutdown
         \/ StopNotifyAll \/ JoinAll \/ SpuriousClientWakeup
  PROVE  IInv'
<1> USE DEF IInv
<1>1. Busy' = Busy /\ task' = task
  BY DEF NotifyTodoAll, NotifyTodoOne, GetBuildResult, DiscardAllRunningTasks,
         WaitForResult, Shutdown, StopNotifyAll, JoinAll, SpuriousClientWakeup,
         WakeAllWorkers, local, Busy, At, Waiting, TypeOK
<1>2. /\ todo' = todo /\ done' = done /\ scheduled' = scheduled
      /\ returned' = returned /\ failed' = failed
      /\ n_handled_targets' = n_handled_targets
  BY DEF NotifyTodoAll, NotifyTodoOne, GetBuildResult, DiscardAllRunningTasks,
         WaitForResult, Shutdown, StopNotifyAll, JoinAll, SpuriousClientWakeup,
         shared, hist
<1>3. HoldersOK' /\ ExactlyOnce' /\ Accounting'
  BY <1>1, <1>2, NothingMoves
<1>4. wpc' \in [Workers -> WorkerPlaces]
  <2>1. wpc \in [Workers -> WorkerPlaces] /\ "ready" \in WorkerPlaces
    BY DEF TypeOK, WorkerPlaces
  <2>2. CASE WakeAllWorkers
    BY <2>1, <2>2 DEF WakeAllWorkers
  <2>3. CASE NotifyTodoOne
    BY <2>1, <2>3 DEF NotifyTodoOne
  <2>4. CASE UNCHANGED wpc
    BY <2>1, <2>4
  <2> QED
    BY <2>2, <2>3, <2>4
    DEF NotifyTodoAll, GetBuildResult, DiscardAllRunningTasks, WaitForResult,
        Shutdown, StopNotifyAll, JoinAll, SpuriousClientWakeup, local
<1>5. to_notify' \in Nat
  <2>1. CASE NotifyTodoOne
    <3>1. to_notify \in Nat /\ to_notify > 0 /\ to_notify' = to_notify - 1
      BY <2>1 DEF NotifyTodoOne, ClientOK, TypeOK
    <3> QED
      BY <3>1
  <2>2. CASE UNCHANGED to_notify
    BY <2>2 DEF TypeOK
  <2> QED
    BY <2>1, <2>2
    DEF NotifyTodoAll, GetBuildResult, DiscardAllRunningTasks, WaitForResult,
        Shutdown, StopNotifyAll, JoinAll, SpuriousClientWakeup
<1>6. /\ should_run' \in BOOLEAN /\ success' = success
      /\ main' \in ClientPlaces /\ discarding' \in BOOLEAN
  BY DEF NotifyTodoAll, NotifyTodoOne, GetBuildResult, DiscardAllRunningTasks,
         WaitForResult, Shutdown, StopNotifyAll, JoinAll, SpuriousClientWakeup,
         shared, local, ClientPlaces, TypeOK
<1>7. TypeOK'
  BY <1>1, <1>2, <1>4, <1>5, <1>6 DEF TypeOK
<1>8. ClientOK'
  BY DEF NotifyTodoAll, NotifyTodoOne, GetBuildResult, DiscardAllRunningTasks,
         WaitForResult, Shutdown, StopNotifyAll, JoinAll, SpuriousClientWakeup,
         shared, ClientOK, TypeOK
<1> QED
  BY <1>3, <1>7, <1>8

(* A worker moves none in its other steps.                                 *)
LEMMA WorkerOnlyInv ==
  ASSUME IInv, NEW w \in Workers,
         \/ WorkerWait(w) \/ WorkerStop(w) \/ WorkerNotify(w)
         \/ SpuriousWorkerWakeup(w)
         \/ \E ok \in BOOLEAN : WorkerRecipe(w, ok)
  PROVE  IInv'
<1> USE DEF IInv
<1>1. Busy' = Busy /\ task' = task
  BY DEF WorkerWait, WorkerStop, WorkerNotify, SpuriousWorkerWakeup,
         WorkerRecipe, Busy, At, TypeOK
<1>2. /\ todo' = todo /\ done' = done /\ scheduled' = scheduled
      /\ returned' = returned /\ n_handled_targets' = n_handled_targets
  BY DEF WorkerWait, WorkerStop, WorkerNotify, SpuriousWorkerWakeup,
         WorkerRecipe, shared, client, hist
<1>3. HoldersOK' /\ ExactlyOnce' /\ Accounting'
  BY <1>1, <1>2, NothingMoves
<1>4. failed' \subseteq Requests
  <2>1. CASE \E ok \in BOOLEAN : WorkerRecipe(w, ok)
    <3>1. w \in Busy
      BY <2>1 DEF WorkerRecipe, Busy, At
    <3> QED
      BY <2>1, <3>1 DEF WorkerRecipe, HoldersOK, TypeOK
  <2>2. CASE ~(\E ok \in BOOLEAN : WorkerRecipe(w, ok))
    BY <2>2 DEF WorkerWait, WorkerStop, WorkerNotify, SpuriousWorkerWakeup,
                hist, TypeOK
  <2> QED
    BY <2>1, <2>2
<1>5. /\ wpc' \in [Workers -> WorkerPlaces] /\ success' \in [Workers -> BOOLEAN]
      /\ should_run' = should_run /\ main' \in ClientPlaces
      /\ to_notify' = to_notify /\ discarding' = discarding
  BY DEF WorkerWait, WorkerStop, WorkerNotify, SpuriousWorkerWakeup,
         WorkerRecipe, shared, client, WorkerPlaces, ClientPlaces, TypeOK
<1>6. TypeOK'
  BY <1>1, <1>2, <1>4, <1>5 DEF TypeOK
<1>7. ClientOK'
  BY <1>5 DEF WorkerWait, WorkerStop, WorkerNotify, SpuriousWorkerWakeup,
              WorkerRecipe, client, ClientOK, TypeOK
<1> QED
  BY <1>3, <1>6, <1>7

(* Every step keeps the invariant.                                         *)
LEMMA StepInv == IInv /\ [Next]_vars => IInv'
<1> SUFFICES ASSUME IInv, [Next]_vars PROVE IInv'
  OBVIOUS
<1>1. ASSUME NEW S \in SUBSET Requests, ScheduleBuilds(S) PROVE IInv'
  BY <1>1, ScheduleInv
<1>2. CASE GetBuildResult \/ DiscardAllRunningTasks \/ Shutdown
  BY <1>2, ClientOnlyInv
<1>3. CASE TakeResult
  BY <1>3, TakeResultInv
<1>4. CASE \/ NotifyTodoAll \/ NotifyTodoOne \/ WaitForResult
           \/ StopNotifyAll \/ JoinAll \/ SpuriousClientWakeup
  BY <1>4, ClientOnlyInv
<1>5. ASSUME NEW w \in Workers, WorkerTake(w) PROVE IInv'
  BY <1>5, TakeInv
<1>6. ASSUME NEW w \in Workers, WorkerReport(w) PROVE IInv'
  BY <1>6, ReportInv
<1>7. ASSUME NEW w \in Workers,
             \/ WorkerWait(w) \/ WorkerStop(w) \/ WorkerNotify(w)
             \/ SpuriousWorkerWakeup(w)
             \/ \E ok \in BOOLEAN : WorkerRecipe(w, ok)
      PROVE IInv'
  BY <1>7, WorkerOnlyInv
<1>8. CASE UNCHANGED vars
  <2>1. Busy' = Busy
    BY <1>8 DEF vars, local, Busy, At
  <2>2. HoldersOK' /\ ExactlyOnce' /\ Accounting'
    BY <1>8, <2>1, NothingMoves DEF IInv, vars, shared, local, client, hist
  <2>3. TypeOK' /\ ClientOK'
    BY <1>8 DEF IInv, vars, shared, local, client, hist, TypeOK, ClientOK
  <2> QED
    BY <2>2, <2>3 DEF IInv
<1> QED
  BY <1>1, <1>2, <1>3, <1>4, <1>5, <1>6, <1>7, <1>8
  DEF Next, ClientCalls, ClientContinues, Worker, Terminated

(* The inductive invariant holds in every reachable state.                 *)
THEOREM Invariance == Safety => []IInv
<1> QED
  BY InitInv, StepInv, PTL DEF Safety

(* Every variable keeps its type; the client's counter, decremented at     *)
(* every result, never becomes negative.                                   *)
THEOREM TypeCorrect == Spec => []TypeOK
<1>1. IInv => TypeOK
  BY DEF IInv
<1> QED
  BY <1>1, Invariance, PTL DEF Spec

(* Whatever the number of workers and requests, a request that was handed  *)
(* over is in exactly one place.                                           *)
THEOREM NoRequestLostOrRepeated == Spec => []ExactlyOnce
<1>1. IInv => ExactlyOnce
  BY DEF IInv
<1> QED
  BY <1>1, Invariance, PTL DEF Spec

(* The counter of the client is the number of requests under way, so that  *)
(* get_build_result never blocks for a result that cannot come.            *)
THEOREM CounterIsRight == Spec => []Accounting
<1>1. IInv => Accounting
  BY DEF IInv
<1> QED
  BY <1>1, Invariance, PTL DEF Spec

-----------------------------------------------------------------------------
(* The thread pool implements the service.                                 *)

(* The values of `running` and `finished` under the refinement mapping.    *)
InRecipe == {task[w] : w \in At("recipe")}
InReport == {task[w] : w \in At("report")}

(* The prover keeps apart the operator of the instance and ours.           *)
LEMMA SameCardinality ==
  ASSUME NEW S
  PROVE  Service!Cardinality(S) = Cardinality(S)
BY DEF Service!Cardinality, Cardinality

(* What workers hold is what they run and what they have yet to report.    *)
LEMMA HeldParts == Held = InRecipe \cup InReport
  BY DEF Held, InRecipe, InReport, Busy

(* The pool begins as the service does.                                    *)
LEMMA InitRefines == Init => Service!Init
<1> SUFFICES ASSUME Init PROVE Service!Init
  OBVIOUS
<1>1. At("recipe") = {} /\ At("report") = {} /\ Reported = {}
  BY DEF Init, At, Reported
<1> QED
  BY <1>1 DEF Init, Service!Init

(* schedule_builds is the step of the service that takes requests.         *)
LEMMA ScheduleRefines ==
  ASSUME IInv, NEW S \in SUBSET Requests, ScheduleBuilds(S)
  PROVE  Service!Schedule(S)
<1>1. UNCHANGED <<wpc, task, done, should_run, returned, failed>>
  BY DEF ScheduleBuilds, local
<1>2. At("recipe")' = At("recipe") /\ At("report")' = At("report")
      /\ Reported' = Reported
  BY <1>1 DEF At, Reported
<1>3. Service!Known \subseteq scheduled
  BY HeldParts
  DEF IInv, ExactlyOnce, Service!Known, Service!Ended, InRecipe, InReport
<1>4. should_run
  BY DEF IInv, ClientOK, TypeOK, ScheduleBuilds
<1> QED
  BY <1>1, <1>2, <1>3, <1>4 DEF Service!Schedule, ScheduleBuilds

(* There is a free place for the request taken: its worker was not in a    *)
(* recipe, and those that were hold one request each.                      *)
LEMMA TakeRefines ==
  ASSUME IInv, NEW w \in Workers, WorkerTake(w)
  PROVE  \E r \in Requests : Service!Start(r)
<1> USE DEF IInv
<1>1. PICK r \in todo : todo' = todo \ {r} /\ task' = [task EXCEPT ![w] = r]
  BY DEF WorkerTake
<1>2. w \notin At("recipe") /\ At("recipe")' = At("recipe") \cup {w}
      /\ At("report")' = At("report") /\ w \notin At("report")
  BY DEF WorkerTake, At, TypeOK
<1>3. InRecipe' = InRecipe \cup {r}
  BY <1>1, <1>2 DEF InRecipe, At, TypeOK
<1>4. InReport' = InReport
  BY <1>1, <1>2 DEF InReport, At, TypeOK
<1>5. UNCHANGED <<Reported, returned, failed, should_run>> /\ should_run
  BY DEF WorkerTake, Reported, hist
<1>6. Cardinality(InRecipe) < Cardinality(Workers)
  <2>1. IsFiniteSet(Workers) /\ Cardinality(Workers) \in Nat
    BY WorkersAssumption, FS_CardinalityType
  <2>2. IsFiniteSet(Workers \ {w})
        /\ Cardinality(Workers \ {w}) = Cardinality(Workers) - 1
    BY <2>1, FS_RemoveElement
  <2>3. At("recipe") \in SUBSET (Workers \ {w})
    BY <1>2 DEF At
  <2>4. IsFiniteSet(At("recipe"))
        /\ Cardinality(At("recipe")) <= Cardinality(Workers) - 1
    BY <2>2, <2>3, FS_Subset
  <2>5. Cardinality(At("recipe")) \in Nat
    BY <2>4, FS_CardinalityType
  <2> DEFINE f == [v \in At("recipe") |-> task[v]]
  <2>6. f \in Surjection(At("recipe"), InRecipe)
    BY DEF InRecipe, Surjection
  <2>7. IsFiniteSet(InRecipe)
        /\ Cardinality(InRecipe) <= Cardinality(At("recipe"))
    BY <2>4, <2>6, FS_Surjection
  <2>8. Cardinality(InRecipe) \in Nat
    BY <2>7, FS_CardinalityType
  <2> QED
    BY <2>1, <2>4, <2>5, <2>7, <2>8
<1>7. r \in Requests
  BY DEF TypeOK
<1>8. Service!Start(r)
  <2>1. (InReport \cup Reported)' = InReport \cup Reported
    BY <1>4, <1>5
  <2>2. UNCHANGED <<InReport \cup Reported, returned, failed, should_run>>
    BY <1>5, <2>1
  <2>3. r \in todo /\ should_run /\ todo' = todo \ {r}
    BY <1>1, <1>5
  <2>4. Service!Cardinality(InRecipe) < Cardinality(Workers)
    BY <1>6, SameCardinality
  <2> QED
    BY <1>3, <2>2, <2>3, <2>4, Zenon DEF Service!Start, InRecipe, InReport
<1> QED
  BY <1>7, <1>8

(* A recipe that ends is the step of the service that finishes a request.  *)
LEMMA RecipeRefines ==
  ASSUME IInv, NEW w \in Workers, NEW ok \in BOOLEAN, WorkerRecipe(w, ok)
  PROVE  \E r \in Requests : Service!Finish(r, ok)
<1> USE DEF IInv
<1> DEFINE r == task[w]
<1>1. w \in Busy /\ w \in At("recipe") /\ r \in Requests
  BY DEF WorkerRecipe, Busy, At, HoldersOK
<1>2. /\ At("recipe")' = At("recipe") \ {w}
      /\ At("report")' = At("report") \cup {w}
  BY DEF WorkerRecipe, At, TypeOK
<1>3. UNCHANGED <<task, todo, done, returned, should_run>>
  BY DEF WorkerRecipe, shared
<1>4. \A v \in At("recipe") : task[v] = r => v = w
  BY <1>1 DEF ExactlyOnce, Busy
<1>5. InRecipe' = InRecipe \ {r} /\ r \in InRecipe
  BY <1>1, <1>2, <1>3, <1>4 DEF InRecipe
<1>6. InReport' = InReport \cup {r}
  BY <1>2, <1>3 DEF InReport
<1>7. Reported' = Reported
  BY <1>3 DEF Reported
<1>8. failed' = IF ok THEN failed ELSE failed \cup {r}
  BY DEF WorkerRecipe
<1>9. Service!Finish(r, ok)
  BY <1>3, <1>5, <1>6, <1>7, <1>8 DEF Service!Finish, InRecipe, InReport
<1> QED
  BY <1>1, <1>9

(* The service does not see when a result is put into its queue.           *)
LEMMA ReportStutters ==
  ASSUME IInv, NEW w \in Workers, WorkerReport(w)
  PROVE  UNCHANGED Service!vars
<1> USE DEF IInv
<1>1. w \in Busy /\ w \in At("report")
  BY DEF WorkerReport, Busy, At
<1>2. At("recipe")' = At("recipe") /\ At("report")' = At("report") \ {w}
  BY DEF WorkerReport, At, TypeOK
<1>3. \A v \in Busy \ {w} : task'[v] = task[v] /\ task[v] # task[w]
  BY <1>1 DEF WorkerReport, ExactlyOnce, TypeOK, Busy, At
<1>4. InRecipe' = InRecipe
  <2>1. \A v \in At("recipe") : v \in Busy \ {w}
    BY DEF WorkerReport, At, Busy
  <2> QED
    BY <1>2, <1>3, <2>1 DEF InRecipe
<1>5. InReport' = InReport \ {task[w]} /\ task[w] \in InReport
  <2>1. \A v \in At("report") \ {w} : v \in Busy \ {w}
    BY DEF Busy
  <2> QED
    BY <1>1, <1>2, <1>3, <2>1 DEF InReport
<1>6. Reported' = Reported \cup {task[w]}
  BY ReportInv
<1>7. UNCHANGED <<todo, returned, failed, should_run>>
  BY DEF WorkerReport, hist
<1> QED
  BY <1>4, <1>5, <1>6, <1>7 DEF Service!vars, InRecipe, InReport

(* get_build_result is the step of the service that returns a result.      *)
LEMMA TakeResultRefines ==
  ASSUME IInv, TakeResult
  PROVE  \E r \in Requests : Service!Return(r)
<1> USE DEF IInv
<1>1. PICK r \in Requests : r = Head(done).rq
  <2>1. Head(done).rq \in Reported
    BY TakeResultInv
  <2> QED
    BY <2>1 DEF ExactlyOnce, TypeOK
<1>2. r \in Reported /\ Reported' = Reported \ {r}
  BY <1>1, TakeResultInv
<1>3. UNCHANGED <<wpc, task, todo, failed, should_run>>
  BY DEF TakeResult, local
<1>4. InRecipe' = InRecipe /\ InReport' = InReport
  BY <1>3 DEF InRecipe, InReport, At
<1>5. r \notin InReport
  BY <1>2, HeldParts DEF ExactlyOnce
<1>6. should_run
  BY DEF TakeResult, ClientOK, TypeOK
<1>7. returned' = returned \cup {r}
  BY <1>1 DEF TakeResult
<1>8. Service!Return(r)
  <2>1. (InReport \cup Reported)' = (InReport \cup Reported) \ {r}
    BY <1>2, <1>4, <1>5
  <2>2. UNCHANGED <<todo, InRecipe, failed, should_run>>
    BY <1>3, <1>4
  <2>3. r \in InReport \cup Reported
    BY <1>2
  <2> QED
    BY <1>6, <1>7, <2>1, <2>2, <2>3, Zenon DEF Service!Return, InRecipe, InReport
<1> QED
  BY <1>8

(* The other steps of the client.                                          *)
LEMMA ClientOnlyRefines ==
  ASSUME IInv,
         \/ NotifyTodoAll \/ NotifyTodoOne \/ GetBuildResult
         \/ DiscardAllRunningTasks \/ WaitForResult \/ Shutdown
         \/ StopNotifyAll \/ JoinAll \/ SpuriousClientWakeup
  PROVE  Service!Close \/ UNCHANGED Service!vars
<1> USE DEF IInv
<1>1. At("recipe")' = At("recipe") /\ At("report")' = At("report")
  BY DEF NotifyTodoAll, NotifyTodoOne, GetBuildResult, DiscardAllRunningTasks,
         WaitForResult, Shutdown, StopNotifyAll, JoinAll, SpuriousClientWakeup,
         WakeAllWorkers, local, At, Waiting, TypeOK
<1>2. UNCHANGED <<task, todo, done, returned, failed>>
  BY DEF NotifyTodoAll, NotifyTodoOne, GetBuildResult, DiscardAllRunningTasks,
         WaitForResult, Shutdown, StopNotifyAll, JoinAll, SpuriousClientWakeup,
         shared, local, hist
<1>3. InRecipe' = InRecipe /\ InReport' = InReport /\ Reported' = Reported
  BY <1>1, <1>2 DEF InRecipe, InReport, Reported
<1>4. CASE Shutdown
  <2>1. should_run /\ should_run' = FALSE
    BY <1>4 DEF Shutdown, ClientOK, TypeOK
  <2> QED
    BY <1>2, <1>3, <2>1 DEF Service!Close, InRecipe, InReport
<1>5. CASE ~Shutdown
  <2>1. should_run' = should_run
    BY <1>5 DEF NotifyTodoAll, NotifyTodoOne, GetBuildResult,
                DiscardAllRunningTasks, WaitForResult, StopNotifyAll, JoinAll,
                SpuriousClientWakeup, shared
  <2> QED
    BY <1>2, <1>3, <2>1 DEF Service!vars, InRecipe, InReport
<1> QED
  BY <1>4, <1>5

(* The service does not see where workers are.                             *)
LEMMA WorkerOnlyStutters ==
  ASSUME IInv, NEW w \in Workers,
         \/ WorkerWait(w) \/ WorkerStop(w) \/ WorkerNotify(w)
         \/ SpuriousWorkerWakeup(w)
  PROVE  UNCHANGED Service!vars
<1>1. At("recipe")' = At("recipe") /\ At("report")' = At("report")
  BY DEF IInv, WorkerWait, WorkerStop, WorkerNotify, SpuriousWorkerWakeup, At,
         TypeOK
<1>2. UNCHANGED <<task, todo, done, returned, failed, should_run>>
  BY DEF WorkerWait, WorkerStop, WorkerNotify, SpuriousWorkerWakeup, shared,
         hist
<1> QED
  BY <1>1, <1>2 DEF Service!vars, Reported

(* Every step of the pool is one of the service, or none.                  *)
LEMMA StepRefines == IInv /\ [Next]_vars => [Service!Next]_(Service!vars)
<1> SUFFICES ASSUME IInv, [Next]_vars PROVE Service!Next \/ UNCHANGED Service!vars
  OBVIOUS
<1>1. ASSUME NEW S \in SUBSET Requests, ScheduleBuilds(S) PROVE Service!Next
  BY <1>1, ScheduleRefines DEF Service!Next
<1>2. CASE \/ NotifyTodoAll \/ NotifyTodoOne \/ GetBuildResult
           \/ DiscardAllRunningTasks \/ WaitForResult \/ Shutdown
           \/ StopNotifyAll \/ JoinAll \/ SpuriousClientWakeup
  BY <1>2, ClientOnlyRefines DEF Service!Next
<1>3. CASE TakeResult
  BY <1>3, TakeResultRefines DEF Service!Next
<1>4. ASSUME NEW w \in Workers, WorkerTake(w) PROVE Service!Next
  BY <1>4, TakeRefines DEF Service!Next
<1>5. ASSUME NEW w \in Workers, NEW ok \in BOOLEAN, WorkerRecipe(w, ok)
      PROVE  Service!Next
  BY <1>5, RecipeRefines DEF Service!Next
<1>6. ASSUME NEW w \in Workers, WorkerReport(w) PROVE UNCHANGED Service!vars
  BY <1>6, ReportStutters
<1>7. ASSUME NEW w \in Workers,
             \/ WorkerWait(w) \/ WorkerStop(w) \/ WorkerNotify(w)
             \/ SpuriousWorkerWakeup(w)
      PROVE  UNCHANGED Service!vars
  BY <1>7, WorkerOnlyStutters
<1>8. CASE UNCHANGED vars
  BY <1>8 DEF vars, shared, local, client, hist, Service!vars, At, Reported
<1> QED
  BY <1>1, <1>2, <1>3, <1>4, <1>5, <1>6, <1>7, <1>8
  DEF Next, ClientCalls, ClientContinues, Worker, Terminated

(* Every behaviour of the thread pool is one of the abstract service: a    *)
(* request is started at most once, by one of at most Cardinality(Workers) *)
(* workers, never after the destructor has begun, and returned at most     *)
(* once, after its recipe has ended.                                       *)
THEOREM SchedulerImplementsService == Spec => Service!Safety
<1>1. Safety => Service!Safety
  BY InitRefines, StepRefines, Invariance, PTL DEF Safety, Service!Safety
<1> QED
  BY <1>1, PTL DEF Spec

-----------------------------------------------------------------------------
(* Outside of the loop over notify_one no notification is owed.            *)
NotifyOK == main # "notify_one" => to_notify = 0

(* Sets of workers are finite.                                             *)
LEMMA ReadyParts ==
  ASSUME NEW A \in SUBSET Workers
  PROVE  IsFiniteSet(A) /\ Cardinality(A) \in Nat
BY FS_Subset, FS_CardinalityType, WorkersAssumption

(* Every step keeps NotifyOK.                                              *)
LEMMA NotifyStep == IInv /\ NotifyOK /\ [Next]_vars => NotifyOK'
<1> SUFFICES ASSUME IInv, NotifyOK, [Next]_vars PROVE NotifyOK'
  OBVIOUS
<1> USE DEF NotifyOK
<1>1. ASSUME NEW S \in SUBSET Requests, ScheduleBuilds(S) PROVE NotifyOK'
  <2>1. Cardinality(S) \in Nat /\ Cardinality(Workers) \in Nat
    BY FS_Subset, FS_CardinalityType, RequestsAssumption, WorkersAssumption
  <2> QED
    BY <1>1, <2>1 DEF ScheduleBuilds
<1>2. CASE ClientContinues
  BY <1>2 DEF ClientContinues, NotifyTodoAll, NotifyTodoOne, WaitForResult,
              TakeResult, StopNotifyAll, JoinAll, IInv, TypeOK
<1>3. CASE GetBuildResult \/ DiscardAllRunningTasks \/ Shutdown \/ SpuriousClientWakeup
  BY <1>3 DEF GetBuildResult, DiscardAllRunningTasks, Shutdown, SpuriousClientWakeup
<1>4. ASSUME NEW w \in Workers, Worker(w) \/ SpuriousWorkerWakeup(w)
      PROVE  NotifyOK'
  BY <1>4 DEF Worker, WorkerWait, WorkerTake, WorkerStop, WorkerRecipe,
              WorkerReport, WorkerNotify, SpuriousWorkerWakeup, client
<1>5. CASE UNCHANGED vars
  BY <1>5 DEF vars, client
<1> QED
  BY <1>1, <1>2, <1>3, <1>4, <1>5 DEF Next, ClientCalls, Terminated

-----------------------------------------------------------------------------
(* How a step changes the sets of waiting and of ready workers.            *)

(* notify_one wakes one worker, if one waits.                              *)
LEMMA OneWakes ==
  ASSUME TypeOK, NEW w \in Workers, wpc[w] # "ready",
         wpc' = [wpc EXCEPT ![w] = "ready"]
  PROVE  /\ Waiting' \subseteq Waiting
         /\ Cardinality(Ready') = Cardinality(Ready) + 1
<1>1. Waiting' \subseteq Waiting /\ Ready' = Ready \cup {w} /\ w \notin Ready
  BY DEF Waiting, Ready, At, TypeOK
<1>2. IsFiniteSet(Ready)
  BY ReadyParts DEF Ready, At
<1> QED
  BY <1>1, <1>2, FS_AddElement

(* notify_all leaves none waiting.                                         *)
LEMMA AllWake ==
  ASSUME WakeAllWorkers
  PROVE  Waiting' = {}
BY DEF WakeAllWorkers, Waiting, At

(* Every step keeps enough workers awake for what is queued.               *)
LEMMA SleepStep ==
  IInv /\ NotifyOK /\ NoWorkerSleepsOnWork /\ [Next]_vars => NoWorkerSleepsOnWork'
<1> SUFFICES ASSUME IInv, NotifyOK, NoWorkerSleepsOnWork, [Next]_vars
             PROVE  NoWorkerSleepsOnWork'
  OBVIOUS
<1>0. /\ TypeOK
      /\ IsFiniteSet(todo) /\ Cardinality(todo) \in Nat
      /\ Cardinality(Ready) \in Nat
      /\ to_notify \in Nat
  BY FiniteParts, ReadyParts DEF IInv, TypeOK, Ready, At
<1>1. ASSUME NEW S \in SUBSET Requests, ScheduleBuilds(S)
      PROVE  NoWorkerSleepsOnWork'
  <2>1. IsFiniteSet(S) /\ Cardinality(S) \in Nat /\ Cardinality(Workers) \in Nat
    BY FS_Subset, FS_CardinalityType, RequestsAssumption, WorkersAssumption
  <2>2. CASE Notifications(S) = 0
    BY <1>1, <2>2 DEF ScheduleBuilds, NoWorkerSleepsOnWork
  <2>3. CASE Notifications(S) # 0
    <3>1. to_notify = 0 /\ to_notify' = Cardinality(S)
      BY <1>1, <2>1, <2>3 DEF ScheduleBuilds, NotifyOK
    <3>2. Ready' = Ready /\ Waiting' = Waiting
      BY <1>1 DEF ScheduleBuilds, local, Ready, Waiting, At
    <3>3. todo \cap S = {}
      BY <1>1 DEF ScheduleBuilds, IInv, ExactlyOnce
    <3>4. Cardinality(todo \cup S) =
            Cardinality(todo) + Cardinality(S) - Cardinality(todo \cap S)
      BY <1>0, <2>1, FS_Union, Zenon
    <3>5. Cardinality(todo') = Cardinality(todo) + Cardinality(S)
      <4>1. Cardinality(todo \cap S) = 0
        BY <3>3, FS_EmptySet
      <4>2. todo' = todo \cup S
        BY <1>1 DEF ScheduleBuilds
      <4> QED
        BY <1>0, <2>1, <3>4, <4>1, <4>2
    <3> QED
      BY <1>0, <1>1, <2>1, <3>1, <3>2, <3>5 DEF ScheduleBuilds, NoWorkerSleepsOnWork
  <2> QED
    BY <2>2, <2>3
<1>2. CASE NotifyTodoAll \/ StopNotifyAll
  BY <1>2, AllWake DEF NotifyTodoAll, StopNotifyAll, NoWorkerSleepsOnWork
<1>3. CASE NotifyTodoOne
  <2>1. /\ todo' = todo /\ should_run' = should_run
        /\ main = "notify_one" /\ to_notify' = to_notify - 1
    BY <1>3 DEF NotifyTodoOne, shared
  <2>2. CASE Waiting = {} /\ UNCHANGED wpc
    BY <2>2 DEF Waiting, At, NoWorkerSleepsOnWork
  <2>3. CASE \E w \in Waiting : wpc' = [wpc EXCEPT ![w] = "ready"]
    <3>1. PICK w \in Waiting : wpc' = [wpc EXCEPT ![w] = "ready"]
      BY <2>3
    <3>2. Waiting' \subseteq Waiting /\ Cardinality(Ready') = Cardinality(Ready) + 1
      BY <1>0, <3>1, OneWakes DEF Waiting, At
    <3> QED
      BY <1>0, <2>1, <3>2 DEF NoWorkerSleepsOnWork
  <2> QED
    BY <1>3, <2>2, <2>3 DEF NotifyTodoOne
<1>4. CASE \/ GetBuildResult \/ DiscardAllRunningTasks \/ Shutdown
           \/ WaitForResult \/ TakeResult \/ JoinAll \/ SpuriousClientWakeup
           \/ UNCHANGED vars
  <2>1. wpc' = wpc /\ todo' = todo /\ to_notify' = to_notify
    BY <1>4 DEF GetBuildResult, DiscardAllRunningTasks, Shutdown, WaitForResult,
                TakeResult, JoinAll, SpuriousClientWakeup, vars, shared, local, client
  <2>2. Ready' = Ready /\ Waiting' = Waiting
    BY <2>1 DEF Ready, Waiting, At
  <2>3. (main' = main \/ main # "notify_all") /\ (should_run' = should_run \/ ~should_run')
    BY <1>4 DEF GetBuildResult, DiscardAllRunningTasks, Shutdown, WaitForResult,
                TakeResult, JoinAll, SpuriousClientWakeup, vars, shared, local, client
  <2> QED
    BY <2>1, <2>2, <2>3 DEF NoWorkerSleepsOnWork
<1>5. ASSUME NEW w \in Workers, Worker(w) \/ SpuriousWorkerWakeup(w)
      PROVE  NoWorkerSleepsOnWork'
  <2>1. /\ to_notify' = to_notify /\ should_run' = should_run
        /\ main = "notify_all" => main' = "notify_all"
    BY <1>5 DEF Worker, WorkerWait, WorkerTake, WorkerStop, WorkerRecipe,
                WorkerReport, WorkerNotify, SpuriousWorkerWakeup, client, shared
  <2>2. CASE WorkerWait(w)
    <3>1. todo' = {}
      BY <2>2 DEF WorkerWait, shared
    <3>2. Cardinality(Ready') \in Nat
      <4>1. Ready' \in SUBSET Workers
        BY DEF Ready, At
      <4> QED
        BY <4>1, ReadyParts
    <3> QED
      BY <1>0, <2>1, <3>1, <3>2, FS_EmptySet DEF NoWorkerSleepsOnWork
  <2>3. CASE WorkerTake(w)
    <3>1. PICK r \in todo : todo' = todo \ {r}
      BY <2>3 DEF WorkerTake
    <3>2. Waiting' = Waiting /\ Ready' = Ready \ {w} /\ w \in Ready
      BY <1>0, <2>3 DEF WorkerTake, Waiting, Ready, At, TypeOK
    <3>3. Cardinality(todo') = Cardinality(todo) - 1
      BY <1>0, <3>1, FS_RemoveElement
    <3>4. IsFiniteSet(Ready)
      BY ReadyParts DEF Ready, At
    <3>5. Cardinality(Ready') = Cardinality(Ready) - 1
      BY <3>2, <3>4, FS_RemoveElement
    <3> QED
      BY <1>0, <2>1, <3>2, <3>3, <3>5 DEF NoWorkerSleepsOnWork
  <2>4. CASE WorkerStop(w)
    BY <2>1, <2>4 DEF WorkerStop, NoWorkerSleepsOnWork
  <2>5. CASE (\E ok \in BOOLEAN : WorkerRecipe(w, ok)) \/ WorkerReport(w)
    <3>1. Waiting' = Waiting /\ Ready' = Ready /\ todo' = todo
      BY <1>0, <2>5 DEF WorkerRecipe, WorkerReport, Waiting, Ready, At, TypeOK, shared
    <3> QED
      BY <2>1, <3>1 DEF NoWorkerSleepsOnWork
  <2>6. CASE WorkerNotify(w) \/ SpuriousWorkerWakeup(w)
    <3>1. wpc[w] # "ready" /\ wpc' = [wpc EXCEPT ![w] = "ready"] /\ todo' = todo
      BY <2>6 DEF WorkerNotify, SpuriousWorkerWakeup, shared
    <3>2. Waiting' \subseteq Waiting /\ Cardinality(Ready') = Cardinality(Ready) + 1
      BY <1>0, <3>1, OneWakes
    <3> QED
      BY <1>0, <2>1, <3>1, <3>2 DEF NoWorkerSleepsOnWork
  <2> QED
    BY <1>5, <2>2, <2>3, <2>4, <2>5, <2>6 DEF Worker
<1> QED
  BY <1>1, <1>2, <1>3, <1>4, <1>5 DEF Next, ClientCalls, ClientContinues, Terminated

(* Whatever the sizes of the pool and of a batch, no worker stays asleep   *)
(* while a request nobody is on the way to lies in the queue.              *)
THEOREM NoMissedWakeupOfWorkers == Spec => []NoWorkerSleepsOnWork
<1>1. Init => NotifyOK /\ NoWorkerSleepsOnWork
  BY DEF Init, NotifyOK, NoWorkerSleepsOnWork, Waiting, At
<1> QED
  BY <1>1, NotifyStep, SleepStep, Invariance, PTL DEF Spec, Safety

-----------------------------------------------------------------------------
(* Every step keeps somebody about to wake the client that waits.          *)
LEMMA ForgottenStep ==
  IInv /\ ClientNotForgotten /\ [Next]_vars => ClientNotForgotten'
<1> SUFFICES ASSUME IInv, ClientNotForgotten, [Next]_vars
             PROVE  ClientNotForgotten'
  OBVIOUS
<1>0. TypeOK
  BY DEF IInv
<1>1. ASSUME NEW w \in Workers, WorkerReport(w) PROVE ClientNotForgotten'
  <2>1. w \in At("notify")'
    BY <1>0, <1>1 DEF WorkerReport, At, TypeOK
  <2> QED
    BY <2>1 DEF ClientNotForgotten
<1>2. ASSUME NEW w \in Workers, WorkerNotify(w) PROVE ClientNotForgotten'
  BY <1>2 DEF WorkerNotify, ClientNotForgotten
<1>3. ASSUME NEW w \in Workers,
             \/ WorkerWait(w) \/ WorkerTake(w) \/ WorkerStop(w)
             \/ \E ok \in BOOLEAN : WorkerRecipe(w, ok)
             \/ SpuriousWorkerWakeup(w)
      PROVE  ClientNotForgotten'
  <2>1. main' = main /\ done' = done
    BY <1>3 DEF WorkerWait, WorkerTake, WorkerStop, WorkerRecipe,
                SpuriousWorkerWakeup, shared, client
  <2>2. At("notify") \subseteq At("notify")'
    BY <1>0, <1>3 DEF WorkerWait, WorkerTake, WorkerStop, WorkerRecipe,
                      SpuriousWorkerWakeup, At, TypeOK
  <2> QED
    BY <2>1, <2>2 DEF ClientNotForgotten
<1>4. CASE WaitForResult
  BY <1>4 DEF WaitForResult, shared, ClientNotForgotten
<1>5. CASE \/ (\E S \in SUBSET Requests : ScheduleBuilds(S)) \/ GetBuildResult
           \/ DiscardAllRunningTasks \/ TakeResult \/ Shutdown \/ NotifyTodoAll
           \/ NotifyTodoOne \/ StopNotifyAll \/ JoinAll \/ SpuriousClientWakeup
  BY <1>5 DEF ScheduleBuilds, GetBuildResult, DiscardAllRunningTasks, TakeResult,
              Shutdown, NotifyTodoAll, NotifyTodoOne, StopNotifyAll, JoinAll,
              SpuriousClientWakeup, ClientNotForgotten
<1>6. CASE UNCHANGED vars
  BY <1>6 DEF vars, shared, local, client, At, ClientNotForgotten
<1> QED
  BY <1>1, <1>2, <1>3, <1>4, <1>5, <1>6
  DEF Next, ClientCalls, ClientContinues, Worker, Terminated

(* The client never sleeps over a result unless a worker is about to       *)
(* notify it.                                                              *)
THEOREM NoMissedWakeupOfClient == Spec => []ClientNotForgotten
<1>1. Init => ClientNotForgotten
  BY DEF Init, ClientNotForgotten
<1> QED
  BY <1>1, ForgottenStep, Invariance, PTL DEF Spec, Safety

-----------------------------------------------------------------------------
(* Every step of the destructor, and of the workers it waits for, keeps    *)
(* sleepers out of the join.                                               *)
LEMMA JoinStep ==
  IInv /\ NobodySleepsAtJoin /\ [Next]_vars => NobodySleepsAtJoin'
<1> SUFFICES ASSUME IInv, NobodySleepsAtJoin, [Next]_vars
             PROVE  NobodySleepsAtJoin'
  OBVIOUS
<1>0. TypeOK /\ ClientOK
  BY DEF IInv
<1>1. ASSUME NEW w \in Workers, WorkerWait(w) PROVE NobodySleepsAtJoin'
  BY <1>0, <1>1 DEF WorkerWait, ClientOK, client, NobodySleepsAtJoin
<1>2. ASSUME NEW w \in Workers,
             \/ WorkerTake(w) \/ WorkerStop(w) \/ WorkerReport(w)
             \/ \E ok \in BOOLEAN : WorkerRecipe(w, ok)
             \/ WorkerNotify(w) \/ SpuriousWorkerWakeup(w)
      PROVE  NobodySleepsAtJoin'
  <2>1. Waiting' \subseteq Waiting
    BY <1>0, <1>2 DEF WorkerTake, WorkerStop, WorkerReport, WorkerRecipe,
                      WorkerNotify, SpuriousWorkerWakeup, Waiting, At, TypeOK
  <2>2. main' \in {"join", "destroyed"} => main \in {"join", "destroyed"}
    BY <1>2 DEF WorkerTake, WorkerStop, WorkerReport, WorkerRecipe,
                WorkerNotify, SpuriousWorkerWakeup, client
  <2> QED
    BY <2>1, <2>2 DEF NobodySleepsAtJoin
<1>3. CASE StopNotifyAll
  BY <1>3, AllWake DEF StopNotifyAll, NobodySleepsAtJoin
<1>4. CASE JoinAll
  BY <1>4 DEF JoinAll, local, NobodySleepsAtJoin, Waiting, At
<1>5. CASE \/ (\E S \in SUBSET Requests : ScheduleBuilds(S)) \/ GetBuildResult
           \/ DiscardAllRunningTasks \/ TakeResult \/ Shutdown \/ NotifyTodoAll
           \/ NotifyTodoOne \/ WaitForResult \/ SpuriousClientWakeup
  BY <1>5 DEF ScheduleBuilds, GetBuildResult, DiscardAllRunningTasks, TakeResult,
              Shutdown, NotifyTodoAll, NotifyTodoOne, WaitForResult,
              SpuriousClientWakeup, NobodySleepsAtJoin
<1>6. CASE UNCHANGED vars
  BY <1>6 DEF vars, local, client, Waiting, At, NobodySleepsAtJoin
<1> QED
  BY <1>1, <1>2, <1>3, <1>4, <1>5, <1>6
  DEF Next, ClientCalls, ClientContinues, Worker, Terminated

(* Once the destructor joins, no worker sleeps or will: every join returns *)
(* when the worker's recipe does.                                          *)
THEOREM NoSleeperIsJoined == Spec => []NobodySleepsAtJoin
<1>1. Init => NobodySleepsAtJoin
  BY DEF Init, NobodySleepsAtJoin
<1> QED
  BY <1>1, JoinStep, Invariance, PTL DEF Spec, Safety

-----------------------------------------------------------------------------
(* What makes a result true.  Only a request whose recipe was run can have *)
(* failed, a worker enters a recipe with `success` still false, and it     *)
(* carries the outcome unchanged until it reports.                         *)
OutcomeOK ==
  /\ failed \cap todo = {}
  /\ failed \subseteq scheduled
  /\ \A w \in At("recipe") : ~success[w] /\ task[w] \notin failed
  /\ \A w \in At("report") : success[w] <=> task[w] \notin failed
  /\ ResultsAreTrue

(* Every step keeps results true.                                          *)
LEMMA OutcomeStep == IInv /\ OutcomeOK /\ [Next]_vars => OutcomeOK'
<1> SUFFICES ASSUME IInv, OutcomeOK, [Next]_vars PROVE OutcomeOK'
  OBVIOUS
<1>0. TypeOK /\ HoldersOK /\ ExactlyOnce
  BY DEF IInv
<1> USE DEF OutcomeOK
<1>1. ASSUME NEW S \in SUBSET Requests, ScheduleBuilds(S) PROVE OutcomeOK'
  BY <1>1 DEF ScheduleBuilds, local, At, ResultsAreTrue
<1>2. ASSUME NEW w \in Workers, WorkerTake(w) PROVE OutcomeOK'
  <2>1. PICK r \in todo : todo' = todo \ {r} /\ task' = [task EXCEPT ![w] = r]
    BY <1>2 DEF WorkerTake
  <2>2. failed' = failed /\ scheduled' = scheduled /\ done' = done
    BY <1>2 DEF WorkerTake, client, hist
  <2>3. \A v \in At("recipe")' : ~success'[v] /\ task'[v] \notin failed'
    BY <1>0, <1>2, <2>1, <2>2 DEF WorkerTake, At, TypeOK
  <2>4. \A v \in At("report")' : success'[v] <=> task'[v] \notin failed'
    <3> SUFFICES ASSUME NEW v \in At("report")'
                 PROVE  success'[v] <=> task'[v] \notin failed'
      OBVIOUS
    <3>1. v # w /\ v \in At("report")
      BY <1>0, <1>2 DEF WorkerTake, At, TypeOK
    <3>2. success'[v] = success[v] /\ task'[v] = task[v]
      BY <1>0, <1>2, <2>1, <3>1 DEF WorkerTake, At, TypeOK
    <3> QED
      BY <2>2, <3>1, <3>2, Zenon
  <2> QED
    BY <2>1, <2>2, <2>3, <2>4 DEF ResultsAreTrue
<1>3. ASSUME NEW w \in Workers, NEW ok \in BOOLEAN, WorkerRecipe(w, ok)
      PROVE  OutcomeOK'
  <2>1. /\ w \in At("recipe") /\ w \in Busy
        /\ todo' = todo /\ done' = done /\ task' = task /\ scheduled' = scheduled
        /\ failed' \subseteq failed \cup {task[w]}
    BY <1>3 DEF WorkerRecipe, shared, client, At, Busy
  <2>2. /\ task[w] \in Held
        /\ task[w] \notin todo /\ task[w] \in scheduled /\ task[w] \notin Reported
    BY <1>0, <2>1 DEF ExactlyOnce, Held
  <2>3. \A v \in Busy : v # w => task[v] # task[w]
    BY <1>0, <2>1 DEF ExactlyOnce
  <2>4. /\ At("recipe")' = At("recipe") \ {w}
        /\ At("report")' = At("report") \cup {w}
    BY <1>0, <1>3 DEF WorkerRecipe, At, TypeOK
  <2>5. \A v \in Workers : v # w => success'[v] = success[v]
    BY <1>0, <1>3 DEF WorkerRecipe, TypeOK
  <2>6. \A r : r # task[w] => (r \in failed' <=> r \in failed)
    BY <1>3 DEF WorkerRecipe
  <2>7. success'[w] <=> task'[w] \notin failed'
    <3>1. ~success[w] /\ task[w] \notin failed
      BY <2>1
    <3>2. CASE ok
      BY <1>0, <1>3, <2>1, <3>1, <3>2 DEF WorkerRecipe, TypeOK
    <3>3. CASE ~ok
      BY <1>0, <1>3, <2>1, <3>1, <3>3 DEF WorkerRecipe, TypeOK
    <3> QED
      BY <3>2, <3>3
  <2>8. \A v \in At("recipe")' : ~success'[v] /\ task'[v] \notin failed'
    BY <2>1, <2>3, <2>4, <2>5, <2>6 DEF At, Busy
  <2>9. \A v \in At("report")' : success'[v] <=> task'[v] \notin failed'
    <3> SUFFICES ASSUME NEW v \in At("report"), v # w
                 PROVE  success'[v] <=> task'[v] \notin failed'
      BY <2>4, <2>7
    <3>1. v \in Busy /\ v \in Workers
      BY DEF Busy, At
    <3>2. success'[v] = success[v]
      BY <2>5, <3>1
    <3>3. task'[v] \notin failed' <=> task[v] \notin failed
      BY <2>1, <2>3, <2>6, <3>1
    <3> QED
      BY <3>2, <3>3, Zenon
  <2>10. ResultsAreTrue'
    <3>1. \A i \in DOMAIN done : done[i].rq # task[w]
      BY <2>2 DEF Reported
    <3> QED
      BY <2>1, <2>6, <3>1 DEF ResultsAreTrue
  <2> QED
    BY <2>1, <2>2, <2>8, <2>9, <2>10
<1>4. ASSUME NEW w \in Workers, WorkerReport(w) PROVE OutcomeOK'
  <2> DEFINE res == [rq |-> task[w], success |-> success[w]]
  <2>1. w \in At("report") /\ task[w] \in Requests /\ success[w] \in BOOLEAN
    BY <1>0, <1>4 DEF WorkerReport, HoldersOK, At, Busy, TypeOK
  <2>2. /\ done' = Append(done, res)
        /\ todo' = todo /\ failed' = failed /\ scheduled' = scheduled
        /\ success' = success
    BY <1>4 DEF WorkerReport, client, hist
  <2>3. /\ At("recipe")' = At("recipe") /\ At("report")' = At("report") \ {w}
        /\ \A v \in Workers : v # w => task'[v] = task[v]
    BY <1>0, <1>4 DEF WorkerReport, At, TypeOK
  <2>4. /\ Len(done) \in Nat
        /\ DOMAIN done = 1..Len(done) /\ DOMAIN done' = 1..(Len(done) + 1)
        /\ \A i \in 1..Len(done) : done'[i] = done[i]
        /\ done'[Len(done) + 1] = res
    <3>1. done \in Seq([rq : Requests, success : BOOLEAN])
      BY <1>0 DEF TypeOK
    <3>2. res \in [rq : Requests, success : BOOLEAN]
      BY <2>1
    <3> QED
      BY <2>2, <3>1, <3>2, AppendProperties, LenProperties
  <2>5. res.success <=> res.rq \notin failed
    BY <2>1, Zenon
  <2>6. ResultsAreTrue'
    <3> SUFFICES ASSUME NEW i \in DOMAIN done'
                 PROVE  done'[i].success <=> done'[i].rq \notin failed
      BY <2>2 DEF ResultsAreTrue
    <3>1. CASE i \in DOMAIN done
      BY <2>4, <3>1, Zenon DEF ResultsAreTrue
    <3>2. CASE i = Len(done) + 1
      BY <2>4, <2>5, <3>2, Zenon
    <3> QED
      BY <2>4, <3>1, <3>2
  <2>7. \A v \in At("recipe")' : ~success'[v] /\ task'[v] \notin failed'
    <3>1. w \notin At("recipe")
      BY <2>1 DEF At
    <3> QED
      BY <2>2, <2>3, <3>1 DEF At
  <2>8. \A v \in At("report")' : success'[v] <=> task'[v] \notin failed'
    <3> SUFFICES ASSUME NEW v \in At("report"), v # w
                 PROVE  success'[v] <=> task'[v] \notin failed'
      BY <2>3
    <3>1. task'[v] = task[v]
      BY <2>3 DEF At
    <3> QED
      BY <2>2, <3>1, Zenon
  <2> QED
    BY <2>2, <2>6, <2>7, <2>8
<1>5. CASE TakeResult
  <2>1. /\ done' = Tail(done) /\ done # <<>>
        /\ UNCHANGED <<todo, wpc, task, success, scheduled, failed>>
    BY <1>5 DEF TakeResult, local
  <2>2. /\ Len(done) \in Nat /\ DOMAIN done = 1..Len(done)
        /\ DOMAIN done' = 1..(Len(done) - 1)
        /\ \A i \in 1..(Len(done) - 1) : done'[i] = done[i + 1]
    BY <1>0, <2>1, HeadTailProperties, LenProperties DEF TypeOK
  <2>3. ResultsAreTrue'
    <3> SUFFICES ASSUME NEW i \in DOMAIN done'
                 PROVE  done'[i].success <=> done'[i].rq \notin failed
      BY <2>1 DEF ResultsAreTrue
    <3>1. i + 1 \in DOMAIN done /\ done'[i] = done[i + 1]
      BY <2>2
    <3> QED
      BY <3>1, Zenon DEF ResultsAreTrue
  <2> QED
    BY <2>1, <2>3 DEF At
<1>6. ASSUME /\ \/ (\E w \in Workers : \/ WorkerWait(w) \/ WorkerStop(w)
                                       \/ WorkerNotify(w) \/ SpuriousWorkerWakeup(w))
                \/ NotifyTodoAll \/ NotifyTodoOne \/ StopNotifyAll \/ WaitForResult
                \/ JoinAll \/ GetBuildResult \/ DiscardAllRunningTasks \/ Shutdown
                \/ SpuriousClientWakeup \/ UNCHANGED vars
      PROVE  OutcomeOK'
  <2>1. UNCHANGED <<todo, done, task, success, scheduled, failed>>
    BY <1>6 DEF WorkerWait, WorkerStop, WorkerNotify, SpuriousWorkerWakeup,
                NotifyTodoAll, NotifyTodoOne, StopNotifyAll, WaitForResult, JoinAll,
                GetBuildResult, DiscardAllRunningTasks, Shutdown,
                SpuriousClientWakeup, vars, shared, local, client, hist
  <2>2. At("recipe")' = At("recipe") /\ At("report")' = At("report")
    BY <1>0, <1>6 DEF WorkerWait, WorkerStop, WorkerNotify, SpuriousWorkerWakeup,
                NotifyTodoAll, NotifyTodoOne, StopNotifyAll, WaitForResult, JoinAll,
                GetBuildResult, DiscardAllRunningTasks, Shutdown, WakeAllWorkers,
                SpuriousClientWakeup, vars, shared, local, client, At, Waiting, TypeOK
  <2> QED
    BY <2>1, <2>2 DEF ResultsAreTrue
<1> QED
  BY <1>1, <1>2, <1>3, <1>4, <1>5, <1>6
  DEF Next, ClientCalls, ClientContinues, Worker, Terminated

(* A result says that the recipe succeeded exactly when it returned, for   *)
(* any number of rounds of any number of workers.                          *)
THEOREM EveryResultIsTrue == Spec => []ResultsAreTrue
<1>1. Init => OutcomeOK
  <2> SUFFICES ASSUME Init PROVE OutcomeOK
    OBVIOUS
  <2>1. DOMAIN done = {}
    BY DEF Init
  <2>2. At("recipe") = {} /\ At("report") = {}
    BY DEF Init, At
  <2> QED
    BY <2>1, <2>2 DEF Init, OutcomeOK, ResultsAreTrue
<1>2. OutcomeOK => ResultsAreTrue
  BY DEF OutcomeOK
<1> QED
  BY <1>1, <1>2, OutcomeStep, Invariance, PTL DEF Spec, Safety
=============================================================================
