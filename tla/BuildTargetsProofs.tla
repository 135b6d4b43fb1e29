------------------------- MODULE BuildTargetsProofs -------------------------
(***************************************************************************)
(* Proofs about module BuildTargets, for any graph, any number of workers  *)
(* and any client that is careful about retries.  What depends on counters *)
(* is proved of graphs whose links agree.                                  *)
(***************************************************************************)
EXTENDS BuildTargets, StatusFacts

-----------------------------------------------------------------------------
(* The parts of the inductive invariant.                                   *)

UpToDate == {up_to_date_targets[i] : i \in DOMAIN up_to_date_targets}
Live     == pending_build_requests \cup Handled \cup UpToDate
Started  == {r.tgt : r \in Live}
Waiting  == buildable_targets \cup blocked_targets

GraphOK ==
  \A c \in resolved, d \in Targets : c \in dep_of[d] <=> d \in DepsOf(c)

(* Where the main thread is, and what it holds there.                      *)
LocalsOK ==
  /\ phase \in {"client", "discard"} => blocked_targets = {}
  /\ phase # "initial" => buildable_targets = {}
  /\ phase = "get" => pending_build_requests = {}
  /\ phase = "consumers" => /\ built_tgt \in built_targets
                            /\ consumers \subseteq dep_of[built_tgt]
  /\ phase # "consumers" => built_tgt = NoTarget /\ consumers = {}

(* How calls end: nothing is left behind, unless by a failure.             *)
CallsOK ==
  /\ phase \in {"initial", "get", "consumers"} => outcome = "none"
  /\ phase = "client" /\ outcome \notin {"failed", "error"} => Live = {}
  /\ phase = "discard" => outcome \in {"failed", "error"}
  /\ outcome = "failed" => pending_build_requests = {} /\ UpToDate = {}
  /\ outcome # "none" \/ phase # "client" => calls > 0
  /\ phase = "client" /\ outcome = "none" => calls = 0

(* A request is in one place.                                              *)
OnePlace ==
  /\ queued \cap running = {} /\ queued \cap finished = {} /\ running \cap finished = {}
  /\ pending_build_requests \cap Handled = {}
  /\ UpToDate \cap (pending_build_requests \cup Handled) = {}
  /\ \A i, j \in DOMAIN up_to_date_targets :
       up_to_date_targets[i] = up_to_date_targets[j] => i = j

(* A target waits, is being built, or is built.                            *)
OneState ==
  /\ \A r, q \in Live : r.tgt = q.tgt => r = q
  /\ Started \cap built_targets = {}
  /\ Waiting \cap (Started \cup built_targets) = {}
  /\ buildable_targets \cap blocked_targets = {}
  /\ Waiting \cup Started \subseteq resolved

(* The next two are true only of a graph whose links agree: a link to what *)
(* is no dependency raises a counter too often.                            *)
Ready ==
  GraphOK =>
    \A t \in Started \cup buildable_targets \cup built_targets :
      DepsOf(t) \subseteq built_targets

(* The built dependencies of c that its counter has counted.               *)
Counted(c) == {d \in DepsOf(c) \cap built_targets : d = built_tgt => c \notin consumers}

CountsOK ==
  GraphOK =>
    /\ outcome # "error" => \A c \in resolved : already_built[c] = Cardinality(Counted(c))
    /\ \A t \in blocked_targets : already_built[t] # Len(deps[t])

(* A file found up to date exists.                                         *)
FilesOK == \A r \in UpToDate : kind[r.tgt] = "file" => mtime[r.tgt] # 0

(* The inductive invariant, first but for what it says of files.           *)
LoopOK ==
  /\ TypeOK
  /\ LocalsOK
  /\ CallsOK
  /\ OnePlace
  /\ OneState
  /\ Ready
  /\ CountsOK

LInv == LoopOK /\ FilesOK

(* The same where links agree.                                             *)
IInv == LInv /\ GraphOK

-----------------------------------------------------------------------------
(* Statuses and requests have their types.                                 *)

(* The modification time of a file makes a status.                         *)
LEMMA FileTimes ==
  ASSUME TypeOK, NEW t \in Targets
  PROVE  FileModTime(mtime[t]) \in Status /\ mtime[t] \in 0..MaxTime
BY BoundsAssumption DEF TypeOK, FileModTime, Status, StatusKinds

(* initialize_status gives a status that is initialised.                   *)
LEMMA InitialStatusType ==
  ASSUME TypeOK, NEW t \in Targets
  PROVE  InitialStatus(t) \in Status /\ Initialized(InitialStatus(t))
<1>1. kind[t] \in TargetKinds
  BY DEF TypeOK
<1>2. /\ ExplicitlyNeedsUpdate \in Status /\ Initialized(ExplicitlyNeedsUpdate)
      /\ TransitivelyNeedsUpdate \in Status /\ Initialized(TransitivelyNeedsUpdate)
      /\ Initialized(FileModTime(mtime[t]))
  BY DEF ExplicitlyNeedsUpdate, TransitivelyNeedsUpdate, FileModTime, Initialized,
         Status, StatusKinds
<1> QED
  BY <1>1, <1>2, FileTimes DEF InitialStatus, FileStatus, TargetKinds

(* What the build decision is made from are statuses.                      *)
LEMMA PreparedType ==
  ASSUME TypeOK, NEW t \in Targets
  PROVE  /\ Prepared(t) \in [Targets -> Status]
         /\ DepStatuses(t) \in Seq(Status)
         /\ WorstStatus(t) \in Status
<1>1. Prepared(t) \in [Targets -> Status]
  BY InitialStatusType DEF Prepared, TypeOK
<1>2. deps[t] \in Seq(Targets)
  BY DEF TypeOK
<1>3. /\ DOMAIN deps[t] = 1..Len(deps[t]) /\ Len(deps[t]) \in Nat
      /\ \A i \in DOMAIN deps[t] : deps[t][i] \in Targets
  BY <1>2
<1>4. DepStatuses(t) \in [1..Len(deps[t]) -> Status]
  BY <1>1, <1>3 DEF DepStatuses
<1>5. DepStatuses(t) \in Seq(Status)
  BY <1>3, <1>4
<1> QED
  BY <1>1, <1>5, InitialStatusType, WorstDepStatusType DEF WorstStatus

(* update_status gives a status.                                           *)
LEMMA UpdatedStatusType ==
  ASSUME TypeOK, NEW r \in Request
  PROVE  r.tgt \in Targets /\ UpdatedStatus(r.tgt, r.newest_dep_status) \in Status
<1>1. r.tgt \in Targets /\ r.newest_dep_status \in Status
  BY DEF Request
<1>2. kind[r.tgt] \in TargetKinds /\ status[r.tgt] \in Status
  BY <1>1 DEF TypeOK
<1> QED
  BY <1>1, <1>2, FileTimes, MergeType DEF UpdatedStatus, TargetKinds

(* process_target_build makes one request, and puts it in one place.       *)
LEMMA ProcessMakesRequest ==
  ASSUME TypeOK, NEW t \in Targets, ProcessTargetBuild(t), UNCHANGED sched
  PROVE  /\ RequestFor(t) \in Request /\ RequestFor(t).tgt = t
         /\ \/ /\ pending_build_requests' = pending_build_requests \cup {RequestFor(t)}
               /\ up_to_date_targets' = up_to_date_targets
               /\ UpToDate' = UpToDate
            \/ /\ ~NeedsBuild(t)
               /\ pending_build_requests' = pending_build_requests
               /\ up_to_date_targets' = Append(up_to_date_targets, RequestFor(t))
               /\ UpToDate' = UpToDate \cup {RequestFor(t)}
         /\ Handled' = Handled
         /\ Live' = Live \cup {RequestFor(t)}
         /\ Started' = Started \cup {t}
         /\ status' \in [Targets -> Status]
         /\ attempts' \in [Targets -> Nat]
         /\ pending_build_requests' \subseteq Request
         /\ up_to_date_targets' \in Seq(Request)
<1>1. RequestFor(t) \in Request /\ RequestFor(t).tgt = t
  BY PreparedType DEF RequestFor, Request, TypeOK
<1>2. Handled' = Handled
  BY DEF Handled, sched
<1>3. up_to_date_targets \in Seq(Request) /\ pending_build_requests \subseteq Request
  BY DEF TypeOK
<1> HIDE DEF RequestFor
<1>4. ASSUME up_to_date_targets' = Append(up_to_date_targets, RequestFor(t))
      PROVE  UpToDate' = UpToDate \cup {RequestFor(t)}
  BY <1>1, <1>3, <1>4 DEF UpToDate
<1>5. \/ /\ pending_build_requests' = pending_build_requests \cup {RequestFor(t)}
         /\ up_to_date_targets' = up_to_date_targets
         /\ UpToDate' = UpToDate
      \/ /\ ~NeedsBuild(t)
         /\ pending_build_requests' = pending_build_requests
         /\ up_to_date_targets' = Append(up_to_date_targets, RequestFor(t))
         /\ UpToDate' = UpToDate \cup {RequestFor(t)}
  BY <1>4 DEF ProcessTargetBuild, UpToDate
<1>6. Live' = Live \cup {RequestFor(t)}
  BY <1>2, <1>5 DEF Live
<1>7. Started' = Started \cup {t}
  BY <1>1, <1>6 DEF Started
<1>8. status' \in [Targets -> Status] /\ attempts' \in [Targets -> Nat]
  BY PreparedType DEF ProcessTargetBuild, TypeOK
<1>9. pending_build_requests' \subseteq Request /\ up_to_date_targets' \in Seq(Request)
  BY <1>1, <1>3, <1>5
<1> QED
  BY <1>1, <1>2, <1>5, <1>6, <1>7, <1>8, <1>9

-----------------------------------------------------------------------------
(* What does not change with the variables it is made of.                  *)

(* What is said of the graph stays true while the graph stays.             *)
LEMMA SameGraph ==
  ASSUME UNCHANGED graph
  PROVE  /\ GraphOK' <=> GraphOK
         /\ \A t : DepsOf(t)' = DepsOf(t)
BY DEF graph, GraphOK, DepsOf

(* Requests are where they were if the queues and the scheduler are.       *)
LEMMA SameLive ==
  ASSUME UNCHANGED <<queues, sched>>
  PROVE  Handled' = Handled /\ UpToDate' = UpToDate /\ Live' = Live /\ Started' = Started
BY DEF queues, sched, Handled, UpToDate, Live, Started

(* A counter should say what it said if nothing was built or counted.      *)
LEMMA SameCounted ==
  ASSUME UNCHANGED <<graph, built_targets, built_tgt, consumers>>
  PROVE  \A c : Counted(c)' = Counted(c)
BY DEF graph, Counted, DepsOf

(* The types of what the loop is given.                                    *)
GivenTypes ==
  /\ kind \in [Targets -> TargetKinds]
  /\ deps \in [Targets -> Seq(Targets)]
  /\ dep_of \in [Targets -> SUBSET Targets]
  /\ resolved \subseteq Targets
  /\ shadowed \subseteq Targets
  /\ mtime \in [Targets -> 0..MaxTime]
  /\ now \in 0..MaxTime

(* A processed_targets just made satisfies the invariant, over any graph.  *)
LEMMA FreshLoop ==
  ASSUME GivenTypes, LoopInit
  PROVE  LInv /\ Live = {} /\ Started = {} /\ Waiting = {}
<1> USE DEF GivenTypes, LoopInit
<1>1. /\ Handled = {} /\ UpToDate = {} /\ Live = {} /\ Started = {}
      /\ Waiting = {}
  BY DEF Sched!Init, Handled, UpToDate, Live, Started, Waiting
<1>2. Uninitialized \in Status
  BY DEF Uninitialized, Status, StatusKinds
<1>3. up_to_date_targets \in Seq(Request)
  OBVIOUS
<1>4. Sched!TypeOK
  BY DEF Sched!Init, Sched!TypeOK
<1>5. TypeOK
  BY <1>2, <1>3, <1>4 DEF TypeOK, Outcomes
<1>6. LocalsOK /\ CallsOK
  BY <1>1 DEF LocalsOK, CallsOK
<1>7. OnePlace /\ OneState /\ Ready /\ FilesOK
  BY <1>1 DEF OnePlace, OneState, Ready, FilesOK, Sched!Init
<1>8. CountsOK
  <2>1. \A c : Counted(c) = {}
    BY DEF Counted
  <2>2. \A c \in resolved : already_built[c] = 0
    OBVIOUS
  <2> QED
    BY <2>1, <2>2, FS_EmptySet DEF CountsOK
<1> QED
  BY <1>1, <1>5, <1>6, <1>7, <1>8 DEF LInv, LoopOK

(* A run starts with a graph that resolution may leave.                    *)
LEMMA InitGraph ==
  ASSUME Init
  PROVE  GivenTypes /\ (LinksAgree => GraphOK)
<1> USE DEF Init, FilesInit
<1>1. PICK g \in InitialGraphs : /\ kind = g.kind /\ deps = g.deps /\ dep_of = g.dep_of
                                /\ resolved = g.resolved /\ shadowed = g.shadowed
  OBVIOUS
<1>2. mtime \in [Targets -> 0..MaxTime] /\ now \in 0..MaxTime
  BY BoundsAssumption
<1>3. GivenTypes
  BY <1>1, <1>2, GraphsAssumption DEF GivenTypes
<1>4. LinksAgree => GraphOK
  BY <1>1, <1>3 DEF LinksAgree, GraphOK, DepsOf, GivenTypes
<1> QED
  BY <1>3, <1>4

(* A step that changes nothing.                                            *)
LEMMA StutteringKeeps ==
  ASSUME LInv, UNCHANGED vars
  PROVE  LInv'
<1> USE DEF vars, LInv, LoopOK
<1>1. (GraphOK' <=> GraphOK) /\ \A t : DepsOf(t)' = DepsOf(t)
  BY SameGraph
<1>2. Handled' = Handled /\ UpToDate' = UpToDate /\ Live' = Live /\ Started' = Started
  BY SameLive
<1>3. \A c : Counted(c)' = Counted(c)
  BY SameCounted DEF locals
<1>4. TypeOK'
  BY DEF TypeOK, Sched!TypeOK, Sched!Ended, graph, files, queues, locals, call, sched
<1>5. LocalsOK' /\ CallsOK'
  BY <1>2 DEF LocalsOK, CallsOK, queues, locals, call, graph
<1>6. OnePlace' /\ OneState' /\ Ready'
  BY <1>1, <1>2 DEF OnePlace, OneState, Ready, Waiting, queues, locals, sched, graph
<1>7. CountsOK' /\ FilesOK'
  BY <1>1, <1>2, <1>3 DEF CountsOK, FilesOK, graph, files, locals, call
<1> QED
  BY <1>1, <1>4, <1>5, <1>6, <1>7

-----------------------------------------------------------------------------
(* Counters.                                                               *)

(* A target has finitely many dependencies, at most as many as its list is *)
(* long.                                                                   *)
LEMMA FiniteDeps ==
  ASSUME TypeOK, NEW t \in Targets
  PROVE  /\ DepsOf(t) \subseteq Targets
         /\ IsFiniteSet(DepsOf(t))
         /\ Cardinality(DepsOf(t)) <= Len(deps[t])
         /\ IsFiniteSet(Counted(t)) /\ Cardinality(Counted(t)) \in Nat
         /\ Counted(t) \subseteq DepsOf(t)
<1>1. deps[t] \in Seq(Targets)
  BY DEF TypeOK
<1>2. DepsOf(t) = Range(deps[t])
  BY DEF DepsOf, Range
<1>3. DepsOf(t) \subseteq Targets
  BY <1>1, <1>2 DEF Range
<1>4. IsFiniteSet(DepsOf(t)) /\ Cardinality(DepsOf(t)) <= Len(deps[t])
  BY <1>1, <1>2, ElementsBounded
<1>5. Counted(t) \in SUBSET DepsOf(t)
  BY DEF Counted
<1> QED
  BY <1>3, <1>4, <1>5, FS_Subset, FS_CardinalityType

(* As many dependencies as the list is long are all of them, also if the   *)
(* list names one twice.                                                   *)
LEMMA AllDependencies ==
  ASSUME TypeOK, NEW t \in Targets, NEW X \in SUBSET DepsOf(t),
         Cardinality(X) = Len(deps[t])
  PROVE  X = DepsOf(t)
<1>1. /\ Cardinality(DepsOf(t)) \in Nat /\ Len(deps[t]) \in Nat
      /\ Cardinality(X) <= Cardinality(DepsOf(t))
  BY FiniteDeps, FS_CardinalityType, FS_Subset DEF TypeOK
<1> QED
  BY <1>1, FiniteDeps, FS_Subset

(* A counter that has reached the length of the list leaves nothing to     *)
(* wait for.                                                               *)
LEMMA CompleteMeansReady ==
  ASSUME TypeOK, NEW t \in Targets, Cardinality(Counted(t)) = Len(deps[t])
  PROVE  DepsOf(t) \subseteq built_targets
<1>1. Counted(t) \in SUBSET DepsOf(t) /\ Counted(t) \subseteq built_targets
  BY DEF Counted
<1> QED
  BY <1>1, AllDependencies

-----------------------------------------------------------------------------
(* Calls.                                                                  *)

(* When a careful client calls, nothing of an earlier call is left.        *)
LEMMA QuietAtCall ==
  ASSUME CarefulClient, LInv, MayCall
  PROVE  Live = {} /\ outcome # "error"
<1>1. calls > 0 => MaxCalls > 1
  BY BoundsAssumption DEF MayCall, LInv, LoopOK, TypeOK
<1>2. outcome # "error"
  BY <1>1 DEF CarefulClient, MayCall, LInv, LoopOK, CallsOK
<1>3. CASE outcome = "failed"
  BY <1>1, <1>3 DEF CarefulClient, MayCall, LInv, LoopOK, CallsOK, Live
<1>4. CASE outcome # "failed"
  BY <1>2, <1>4 DEF MayCall, LInv, LoopOK, CallsOK
<1> QED
  BY <1>2, <1>3, <1>4

(* get_all_dependencies_of visits only targets that are not built.         *)
LEMMA VisitedAreNotBuilt ==
  ASSUME TypeOK, NEW R \in SUBSET Targets
  PROVE  VisitedFrom(R) \subseteq Targets \ built_targets
<1> DEFINE N == Targets \ built_targets
<1>1. \A n \in N : DepsOf(n) \ built_targets \subseteq N
  BY FiniteDeps
<1>2. R \ built_targets \subseteq N /\ N \in SUBSET Targets
  OBVIOUS
<1> HIDE DEF N
<1>3. VisitedFrom(R) \subseteq N
  BY <1>1, <1>2 DEF VisitedFrom
<1> QED
  BY <1>3 DEF N

(* build_targets, whichever way it goes.                                   *)
LEMMA BuildTargetsKeeps ==
  ASSUME CarefulClient, LInv, NEW R \in SUBSET Targets, BuildTargets(R)
  PROVE  LInv'
<1> DEFINE visited == VisitedFrom(R)
<1> USE DEF BuildTargets, LInv, LoopOK
<1>1. Live = {} /\ outcome # "error" /\ phase = "client"
  BY QuietAtCall DEF MayCall
<1>2. (GraphOK' <=> GraphOK) /\ \A t : DepsOf(t)' = DepsOf(t)
  BY SameGraph
<1>3. /\ Handled' = Handled /\ UpToDate' = UpToDate /\ Live' = {} /\ Started' = {}
      /\ Handled = {} /\ UpToDate = {} /\ pending_build_requests = {}
  BY <1>1, SameLive DEF Live, Started
<1>4. \A c : Counted(c)' = Counted(c)
  BY <1>1 DEF Counted, DepsOf, graph, LocalsOK
<1>5. TypeOK'
  <2>1. visited \subseteq Targets
    BY VisitedAreNotBuilt
  <2> HIDE DEF visited
  <2>2. /\ buildable_targets' \subseteq Targets /\ blocked_targets' \subseteq Targets
        /\ phase' \in {"client", "initial"} /\ outcome' \in Outcomes
    BY <1>1, <2>1 DEF TypeOK, Outcomes, visited
  <2>3. requested' \subseteq Targets /\ calls' \in Nat
    BY DEF TypeOK
  <2>4. Sched!TypeOK'
    BY DEF TypeOK, Sched!TypeOK, Sched!Ended, sched
  <2> QED
    BY <2>2, <2>3, <2>4 DEF TypeOK, graph, files, queues
<1>6. buildable_targets' \cup blocked_targets' \subseteq visited /\ visited \cap built_targets = {}
  BY <1>1, VisitedAreNotBuilt DEF LocalsOK
<1>7. LocalsOK'
  BY <1>1 DEF LocalsOK, queues, graph
<1>8. CallsOK'
  BY <1>1, <1>3, <1>5 DEF CallsOK, TypeOK
<1>9. OnePlace'
  BY <1>3 DEF OnePlace, queues, sched
<1>10. Waiting' \subseteq resolved
  BY <1>1 DEF Waiting, LocalsOK
<1>11. buildable_targets' \cap blocked_targets' = {}
  BY <1>1 DEF LocalsOK
<1>12. OneState'
  BY <1>3, <1>6, <1>10, <1>11, <1>2 DEF OneState, Waiting, graph
<1>13. ASSUME GraphOK, NEW t \in buildable_targets'
       PROVE  DepsOf(t) \subseteq built_targets
  <2>1. t \in resolved /\ t \in Targets /\ already_built[t] = Len(deps[t])
    BY <1>1, <1>10, <1>13 DEF Waiting, LocalsOK, AllDepsCounted, TypeOK
  <2> QED
    BY <1>1, <1>13, <2>1, CompleteMeansReady DEF CountsOK
<1>14. Ready'
  BY <1>2, <1>3, <1>13 DEF Ready
<1>15. CountsOK'
  BY <1>1, <1>2, <1>4 DEF CountsOK, LocalsOK, AllDepsCounted, graph
<1>16. FilesOK'
  BY <1>3 DEF FilesOK
<1> QED
  BY <1>2, <1>5, <1>7, <1>8, <1>9, <1>12, <1>14, <1>15, <1>16

(* discard_all_running_tasks is called.                                    *)
LEMMA StartDiscardingKeeps ==
  ASSUME LInv, StartDiscarding
  PROVE  LInv'
<1> USE DEF StartDiscarding, LInv, LoopOK
<1>1. (GraphOK' <=> GraphOK) /\ \A t : DepsOf(t)' = DepsOf(t)
  BY SameGraph
<1>2. Handled' = Handled /\ UpToDate' = UpToDate /\ Live' = Live /\ Started' = Started
  BY SameLive
<1>3. \A c : Counted(c)' = Counted(c)
  BY SameCounted DEF locals
<1>4. TypeOK'
  BY DEF TypeOK, Sched!TypeOK, Sched!Ended, graph, files, queues, locals, sched
<1>5. LocalsOK' /\ CallsOK'
  BY <1>2 DEF LocalsOK, CallsOK, queues, locals, graph, Live
<1>6. OnePlace' /\ OneState' /\ Ready'
  BY <1>1, <1>2 DEF OnePlace, OneState, Ready, Waiting, queues, locals, sched, graph
<1>7. CountsOK' /\ FilesOK'
  BY <1>1, <1>2, <1>3 DEF CountsOK, FilesOK, graph, files, locals
<1> QED
  BY <1>1, <1>4, <1>5, <1>6, <1>7

(* A result is discarded.                                                  *)
LEMMA DiscardResultKeeps ==
  ASSUME LInv, NEW r \in finished, DiscardResult(r)
  PROVE  LInv'
<1> USE DEF DiscardResult, Sched!Return, LInv, LoopOK
<1>1. (GraphOK' <=> GraphOK) /\ \A t : DepsOf(t)' = DepsOf(t)
  BY SameGraph
<1>2. UpToDate' = UpToDate /\ Handled' = Handled \ {r}
  BY DEF UpToDate, queues, Handled, OnePlace
<1>3. Live' \subseteq Live /\ Started' \subseteq Started
  BY <1>2 DEF Live, Started, queues
<1>4. \A c : Counted(c)' = Counted(c)
  BY SameCounted DEF locals
<1>5. TypeOK'
  BY DEF TypeOK, Sched!TypeOK, Sched!Ended, graph, files, queues, locals
<1>6. LocalsOK' /\ CallsOK'
  BY <1>2 DEF LocalsOK, CallsOK, queues, locals, graph
<1>7. OnePlace'
  BY <1>2 DEF OnePlace, queues
<1>8. OneState' /\ Ready'
  BY <1>1, <1>3 DEF OneState, Ready, Waiting, locals, graph
<1>9. CountsOK' /\ FilesOK'
  BY <1>1, <1>2, <1>4 DEF CountsOK, FilesOK, graph, files, locals
<1> QED
  BY <1>1, <1>5, <1>6, <1>7, <1>8, <1>9

-----------------------------------------------------------------------------
(* process_target_build.                                                   *)

(* A target found up to date has a file if it should have one.             *)
LEMMA UpToDateHasFile ==
  ASSUME TypeOK, NEW t \in Targets, ~NeedsBuild(t), kind[t] = "file"
  PROVE  mtime[t] # 0
BY DEF NeedsBuild, NeedsUpdateComparedTo, InitialStatus, FileStatus,
       ExplicitlyNeedsUpdate

(* It gives a waiting target a request of its own.                         *)
LEMMA ProcessKeeps ==
  ASSUME LInv, NEW t \in Waiting, ProcessTargetBuild(t),
         UNCHANGED <<graph, files, sched>>
  PROVE  /\ OnePlace' /\ FilesOK'
         /\ \A r, q \in Live' : r.tgt = q.tgt => r = q
<1> DEFINE new == RequestFor(t)
<1>1. t \in Targets /\ t \notin Started
  BY DEF LInv, LoopOK, TypeOK, OneState, Waiting
<1>2. /\ new \in Request /\ new.tgt = t
      /\ \/ /\ pending_build_requests' = pending_build_requests \cup {new}
            /\ up_to_date_targets' = up_to_date_targets
            /\ UpToDate' = UpToDate
         \/ /\ ~NeedsBuild(t)
            /\ pending_build_requests' = pending_build_requests
            /\ up_to_date_targets' = Append(up_to_date_targets, new)
            /\ UpToDate' = UpToDate \cup {new}
      /\ Handled' = Handled /\ Live' = Live \cup {new}
  BY <1>1, ProcessMakesRequest DEF LInv, LoopOK
<1> HIDE DEF new
<1>3. new \notin Live
  BY <1>1, <1>2 DEF Started
<1>4. \A i, j \in DOMAIN up_to_date_targets' :
        up_to_date_targets'[i] = up_to_date_targets'[j] => i = j
  <2>1. up_to_date_targets \in Seq(Request)
    BY DEF LInv, LoopOK, TypeOK
  <2>2. new \notin UpToDate
    BY <1>3 DEF Live
  <2>3. \A i, j \in DOMAIN up_to_date_targets :
          up_to_date_targets[i] = up_to_date_targets[j] => i = j
    BY DEF LInv, LoopOK, OnePlace
  <2>4. CASE up_to_date_targets' = up_to_date_targets
    BY <2>3, <2>4
  <2>5. CASE up_to_date_targets' = Append(up_to_date_targets, new)
    BY <1>2, <2>1, <2>2, <2>3, <2>5 DEF UpToDate
  <2> QED
    BY <1>2, <2>4, <2>5
<1>5. OnePlace'
  BY <1>2, <1>3, <1>4 DEF LInv, LoopOK, OnePlace, Live, sched
<1>6. FilesOK'
  BY <1>1, <1>2, UpToDateHasFile DEF LInv, LoopOK, FilesOK, graph, files
<1>7. \A r \in Live : r.tgt # t
  BY <1>1 DEF Started
<1> QED
  BY <1>2, <1>5, <1>6, <1>7 DEF LInv, LoopOK, OneState

(* An internal error leaves behind what was requested before it.           *)
LEMMA ThrowKeeps ==
  ASSUME LInv, phase \in {"initial", "consumers"},
         NEW t \in Targets, ProcessTargetBuildThrows(t),
         UNCHANGED <<graph, files, built_targets, sched>>,
         already_built' \in [Targets -> Nat]
  PROVE  LInv'
<1> USE DEF ProcessTargetBuildThrows, EndCall, LInv, LoopOK
<1>1. (GraphOK' <=> GraphOK) /\ \A u : DepsOf(u)' = DepsOf(u)
  BY SameGraph
<1>2. Handled' = Handled /\ UpToDate' = UpToDate /\ Live' = Live /\ Started' = Started
  BY SameLive
<1>3. TypeOK'
  <2>1. status' \in [Targets -> Status]
    BY PreparedType DEF TypeOK
  <2>2. Sched!TypeOK'
    BY DEF TypeOK, Sched!TypeOK, Sched!Ended, sched
  <2> QED
    BY <2>1, <2>2 DEF TypeOK, Outcomes, graph, files, queues
<1>4. LocalsOK'
  BY DEF LocalsOK
<1>5. CallsOK'
  <2>1. outcome = "none" /\ calls > 0
    BY DEF CallsOK
  <2> QED
    BY <2>1 DEF CallsOK
<1>6. OnePlace' /\ OneState' /\ Ready'
  BY <1>1, <1>2 DEF OnePlace, OneState, Ready, Waiting, queues, sched, graph
<1>7. CountsOK' /\ FilesOK'
  BY <1>2 DEF CountsOK, FilesOK, graph, files
<1> QED
  BY <1>1, <1>3, <1>4, <1>5, <1>6, <1>7

(* A buildable target is processed, or its processing throws.              *)
LEMMA ProcessBuildableKeeps ==
  ASSUME LInv, NEW t \in Targets, ProcessBuildable(t)
  PROVE  LInv'
<1> USE DEF ProcessBuildable
<1>1. CASE ProcessTargetBuildThrows(t)
  <2>1. already_built' \in [Targets -> Nat]
    BY DEF LInv, LoopOK, TypeOK
  <2> QED
    BY <1>1, <2>1, ThrowKeeps
<1>2. CASE ProcessTargetBuild(t) /\ ~ProcessTargetBuildThrows(t)
  <2> USE <1>2 DEF LInv, LoopOK
  <2>1. (GraphOK' <=> GraphOK) /\ \A u : DepsOf(u)' = DepsOf(u)
    BY SameGraph
  <2>2. t \in Waiting
    BY DEF Waiting
  <2>3. /\ OnePlace' /\ FilesOK'
        /\ \A r, q \in Live' : r.tgt = q.tgt => r = q
    BY <2>2, ProcessKeeps
  <2>4. /\ Handled' = Handled /\ Started' = Started \cup {t}
        /\ status' \in [Targets -> Status] /\ attempts' \in [Targets -> Nat]
        /\ pending_build_requests' \subseteq Request
        /\ up_to_date_targets' \in Seq(Request)
    BY ProcessMakesRequest
  <2>5. TypeOK'
    <3>1. Sched!TypeOK'
      BY DEF TypeOK, Sched!TypeOK, Sched!Ended, sched
    <3> QED
      BY <2>4, <3>1 DEF TypeOK, graph, files, call
  <2>6. LocalsOK' /\ CallsOK'
    BY DEF LocalsOK, CallsOK, call, graph
  <2>7. OneState'
    BY <2>3, <2>4 DEF OneState, Waiting, graph
  <2>8. Ready'
    BY <2>1, <2>4 DEF Ready
  <2>9. CountsOK'
    BY <2>1, SameCounted DEF CountsOK, graph, call
  <2> QED
    BY <2>1, <2>3, <2>5, <2>6, <2>7, <2>8, <2>9
<1> QED
  BY <1>1, <1>2

-----------------------------------------------------------------------------
(* Requests handed over, results taken back.                               *)

(* scheduler_commit_build_requests moves requests and loses none.          *)
LEMMA CommitMoves ==
  ASSUME LInv, Commit, UNCHANGED up_to_date_targets
  PROVE  /\ pending_build_requests' = {}
         /\ Handled' = Handled \cup pending_build_requests
         /\ UpToDate' = UpToDate /\ Live' = Live /\ Started' = Started
         /\ OnePlace' /\ Sched!TypeOK'
<1> USE DEF Commit, Sched!Schedule, LInv, LoopOK
<1>1. UpToDate' = UpToDate
  BY DEF UpToDate
<1>2. Handled' = Handled \cup pending_build_requests
  BY DEF Handled, sched
<1>3. Live' = Live
  BY <1>1, <1>2 DEF Live
<1>4. Started' = Started
  BY <1>3 DEF Started
<1>5. OnePlace'
  BY <1>1, <1>2 DEF OnePlace, Handled, sched
<1>6. Sched!TypeOK'
  BY DEF TypeOK, Sched!TypeOK, Sched!Ended, sched
<1> QED
  BY <1>1, <1>2, <1>3, <1>4, <1>5, <1>6

(* The first batch is committed.                                           *)
LEMMA CommitInitialKeeps ==
  ASSUME LInv, CommitInitial
  PROVE  LInv'
<1> USE DEF CommitInitial, LInv, LoopOK
<1>1. (GraphOK' <=> GraphOK) /\ \A t : DepsOf(t)' = DepsOf(t)
  BY SameGraph
<1>2. /\ pending_build_requests' = {}
      /\ UpToDate' = UpToDate /\ Live' = Live /\ Started' = Started
      /\ OnePlace' /\ Sched!TypeOK'
  BY CommitMoves
<1>3. \A c : Counted(c)' = Counted(c)
  BY SameCounted DEF locals
<1>4. TypeOK'
  BY <1>2 DEF TypeOK, graph, files, locals
<1>5. LocalsOK' /\ CallsOK'
  BY <1>2 DEF LocalsOK, CallsOK, locals, graph
<1>6. OneState' /\ Ready'
  BY <1>1, <1>2 DEF OneState, Ready, Waiting, locals, graph
<1>7. CountsOK' /\ FilesOK'
  BY <1>1, <1>2, <1>3 DEF CountsOK, FilesOK, graph, files, locals
<1> QED
  BY <1>1, <1>2, <1>4, <1>5, <1>6, <1>7

(* A round of the loop ends, with or without more to wait for.             *)
LEMMA CommitLoopKeeps ==
  ASSUME LInv, CommitLoop
  PROVE  LInv'
<1> USE DEF CommitLoop, LInv, LoopOK
<1>1. (GraphOK' <=> GraphOK) /\ \A t : DepsOf(t)' = DepsOf(t)
  BY SameGraph
<1>2. /\ pending_build_requests' = {} /\ Handled' = Handled \cup pending_build_requests
      /\ UpToDate' = UpToDate /\ Live' = Live /\ Started' = Started
      /\ OnePlace' /\ Sched!TypeOK'
  BY CommitMoves
<1>3. /\ phase' \in {"get", "client"} /\ built_tgt' = NoTarget /\ consumers' = {}
      /\ UNCHANGED <<requested, calls>>
      /\ buildable_targets' \subseteq buildable_targets
      /\ blocked_targets' \subseteq blocked_targets
      /\ outcome' \in {"none", "ok", "cycle"}
      /\ outcome = "none"
  BY DEF EndCall, LoopOutcome, CallsOK
<1>4. \A c : Counted(c)' = Counted(c)
  BY <1>1, <1>3 DEF Counted, TypeOK
<1>5. TypeOK'
  BY <1>2, <1>3 DEF TypeOK, graph, files, Outcomes
<1>6. LocalsOK'
  BY <1>2, <1>3 DEF LocalsOK, EndCall
<1>7. CallsOK'
  <2>1. CASE phase' = "get"
    BY <1>2, <1>3, <2>1 DEF CallsOK, EndCall
  <2>2. CASE phase' = "client"
    <3>1. up_to_date_targets = <<>> /\ Handled' = {} /\ outcome' = LoopOutcome
      BY <2>2 DEF EndCall
    <3>2. UpToDate' = {}
      BY <1>2, <3>1 DEF UpToDate
    <3>3. Live' = {}
      BY <1>2, <3>1, <3>2 DEF Live
    <3> QED
      BY <1>2, <1>3, <2>2, <3>1, <3>2, <3>3 DEF CallsOK, LoopOutcome
  <2> QED
    BY <1>3, <2>1, <2>2
<1>8. OneState' /\ Ready'
  BY <1>1, <1>2, <1>3 DEF OneState, Ready, Waiting, graph
<1>9. CountsOK' /\ FilesOK'
  BY <1>1, <1>2, <1>3, <1>4 DEF CountsOK, FilesOK, graph, files
<1> QED
  BY <1>1, <1>2, <1>5, <1>6, <1>7, <1>8, <1>9

(* A result accepted moves its target from those being built to those that *)
(* are, without counting it yet.                                           *)
LEMMA AcceptKeeps ==
  ASSUME LInv, phase = "get", NEW r \in Live, AcceptResult(r),
         UNCHANGED <<graph, files, already_built, attempts, pending_build_requests>>,
         Live' = Live \ {r}, UpToDate' \subseteq UpToDate,
         up_to_date_targets' \in Seq(Request), OnePlace', Sched!TypeOK'
  PROVE  LInv'
<1> USE DEF AcceptResult, LInv, LoopOK
<1>1. (GraphOK' <=> GraphOK) /\ \A t : DepsOf(t)' = DepsOf(t)
  BY SameGraph
<1>2. r \in Request
  BY DEF Live, Handled, UpToDate, TypeOK, Sched!TypeOK
<1>3. r.tgt \in Targets /\ UpdatedStatus(r.tgt, r.newest_dep_status) \in Status
  BY <1>2, UpdatedStatusType
<1>4. r.tgt \in Started /\ r.tgt \notin built_targets /\ Started' = Started \ {r.tgt}
  BY DEF Started, OneState
<1>5. TypeOK'
  BY <1>3 DEF TypeOK, graph, files
<1>6. LocalsOK'
  BY DEF LocalsOK, graph
<1>7. CallsOK'
  BY DEF CallsOK
<1>8. OneState'
  BY <1>4 DEF OneState, Waiting, graph
<1>9. Ready'
  BY <1>1, <1>4 DEF Ready
<1>10. ASSUME GraphOK, NEW c \in resolved
       PROVE  Counted(c)' = Counted(c)
  <2>1. r.tgt \in DepsOf(c) => c \in dep_of[r.tgt]
    BY <1>3, <1>10 DEF GraphOK
  <2> QED
    BY <1>1, <1>4, <2>1 DEF Counted, LocalsOK, graph
<1>11. CountsOK'
  BY <1>1, <1>10 DEF CountsOK, graph
<1>12. FilesOK'
  BY DEF FilesOK, graph, files
<1> QED
  BY <1>1, <1>5, <1>6, <1>7, <1>8, <1>9, <1>11, <1>12

(* A failure ends the call; what is under way stays under way.             *)
LEMMA FailKeeps ==
  ASSUME LInv, phase = "get", NEW how \in {"failed", "idle"}, EndCall(how),
         how = "idle" => Live' = {}, UpToDate' = {},
         UNCHANGED <<graph, files, status, already_built, built_targets, attempts,
                     pending_build_requests>>,
         Live' \subseteq Live, up_to_date_targets' \in Seq(Request),
         OnePlace', Sched!TypeOK'
  PROVE  LInv'
<1> USE DEF EndCall, LInv, LoopOK
<1>1. (GraphOK' <=> GraphOK) /\ \A t : DepsOf(t)' = DepsOf(t)
  BY SameGraph
<1>2. Started' \subseteq Started
  BY DEF Started
<1>3. TypeOK'
  BY DEF TypeOK, graph, files, Outcomes
<1>4. LocalsOK' /\ CallsOK'
  BY DEF LocalsOK, CallsOK
<1>5. OneState' /\ Ready'
  BY <1>1, <1>2 DEF OneState, Ready, Waiting, graph
<1>6. \A c : Counted(c)' = Counted(c)
  BY <1>1 DEF Counted, LocalsOK
<1>7. CountsOK' /\ FilesOK'
  BY <1>1, <1>6 DEF CountsOK, FilesOK, graph, CallsOK
<1> QED
  BY <1>1, <1>3, <1>4, <1>5, <1>7

(* A target found up to date is taken.                                     *)
LEMMA GetUpToDateKeeps ==
  ASSUME LInv, GetUpToDate
  PROVE  LInv'
<1> DEFINE n    == Len(up_to_date_targets)
           last == up_to_date_targets[n]
<1> USE DEF GetUpToDate, LInv, LoopOK
<1>1. /\ up_to_date_targets \in Seq(Request) /\ n \in Nat /\ n # 0
      /\ DOMAIN up_to_date_targets = 1..n /\ last \in UpToDate
  BY DEF TypeOK, UpToDate
<1>2. /\ up_to_date_targets' \in Seq(Request)
      /\ DOMAIN up_to_date_targets' = 1..(n - 1)
      /\ \A i \in 1..(n - 1) : up_to_date_targets'[i] = up_to_date_targets[i]
  BY <1>1
<1>3. \A i, j \in 1..n : up_to_date_targets[i] = up_to_date_targets[j] => i = j
  BY <1>1 DEF OnePlace
<1>4. UpToDate' = UpToDate \ {last}
  <2>1. UpToDate = {up_to_date_targets[i] : i \in 1..n}
    BY <1>1 DEF UpToDate
  <2>2. UpToDate' = {up_to_date_targets[i] : i \in 1..(n - 1)}
    BY <1>2 DEF UpToDate
  <2>3. 1..n = 1..(n - 1) \cup {n} /\ n \notin 1..(n - 1)
    BY <1>1
  <2> HIDE DEF n
  <2> QED
    BY <1>3, <2>1, <2>2, <2>3
<1>5. Handled' = Handled /\ last \notin pending_build_requests \cup Handled
  BY <1>1 DEF Handled, sched, OnePlace
<1>6. Live' = Live \ {last}
  BY <1>4, <1>5 DEF Live
<1>7. OnePlace'
  <2>1. \A i, j \in DOMAIN up_to_date_targets' :
          up_to_date_targets'[i] = up_to_date_targets'[j] => i = j
    BY <1>1, <1>2, <1>3
  <2> QED
    BY <1>4, <1>5, <2>1 DEF OnePlace, sched
<1>8. Sched!TypeOK'
  BY DEF TypeOK, Sched!TypeOK, Sched!Ended, sched
<1>9. ~UpdateThrows(last.tgt)
  BY <1>1 DEF FilesOK, UpdateThrows
<1>10. last \in Live /\ AcceptResult(last)
  BY <1>1, <1>9 DEF Live
<1> HIDE DEF last
<1> QED
  BY <1>2, <1>4, <1>6, <1>7, <1>8, <1>10, AcceptKeeps

(* A result of the scheduler is taken.                                     *)
LEMMA GetResultKeeps ==
  ASSUME LInv, NEW r \in finished, GetResult(r)
  PROVE  LInv'
<1> USE DEF GetResult, Sched!Return, LInv, LoopOK
<1>1. UpToDate' = UpToDate /\ UpToDate = {} /\ up_to_date_targets' \in Seq(Request)
  BY DEF UpToDate, queues, TypeOK
<1>2. Handled' = Handled \ {r} /\ r \in Handled
  BY DEF Handled, OnePlace
<1>3. Live' = Live \ {r} /\ r \in Live
  BY <1>1, <1>2 DEF Live, OnePlace, queues
<1>4. OnePlace'
  BY <1>1, <1>2 DEF OnePlace, queues
<1>5. Sched!TypeOK'
  BY DEF TypeOK, Sched!TypeOK, Sched!Ended
<1>6. CASE AcceptResult(r)
  BY <1>1, <1>3, <1>4, <1>5, <1>6, AcceptKeeps DEF queues
<1>7. CASE EndCall("failed") /\ UNCHANGED <<status, built_targets>>
  BY <1>1, <1>3, <1>4, <1>5, <1>7, FailKeeps DEF queues
<1> QED
  BY <1>6, <1>7

(* Nothing is handled, and get_build_result throws.                        *)
LEMMA GetThrowsIdleKeeps ==
  ASSUME LInv, GetThrowsIdle
  PROVE  LInv'
<1> USE DEF GetThrowsIdle, LInv, LoopOK
<1>1. Handled' = Handled /\ UpToDate' = UpToDate /\ Live' = Live
  BY SameLive
<1>2. UpToDate = {} /\ Live = {}
  BY DEF UpToDate, Live, LocalsOK
<1>3. OnePlace' /\ Sched!TypeOK' /\ up_to_date_targets' \in Seq(Request)
  BY <1>1 DEF OnePlace, TypeOK, Sched!TypeOK, Sched!Ended, queues, sched
<1> QED
  BY <1>1, <1>2, <1>3, FailKeeps DEF queues

-----------------------------------------------------------------------------
(* The loop over the consumers of a target, and recipes.                   *)

(* A round counts the target just built for one consumer.                  *)
LEMMA CountedOnceMore ==
  ASSUME LInv, GraphOK, phase = "consumers", NEW c \in consumers \cap resolved,
         consumers' = consumers \ {c},
         UNCHANGED <<graph, built_targets, built_tgt>>
  PROVE  /\ Cardinality(Counted(c)') = Cardinality(Counted(c)) + 1
         /\ Counted(c)' \subseteq DepsOf(c)
         /\ \A u : u # c => Counted(u)' = Counted(u)
<1> USE DEF LInv, LoopOK
<1>1. \A u : DepsOf(u)' = DepsOf(u)
  BY SameGraph
<1>2. built_tgt \in DepsOf(c) \cap built_targets /\ c \in Targets
  BY DEF LocalsOK, GraphOK, TypeOK
<1>3. Counted(c)' = Counted(c) \cup {built_tgt} /\ built_tgt \notin Counted(c)
  BY <1>1, <1>2 DEF Counted
<1>4. \A u : u # c => Counted(u)' = Counted(u)
  BY <1>1 DEF Counted
<1> QED
  BY <1>1, <1>2, <1>3, <1>4, FiniteDeps, FS_AddElement DEF Counted

(* The last dependency of an awaited consumer makes all of them built.     *)
LEMMA ConsumerIsReady ==
  ASSUME LInv, GraphOK, phase = "consumers", NEW c \in consumers, Awaited(c), Complete(c)
  PROVE  DepsOf(c) \subseteq built_targets
<1> DEFINE X == Counted(c) \cup {built_tgt}
<1> USE DEF LInv, LoopOK
<1>1. c \in resolved /\ c \in Targets
  BY DEF Awaited, OneState, Waiting, TypeOK
<1>2. built_tgt \in DepsOf(c) \cap built_targets /\ built_tgt \notin Counted(c)
  BY <1>1 DEF LocalsOK, GraphOK, TypeOK, Counted
<1>3. X \in SUBSET DepsOf(c) /\ X \subseteq built_targets
  BY <1>2 DEF Counted
<1>4. Cardinality(X) = Cardinality(Counted(c)) + 1
  BY <1>1, <1>2, FiniteDeps, FS_AddElement
<1>5. Cardinality(X) = Len(deps[c])
  BY <1>1, <1>4 DEF Complete, CountsOK, CallsOK, TypeOK
<1> HIDE DEF X
<1>6. X = DepsOf(c)
  BY <1>1, <1>3, <1>5, AllDependencies
<1> QED
  BY <1>3, <1>6

(* A consumer of the built target is counted, and perhaps processed.       *)
LEMMA ConsumerKeeps ==
  ASSUME LInv, NEW c \in Targets, Consumer(c)
  PROVE  LInv'
<1> USE DEF Consumer, CountUp, Awaited, Complete
<1>1. already_built' \in [Targets -> Nat]
  BY DEF LInv, LoopOK, TypeOK
<1>2. CASE ProcessTargetBuildThrows(c)
  BY <1>1, <1>2, ThrowKeeps
<1>3. CASE /\ ~(Awaited(c) /\ Complete(c))
           /\ consumers' = consumers \ {c}
           /\ UNCHANGED <<status, attempts, queues, call, buildable_targets,
                          blocked_targets, built_tgt>>
  <2> USE <1>3 DEF LInv, LoopOK
  <2>1. (GraphOK' <=> GraphOK) /\ \A t : DepsOf(t)' = DepsOf(t)
    BY SameGraph
  <2>2. Handled' = Handled /\ UpToDate' = UpToDate /\ Live' = Live /\ Started' = Started
    BY SameLive
  <2>3. TypeOK'
    BY <1>1 DEF TypeOK, Sched!TypeOK, Sched!Ended, graph, files, queues, call, sched
  <2>4. LocalsOK' /\ CallsOK'
    BY <2>2 DEF LocalsOK, CallsOK, queues, call, graph
  <2>5. OnePlace' /\ OneState' /\ Ready'
    BY <2>1, <2>2 DEF OnePlace, OneState, Ready, Waiting, queues, sched, graph
  <2>6. CountsOK'
    <3>1. ASSUME GraphOK, NEW u \in resolved
          PROVE  already_built'[u] = Cardinality(Counted(u)')
      <4>1. u \in Targets /\ already_built[u] = Cardinality(Counted(u))
        BY <3>1 DEF CountsOK, CallsOK, TypeOK
      <4> QED
        BY <3>1, <4>1, CountedOnceMore, <2>1 DEF TypeOK, Counted
    <3>2. ASSUME GraphOK, NEW u \in blocked_targets
          PROVE  already_built'[u] # Len(deps[u])
      BY <3>2 DEF CountsOK, TypeOK
    <3> QED
      BY <2>1, <3>1, <3>2 DEF CountsOK, graph
  <2>7. FilesOK'
    BY <2>2 DEF FilesOK, graph, files
  <2> QED
    BY <2>1, <2>3, <2>4, <2>5, <2>6, <2>7
<1>4. CASE /\ Awaited(c) /\ Complete(c) /\ ProcessTargetBuild(c)
           /\ consumers' = consumers \ {c}
           /\ blocked_targets' = blocked_targets \ {c}
           /\ UNCHANGED <<call, buildable_targets, built_tgt>>
  <2> USE <1>4 DEF LInv, LoopOK
  <2>1. (GraphOK' <=> GraphOK) /\ \A u : DepsOf(u)' = DepsOf(u)
    BY SameGraph
  <2>2. c \in Waiting /\ c \in resolved
    BY DEF Waiting, OneState
  <2>3. /\ OnePlace' /\ FilesOK'
        /\ \A r, q \in Live' : r.tgt = q.tgt => r = q
    BY <2>2, ProcessKeeps
  <2>4. /\ Handled' = Handled /\ Started' = Started \cup {c}
        /\ status' \in [Targets -> Status] /\ attempts' \in [Targets -> Nat]
        /\ pending_build_requests' \subseteq Request
        /\ up_to_date_targets' \in Seq(Request)
    BY ProcessMakesRequest
  <2>5. TypeOK'
    <3>1. Sched!TypeOK'
      BY DEF TypeOK, Sched!TypeOK, Sched!Ended, sched
    <3> QED
      BY <1>1, <2>4, <3>1 DEF TypeOK, graph, files, call
  <2>6. LocalsOK' /\ CallsOK'
    BY DEF LocalsOK, CallsOK, call, graph
  <2>7. OneState'
    BY <2>3, <2>4 DEF OneState, Waiting, graph
  <2>8. ASSUME GraphOK, NEW u \in resolved
        PROVE  already_built'[u] = Cardinality(Counted(u)')
    <3>1. u \in Targets /\ already_built[u] = Cardinality(Counted(u))
      BY <2>8 DEF CountsOK, CallsOK, TypeOK
    <3>2. c \in consumers \cap resolved /\ UNCHANGED <<graph, built_targets, built_tgt>>
      BY <2>2
    <3>3. /\ Cardinality(Counted(c)') = Cardinality(Counted(c)) + 1
          /\ u # c => Counted(u)' = Counted(u)
      BY <2>8, <3>2, CountedOnceMore, <1>4
    <3>4. already_built'[u] = IF u = c THEN already_built[u] + 1 ELSE already_built[u]
      BY <3>1 DEF TypeOK
    <3> QED
      BY <3>1, <3>3, <3>4
  <2>9. CountsOK'
    BY <2>1, <2>8 DEF CountsOK, TypeOK, graph
  <2>10. GraphOK => DepsOf(c) \subseteq built_targets
    BY ConsumerIsReady
  <2>11. Ready'
    BY <2>1, <2>4, <2>10 DEF Ready
  <2> QED
    BY <2>1, <2>3, <2>5, <2>6, <2>7, <2>9, <2>11
<1> QED
  BY <1>2, <1>3, <1>4

(* A worker takes a request.                                               *)
LEMMA StartRecipeKeeps ==
  ASSUME LInv, NEW r \in queued, StartRecipe(r)
  PROVE  LInv'
<1> USE DEF StartRecipe, Sched!Start, LInv, LoopOK
<1>1. (GraphOK' <=> GraphOK) /\ \A t : DepsOf(t)' = DepsOf(t)
  BY SameGraph
<1>2. Handled' = Handled /\ UpToDate' = UpToDate
  BY DEF Handled, UpToDate, queues
<1>3. Live' = Live /\ Started' = Started
  BY <1>2 DEF Live, Started, queues
<1>4. \A c : Counted(c)' = Counted(c)
  BY SameCounted DEF locals
<1>5. TypeOK'
  BY DEF TypeOK, Sched!TypeOK, Sched!Ended, graph, files, queues, locals, call
<1>6. LocalsOK' /\ CallsOK'
  BY <1>2, <1>3 DEF LocalsOK, CallsOK, queues, locals, call, graph
<1>7. OnePlace'
  BY <1>2 DEF OnePlace, queues
<1>8. OneState' /\ Ready'
  BY <1>1, <1>3 DEF OneState, Ready, Waiting, locals, graph
<1>9. CountsOK' /\ FilesOK'
  BY <1>1, <1>2, <1>4 DEF CountsOK, FilesOK, graph, files, locals, call
<1> QED
  BY <1>1, <1>5, <1>6, <1>7, <1>8, <1>9

(* Whichever clock stamps a file that is written: what it shows is not     *)
(* before the last tick.                                                   *)
LEMMA StampIsLate ==
  ASSUME now \in 0..MaxTime, NEW t \in Targets, NEW time \in WriteTimes
  PROVE  /\ time \in 0..MaxTime /\ time # 0 /\ now <= time
         /\ Stamp(t, time) \in 0..MaxTime /\ Stamp(t, time) # 0
         /\ KernelTime[now] <= Stamp(t, time) /\ Stamp(t, time) <= time
<1>1. MaxTime \in Nat
  BY BoundsAssumption
<1>2. time \in 1..MaxTime /\ now <= time
  BY <1>1 DEF WriteTimes
<1>3. KernelTime[now] <= KernelTime[time]
  BY <1>1, <1>2, ClockAssumption
<1>4. KernelTime[time] \in 1..MaxTime /\ KernelTime[time] <= time
  BY <1>1, <1>2, ClockAssumption
<1>5. KernelTime[now] \in 0..MaxTime
  BY ClockAssumption
<1> QED
  BY <1>1, <1>2, <1>3, <1>4, <1>5 DEF Stamp

LEMMA WriteKeepsTypes ==
  ASSUME mtime \in [Targets -> 0..MaxTime], now \in 0..MaxTime,
         NEW t \in Targets, NEW time \in WriteTimes, Write(t, time)
  PROVE  /\ mtime' \in [Targets -> 0..MaxTime] /\ now' \in 0..MaxTime
         /\ \A u \in Targets : mtime[u] # 0 => mtime'[u] # 0
<1>1. PICK stamp \in 0..MaxTime : stamp # 0 /\ mtime' = [mtime EXCEPT ![t] = stamp]
  <2>1. Stamp(t, time) \in 0..MaxTime /\ Stamp(t, time) # 0
    BY StampIsLate
  <2> HIDE DEF Stamp
  <2> QED
    BY <2>1 DEF Write
<1>2. now' \in 0..MaxTime
  BY StampIsLate DEF Write
<1> QED
  BY <1>1, <1>2

(* A recipe writes a time that is not 0, so that a file found up to date   *)
(* does not disappear.                                                     *)
LEMMA FinishRecipeKeeps ==
  ASSUME LInv, NEW r \in running, NEW effect \in Effects, FinishRecipe(r, effect)
  PROVE  LInv'
<1> USE DEF FinishRecipe, Sched!Finish, LInv, LoopOK
<1>1. (GraphOK' <=> GraphOK) /\ \A t : DepsOf(t)' = DepsOf(t)
  BY SameGraph
<1>2. Handled' = Handled /\ UpToDate' = UpToDate
  BY DEF Handled, UpToDate, queues
<1>3. Live' = Live /\ Started' = Started
  BY <1>2 DEF Live, Started, queues
<1>4. \A c : Counted(c)' = Counted(c)
  BY SameCounted DEF locals
<1>5. /\ mtime' \in [Targets -> 0..MaxTime] /\ now' \in 0..MaxTime
      /\ \A t \in Targets : mtime[t] # 0 => mtime'[t] # 0
  <2>1. CASE effect \in {"touches", "spoils"}
    <3>1. PICK time \in WriteTimes : Write(r.tgt, time)
      BY <2>1
    <3>2. r.tgt \in Targets
      BY DEF TypeOK, Sched!TypeOK, Request
    <3> QED
      BY <3>1, <3>2, WriteKeepsTypes DEF TypeOK
  <2>2. CASE effect \notin {"touches", "spoils"}
    BY <2>2 DEF files, TypeOK
  <2> QED
    BY <2>1, <2>2
<1>6. Sched!TypeOK'
  BY DEF TypeOK, Sched!TypeOK, Sched!Ended
<1>7. TypeOK'
  BY <1>5, <1>6 DEF TypeOK, graph, queues, locals, call
<1>8. LocalsOK' /\ CallsOK'
  BY <1>2, <1>3 DEF LocalsOK, CallsOK, queues, locals, call, graph
<1>9. OnePlace'
  BY <1>2 DEF OnePlace, queues
<1>10. OneState' /\ Ready'
  BY <1>1, <1>3 DEF OneState, Ready, Waiting, locals, graph
<1>11. CountsOK'
  BY <1>1, <1>4 DEF CountsOK, graph, locals, call
<1>12. FilesOK'
  <2>1. \A q \in UpToDate : q \in Request
    BY DEF TypeOK, UpToDate
  <2>2. \A q \in UpToDate : q.tgt \in Targets
    BY <2>1 DEF Request
  <2> QED
    BY <1>2, <1>5, <2>2 DEF FilesOK, graph
<1> QED
  BY <1>1, <1>7, <1>8, <1>9, <1>10, <1>11, <1>12

-----------------------------------------------------------------------------
(* The invariant, and what follows from it.                                *)

(* Every step keeps the invariant.                                         *)
LEMMA NextKeeps ==
  ASSUME CarefulClient, LInv, [Next]_vars
  PROVE  LInv'
<1>1. CASE \E t \in Targets : ProcessBuildable(t) \/ Consumer(t)
  BY <1>1, ProcessBuildableKeeps, ConsumerKeeps
<1>2. CASE CommitInitial
  BY <1>2, CommitInitialKeeps
<1>3. CASE GetUpToDate
  BY <1>3, GetUpToDateKeeps
<1>4. CASE \E r \in finished : GetResult(r) \/ DiscardResult(r)
  BY <1>4, GetResultKeeps, DiscardResultKeeps
<1>5. CASE GetThrowsIdle
  BY <1>5, GetThrowsIdleKeeps
<1>6. CASE CommitLoop
  BY <1>6, CommitLoopKeeps
<1>7. CASE \E R \in SUBSET Targets : BuildTargets(R)
  BY <1>7, BuildTargetsKeeps
<1>8. CASE StartDiscarding
  BY <1>8, StartDiscardingKeeps
<1>9. CASE \E r \in queued : StartRecipe(r)
  BY <1>9, StartRecipeKeeps
<1>10. CASE \E r \in running : Recipe(r)
  BY <1>10, FinishRecipeKeeps DEF Recipe
<1>11. CASE Resting \/ UNCHANGED vars
  BY <1>11, StutteringKeeps DEF Resting
<1> QED
  BY <1>1, <1>2, <1>3, <1>4, <1>5, <1>6, <1>7, <1>8, <1>9, <1>10, <1>11
     DEF Next, MainStep, ClientCall, WorkerStep

(* The invariant, for any graph resolution may leave, any files, any       *)
(* number of workers and any recipes.                                      *)
THEOREM LoopInvariant ==
  ASSUME CarefulClient
  PROVE  Safety => []LInv
<1>1. Init => LInv
  BY InitGraph, FreshLoop DEF Init
<1>2. LInv /\ [Next]_vars => LInv'
  BY NextKeeps
<1> QED
  BY <1>1, <1>2, PTL DEF Safety

(* No step changes the graph.                                              *)
LEMMA GraphStays ==
  ASSUME [Next]_vars
  PROVE  UNCHANGED graph
BY DEF Next, MainStep, ClientCall, WorkerStep, ProcessBuildable, Consumer,
       CommitInitial, GetUpToDate, GetResult, DiscardResult, GetThrowsIdle,
       CommitLoop, BuildTargets, StartDiscarding, StartRecipe, Recipe,
       FinishRecipe, Resting, vars

(* Links that agree are as they were.                                      *)
LEMMA LinkedInvariant ==
  ASSUME LinksAgree, CarefulClient
  PROVE  Safety => []IInv
<1>1. Init => GraphOK
  BY InitGraph
<1>2. GraphOK /\ [Next]_vars => GraphOK'
  BY GraphStays, SameGraph
<1>3. LInv /\ GraphOK => IInv
  BY DEF IInv
<1> QED
  BY <1>1, <1>2, <1>3, LoopInvariant, PTL DEF Safety

(* Every variable keeps its type, and with the loop everything it hands    *)
(* to the scheduler.                                                       *)
THEOREM LoopTypeCorrect ==
  ASSUME CarefulClient
  PROVE  Safety => []TypeOK
<1>1. LInv => TypeOK
  BY DEF LInv, LoopOK
<1> QED
  BY <1>1, LoopInvariant, PTL

(* A recipe is handed over, and runs, only when all dependencies of its    *)
(* target are built: with any number of workers, any order of results, and *)
(* after any earlier calls.                                                *)
THEOREM DependenciesFirst ==
  ASSUME LinksAgree, CarefulClient
  PROVE  Safety => []DepsBuiltFirst
<1>1. IInv => DepsBuiltFirst
  BY DEF IInv, LInv, LoopOK, Ready, DepsBuiltFirst, Started, Live, Handled
<1> QED
  BY <1>1, LinkedInvariant, PTL

(* A target that is built has no recipe under way, nor will have one,      *)
(* even if links do not agree.                                             *)
THEOREM BuiltOnce ==
  ASSUME CarefulClient
  PROVE  Safety => []OncePerTarget
<1>1. LInv => OncePerTarget
  BY DEF LInv, LoopOK, OneState, OncePerTarget, Started, Live, Handled
<1> QED
  BY <1>1, LoopInvariant, PTL

(* Two requests under way are for two targets, even if links do not agree. *)
THEOREM RequestsAreDistinct ==
  ASSUME CarefulClient
  PROVE  Safety => []OneRequestAtATime
<1>1. LInv => OneRequestAtATime
  BY DEF LInv, LoopOK, OneState, OneRequestAtATime, Live
<1> QED
  BY <1>1, LoopInvariant, PTL

-----------------------------------------------------------------------------
(* The loop keeps to what the scheduler expects of its client.             *)

(* A request is made once: each attempt at a target has a number of its    *)
(* own, and what was returned is not handed over again.                    *)
FreshOK ==
  /\ open
  /\ \A r \in pending_build_requests \cup Sched!Known : r.attempt < attempts[r.tgt]
  /\ returned \cap (pending_build_requests \cup Handled) = {}

(* What is to be handed over is new to the scheduler, which takes it.      *)
BatchIsTaken == open /\ pending_build_requests \cap Sched!Known = {}

(* What a step may do to requests.                                         *)
RequestStep ==
  \/ UNCHANGED <<pending_build_requests, attempts, sched>>
  \/ (\E t \in Targets : ProcessTargetBuild(t)) /\ UNCHANGED sched
  \/ Commit /\ UNCHANGED attempts
  \/ /\ \E r \in finished : Sched!Return(r)
     /\ UNCHANGED <<pending_build_requests, attempts>>
  \/ /\ \/ \E r \in queued : Sched!Start(r)
        \/ \E r \in running, ok \in BOOLEAN : Sched!Finish(r, ok)
     /\ UNCHANGED <<pending_build_requests, attempts>>

(* Every step is one of these.                                             *)
LEMMA RequestSteps ==
  ASSUME [Next]_vars
  PROVE  RequestStep
<1>1. CASE \E t \in Targets : ProcessBuildable(t) \/ Consumer(t)
  BY <1>1 DEF RequestStep, ProcessBuildable, Consumer, ProcessTargetBuildThrows, queues
<1>2. CASE CommitInitial \/ CommitLoop
  BY <1>2 DEF RequestStep, CommitInitial, CommitLoop
<1>3. CASE GetUpToDate \/ GetThrowsIdle
  BY <1>3 DEF RequestStep, GetUpToDate, GetThrowsIdle, queues
<1>4. CASE \E r \in finished : GetResult(r) \/ DiscardResult(r)
  BY <1>4 DEF RequestStep, GetResult, DiscardResult, queues
<1>5. CASE ClientCall
  BY <1>5 DEF RequestStep, ClientCall, BuildTargets, StartDiscarding, queues
<1>6. CASE \E r \in queued : StartRecipe(r)
  BY <1>6 DEF RequestStep, StartRecipe, queues
<1>7. CASE \E r \in running : Recipe(r)
  <2>1. PICK r \in running, effect \in Effects : FinishRecipe(r, effect)
    BY <1>7 DEF Recipe
  <2>2. PICK ok \in BOOLEAN : ok <=> effect \in {"touches", "nothing"}
    <3>1. CASE effect \in {"touches", "nothing"}
      BY <3>1
    <3>2. CASE effect \notin {"touches", "nothing"}
      BY <3>2
    <3> QED
      BY <3>1, <3>2
  <2>3. Sched!Finish(r, ok) /\ UNCHANGED <<pending_build_requests, attempts>>
    BY <2>1, <2>2 DEF FinishRecipe, Sched!Finish, queues
  <2> QED
    BY <2>3 DEF RequestStep
<1>8. CASE UNCHANGED vars
  BY <1>8 DEF RequestStep, vars, queues
<1>9. CASE MainStep
  BY <1>1, <1>2, <1>3, <1>4, <1>9 DEF MainStep
<1> QED
  BY <1>5, <1>6, <1>7, <1>8, <1>9 DEF Next, WorkerStep, Resting

(* Every step keeps requests new until they are handed over.               *)
LEMMA NextKeepsFresh ==
  ASSUME LInv, FreshOK, [Next]_vars
  PROVE  FreshOK'
<1> USE DEF FreshOK, Sched!Known, Sched!Ended
<1>1. CASE UNCHANGED <<pending_build_requests, attempts, sched>>
  BY <1>1 DEF sched, Handled
<1>2. ASSUME NEW t \in Targets, ProcessTargetBuild(t), UNCHANGED sched
      PROVE  FreshOK'
  <2>1. RequestFor(t).tgt = t /\ RequestFor(t).attempt = attempts[t]
    BY DEF RequestFor
  <2>2. /\ pending_build_requests' \subseteq pending_build_requests \cup {RequestFor(t)}
        /\ attempts \in [Targets -> Nat]
        /\ attempts' = [attempts EXCEPT ![t] = @ + 1]
        /\ pending_build_requests \cup queued \cup running \cup finished \cup returned
             \subseteq Request
    BY <1>2 DEF ProcessTargetBuild, LInv, LoopOK, TypeOK, Sched!TypeOK
  <2>3. \A r \in Request : r.tgt \in Targets /\ r.attempt \in Nat
    BY DEF Request
  <2> HIDE DEF RequestFor
  <2>4. \A r \in Request : r.attempt < attempts[r.tgt] => r.attempt < attempts'[r.tgt]
    BY <2>2, <2>3
  <2>5. RequestFor(t).attempt < attempts'[t]
    BY <2>1, <2>2
  <2>6. RequestFor(t) \notin returned
    BY <2>1, <2>2
  <2>7. Handled' = Handled /\ UNCHANGED <<queued, running, finished, returned, open>>
    BY <1>2 DEF sched, Handled
  <2>8. \A r \in (pending_build_requests \cup Sched!Known)' : r.attempt < attempts'[r.tgt]
    BY <2>1, <2>2, <2>4, <2>5, <2>7
  <2> QED
    BY <2>2, <2>6, <2>7, <2>8
<1>3. CASE Commit /\ UNCHANGED attempts
  BY <1>3 DEF Commit, Sched!Schedule, sched, Handled
<1>4. CASE /\ \E r \in finished : Sched!Return(r)
           /\ UNCHANGED <<pending_build_requests, attempts>>
  BY <1>4 DEF Sched!Return, Handled, LInv, LoopOK, OnePlace
<1>5. CASE /\ \/ \E r \in queued : Sched!Start(r)
              \/ \E r \in running, ok \in BOOLEAN : Sched!Finish(r, ok)
           /\ UNCHANGED <<pending_build_requests, attempts>>
  BY <1>5 DEF Sched!Start, Sched!Finish, Handled
<1> QED
  BY <1>1, <1>2, <1>3, <1>4, <1>5, RequestSteps DEF RequestStep

(* What the loop hands over is always new to the scheduler and the         *)
(* scheduler open: the guards of BuildService, which schedule_builds does  *)
(* not test, exclude nothing that the code does.                           *)
THEOREM BatchesAreTaken ==
  ASSUME CarefulClient
  PROVE  Safety => []BatchIsTaken
<1>1. Init => FreshOK
  BY DEF Init, LoopInit, FreshOK, Handled, Sched!Init, Sched!Known, Sched!Ended
<1>2. LInv /\ FreshOK /\ [Next]_vars => FreshOK'
  BY NextKeepsFresh
<1>3. LInv /\ FreshOK => BatchIsTaken
  BY DEF FreshOK, BatchIsTaken, Sched!Known, Sched!Ended, LInv, LoopOK, OnePlace, Handled
<1> QED
  BY <1>1, <1>2, <1>3, LoopInvariant, PTL DEF Safety
=============================================================================
