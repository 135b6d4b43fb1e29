------------------------- MODULE BuildOutcomeProofs -------------------------
(***************************************************************************)
(* What a call of build_targets achieves: proofs about module BuildTargets *)
(* that start from its inductive invariant, IInv of BuildTargetsProofs.    *)
(***************************************************************************)
EXTENDS BuildTargetsProofs

-----------------------------------------------------------------------------
(* The parts of the second inductive invariant.                            *)

(* What waits or is being built is what the call needs, and all it needs   *)
(* waits, is being built or is built.                                      *)
Needed  == Started \cup Waiting \subseteq Below(requested)
Covered == phase \in {"initial", "get", "consumers"} =>
             Below(requested) \subseteq built_targets \cup Waiting \cup Started

(* The loop never waits for nothing.                                       *)
SomethingToDo ==
  /\ phase = "initial" => Waiting \cup Started # {}
  /\ phase = "get" => blocked_targets \cup Started # {}

BuiltAcyclic == built_targets \cap Cyclic = {}

OnceInGraph ==
  \A t \in Targets : \A i, j \in DOMAIN deps[t] : deps[t][i] = deps[t][j] => i = j

OInv ==
  /\ Needed
  /\ Covered
  /\ SomethingToDo
  /\ BuiltAcyclic

-----------------------------------------------------------------------------
(* What a step of the loop may do, whatever action it is of.               *)

(* Nothing moves; a recipe may end.                                        *)
Stays ==
  /\ UNCHANGED <<requested, built_targets, status, attempts, outcome, blocked_targets>>
  /\ UNCHANGED mtime \/ \E r \in running, effect \in Effects : FinishRecipe(r, effect)
  /\ Live' = Live /\ Started' = Started /\ Waiting' = Waiting
  /\ \/ phase' = phase
     \/ phase = "initial" /\ phase' = "get" /\ buildable_targets = {}
     \/ phase = "consumers" /\ phase' = "get" /\ Started # {}
     \/ phase' = "discard"

(* A target is processed.                                                  *)
Moves(t) ==
  /\ UNCHANGED <<requested, built_targets, mtime, outcome, phase>>
  /\ phase \in {"initial", "consumers"}
  /\ t \in Waiting /\ DepsOf(t) \subseteq built_targets
  /\ ProcessTargetBuild(t)
  /\ Live' = Live \cup {RequestFor(t)}
  /\ Started' = Started \cup {t} /\ Waiting' = Waiting \ {t}

(* A target is built.                                                      *)
Builds(r) ==
  /\ UNCHANGED <<requested, mtime, attempts, outcome, blocked_targets>>
  /\ phase = "get" /\ phase' = "consumers"
  /\ AcceptResult(r) /\ ~UpdateThrows(r.tgt)
  /\ built_targets' = built_targets \cup {r.tgt}
  /\ r.tgt \in Started
  /\ Live' = Live \ {r} /\ Started' = Started \ {r.tgt} /\ Waiting' = Waiting

(* The call, or what is left of one that failed, is cut short.             *)
CutsShort ==
  /\ UNCHANGED <<requested, built_targets, mtime, attempts>>
  /\ Live' \subseteq Live /\ Started' \subseteq Started /\ Waiting' = {}
  /\ phase' \in {"client", "discard"} /\ outcome' \in {"failed", "error"}
  /\ \/ UNCHANGED status /\ outcome' \in {outcome, "failed"}
     \/ \E t \in Waiting : /\ DepsOf(t) \subseteq built_targets
                            /\ ProcessTargetBuildThrows(t)

(* The call comes to its end.                                              *)
Ends ==
  /\ UNCHANGED <<requested, built_targets, status, mtime, attempts>>
  /\ Started = {} /\ Live' = Live /\ Started' = {} /\ Waiting' = {}
  /\ phase' = "client"
  /\ \/ phase = "consumers" /\ consumers = {} /\ outcome' = LoopOutcome
     \/ phase = "get" /\ outcome' = "idle"

AnyStep ==
  \/ Stays
  \/ \E t \in Targets : Moves(t)
  \/ \E r \in Live : Builds(r)
  \/ CutsShort
  \/ Ends
  \/ \E R \in SUBSET Targets : BuildTargets(R)

(* What is live is a request of a target.                                  *)
LEMMA LiveRequests ==
  ASSUME TypeOK, NEW r \in Live
  PROVE  r \in Request /\ r.tgt \in Targets /\ r.newest_dep_status \in Status
<1>1. r \in Request
  BY DEF Live, Handled, UpToDate, TypeOK, Sched!TypeOK
<1> QED
  BY <1>1 DEF Request

(* process_target_build of a waiting target whose dependencies are built.  *)
LEMMA ProcessMoves ==
  ASSUME IInv, NEW t \in Waiting, ProcessTargetBuild(t),
         phase \in {"initial", "consumers"},
         DepsOf(t) \subseteq built_targets,
         UNCHANGED <<requested, built_targets, mtime, outcome, phase, sched>>,
         Waiting' = Waiting \ {t}
  PROVE  Moves(t)
<1>1. t \in Targets
  BY DEF IInv, LInv, LoopOK, TypeOK, Waiting
<1>2. Live' = Live \cup {RequestFor(t)} /\ Started' = Started \cup {t}
  BY <1>1, ProcessMakesRequest DEF IInv, LInv, LoopOK
<1> QED
  BY <1>2 DEF Moves

(* An exception of process_target_build ends the call.                     *)
LEMMA ThrowCutsShort ==
  ASSUME NEW t \in Waiting, ProcessTargetBuildThrows(t), DepsOf(t) \subseteq built_targets,
         UNCHANGED <<built_targets, mtime, sched>>
  PROVE  CutsShort
<1>1. Live' = Live /\ Started' = Started /\ UNCHANGED attempts
  BY SameLive DEF ProcessTargetBuildThrows
<1>2. UNCHANGED requested /\ Waiting' = {} /\ phase' = "client" /\ outcome' = "error"
  BY DEF ProcessTargetBuildThrows, EndCall, Waiting
<1> QED
  BY <1>1, <1>2 DEF CutsShort

(* The steps that process or count a target.                               *)
LEMMA SortingSteps ==
  ASSUME IInv, NEW t \in Targets, ProcessBuildable(t) \/ Consumer(t)
  PROVE  AnyStep
<1>1. CASE ProcessBuildable(t)
  <2> USE <1>1 DEF ProcessBuildable
  <2>1. t \in Waiting /\ DepsOf(t) \subseteq built_targets
    BY DEF Waiting, IInv, LInv, LoopOK, Ready
  <2>2. CASE ProcessTargetBuildThrows(t)
    BY <2>1, <2>2, ThrowCutsShort DEF AnyStep, files
  <2>3. CASE /\ ProcessTargetBuild(t)
             /\ buildable_targets' = buildable_targets \ {t}
             /\ UNCHANGED <<call, blocked_targets, built_tgt, consumers>>
    <3>1. Waiting' = Waiting \ {t}
      BY <2>3 DEF Waiting, IInv, LInv, LoopOK, OneState
    <3> QED
      BY <2>1, <2>3, <3>1, ProcessMoves DEF AnyStep, call, files
  <2> QED
    BY <2>2, <2>3
<1>2. CASE Consumer(t)
  <2> USE <1>2 DEF Consumer
  <2>1. CASE ~(Awaited(t) /\ Complete(t))
    <3>1. Live' = Live /\ Started' = Started
      BY <2>1, SameLive
    <3>2. Stays
      BY <2>1, <3>1 DEF Stays, Waiting, call, files
    <3> QED
      BY <3>2 DEF AnyStep
  <2>2. CASE Awaited(t) /\ Complete(t)
    <3>1. t \in Waiting /\ DepsOf(t) \subseteq built_targets
      BY <2>2, ConsumerIsReady DEF IInv, Awaited, Waiting
    <3>2. CASE ProcessTargetBuildThrows(t)
      BY <3>1, <3>2, ThrowCutsShort DEF AnyStep, files
    <3>3. CASE /\ ProcessTargetBuild(t)
               /\ blocked_targets' = blocked_targets \ {t}
               /\ UNCHANGED <<call, buildable_targets, built_tgt>>
      <4>1. Waiting' = Waiting \ {t}
        BY <2>2, <3>3 DEF Waiting, IInv, LInv, LoopOK, OneState, Awaited
      <4> QED
        BY <3>1, <3>3, <4>1, ProcessMoves DEF AnyStep, call, files
    <3> QED
      BY <2>2, <3>2, <3>3
  <2> QED
    BY <2>1, <2>2
<1> QED
  BY <1>1, <1>2

(* The steps that commit a batch.                                          *)
LEMMA CommitSteps ==
  ASSUME IInv, CommitInitial \/ CommitLoop
  PROVE  AnyStep
<1>1. CASE CommitInitial
  <2> USE <1>1 DEF CommitInitial
  <2>1. Live' = Live /\ Started' = Started
    BY CommitMoves DEF IInv
  <2>2. Stays
    BY <2>1 DEF Stays, Waiting, locals, files
  <2> QED
    BY <2>2 DEF AnyStep
<1>2. CASE CommitLoop
  <2> USE <1>2 DEF CommitLoop
  <2>1. /\ Handled' = Handled \cup pending_build_requests /\ UpToDate' = UpToDate
        /\ Live' = Live /\ Started' = Started /\ pending_build_requests' = {}
    BY CommitMoves DEF IInv
  <2>2. CASE up_to_date_targets # <<>> \/ Handled' # {}
    <3>1. Live # {}
      <4>1. CASE up_to_date_targets # <<>>
        <5>1. up_to_date_targets[1] \in UpToDate
          BY <4>1 DEF UpToDate, IInv, LInv, LoopOK, TypeOK
        <5> QED
          BY <5>1 DEF Live
      <4>2. CASE Handled' # {}
        BY <2>1, <4>2 DEF Live
      <4> QED
        BY <2>2, <4>1, <4>2
    <3>2. Started # {}
      BY <3>1 DEF Started
    <3> QED
      BY <2>1, <2>2, <3>2 DEF AnyStep, Stays, Waiting, files
  <2>3. CASE up_to_date_targets = <<>> /\ Handled' = {}
    <3>1. UpToDate' = {}
      BY <2>1, <2>3 DEF UpToDate
    <3>2. Live' = {} /\ Live = {}
      BY <2>1, <2>3, <3>1 DEF Live
    <3>3. Started' = {} /\ Started = {}
      BY <3>2 DEF Started
    <3> QED
      BY <2>3, <3>2, <3>3 DEF AnyStep, Ends, EndCall, Waiting, files
  <2> QED
    BY <2>2, <2>3
<1> QED
  BY <1>1, <1>2

(* A result accepted, or refused, leaves its place among those live.       *)
LEMMA ResultSteps ==
  ASSUME IInv, phase = "get", NEW r \in Live, Live' \subseteq Live,
         UNCHANGED <<mtime, attempts>>,
         \/ AcceptResult(r) /\ ~UpdateThrows(r.tgt) /\ Live' = Live \ {r}
         \/ EndCall("failed") /\ UNCHANGED <<status, built_targets>>
  PROVE  AnyStep
<1>1. CASE AcceptResult(r) /\ ~UpdateThrows(r.tgt) /\ Live' = Live \ {r}
  <2>1. r.tgt \in Started /\ Started' = Started \ {r.tgt}
    BY <1>1 DEF IInv, LInv, LoopOK, OneState, Started
  <2>2. Builds(r)
    BY <1>1, <2>1 DEF Builds, AcceptResult, Waiting
  <2> QED
    BY <2>2 DEF AnyStep
<1>2. CASE EndCall("failed") /\ UNCHANGED <<status, built_targets>>
  <2>1. Started' \subseteq Started
    BY DEF Started
  <2>2. CutsShort
    BY <1>2, <2>1 DEF CutsShort, EndCall, Waiting
  <2> QED
    BY <2>2 DEF AnyStep
<1> QED
  BY <1>1, <1>2

(* The steps that take or discard a result.                                *)
LEMMA GetSteps ==
  ASSUME IInv,
         \/ GetUpToDate
         \/ \E r \in finished : GetResult(r) \/ DiscardResult(r)
         \/ GetThrowsIdle
  PROVE  AnyStep
<1> USE DEF IInv, LInv, LoopOK
<1>1. CASE GetUpToDate
  <2> DEFINE n    == Len(up_to_date_targets)
             last == up_to_date_targets[n]
  <2> USE <1>1 DEF GetUpToDate
  <2>1. /\ up_to_date_targets \in Seq(Request) /\ n \in Nat /\ n # 0
        /\ DOMAIN up_to_date_targets = 1..n /\ last \in UpToDate
    BY DEF TypeOK, UpToDate
  <2>2. DOMAIN up_to_date_targets' = 1..(n - 1)
        /\ \A i \in 1..(n - 1) : up_to_date_targets'[i] = up_to_date_targets[i]
    BY <2>1
  <2>3. \A i \in 1..(n - 1) : up_to_date_targets[i] # last
    BY <2>1 DEF OnePlace
  <2>4. UpToDate' = UpToDate \ {last}
    <3>1. UpToDate = {up_to_date_targets[i] : i \in 1..n}
      BY <2>1 DEF UpToDate
    <3>2. UpToDate' = {up_to_date_targets[i] : i \in 1..(n - 1)}
      BY <2>2 DEF UpToDate
    <3>3. 1..n = 1..(n - 1) \cup {n}
      BY <2>1
    <3> HIDE DEF n
    <3>4. last = up_to_date_targets[n]
      BY DEF n
    <3> HIDE DEF last
    <3> QED
      BY <2>3, <3>1, <3>2, <3>3, <3>4
  <2>5. Live' = Live \ {last} /\ last \in Live
    BY <2>1, <2>4 DEF Live, Handled, sched, OnePlace
  <2>6. \/ AcceptResult(last) /\ ~UpdateThrows(last.tgt)
        \/ EndCall("failed") /\ UNCHANGED <<status, built_targets>>
    OBVIOUS
  <2>7. phase = "get" /\ UNCHANGED <<mtime, attempts>>
    BY DEF files
  <2> HIDE DEF last
  <2> QED
    BY <2>5, <2>6, <2>7, ResultSteps
<1>2. ASSUME NEW r \in finished, GetResult(r)
      PROVE  AnyStep
  <2> USE <1>2 DEF GetResult, Sched!Return
  <2>1. Live' = Live \ {r} /\ r \in Live
    BY DEF Live, Handled, UpToDate, queues, OnePlace
  <2>2. UNCHANGED <<mtime, attempts>>
    BY DEF files
  <2> QED
    BY <2>1, <2>2, ResultSteps
<1>3. ASSUME NEW r \in finished, DiscardResult(r)
      PROVE  AnyStep
  <2> USE <1>3 DEF DiscardResult, Sched!Return
  <2>1. Live' \subseteq Live
    BY DEF Live, Handled, UpToDate, queues
  <2>2. Started' \subseteq Started
    BY <2>1 DEF Started
  <2>3. outcome \in {"failed", "error"} /\ outcome' = outcome /\ Waiting' = {}
    BY DEF CallsOK, LocalsOK, Waiting, locals
  <2> QED
    BY <2>1, <2>2, <2>3 DEF AnyStep, CutsShort, files
<1>4. CASE GetThrowsIdle
  <2> USE <1>4 DEF GetThrowsIdle
  <2>1. Live' = Live /\ UpToDate = {}
    BY SameLive DEF UpToDate
  <2>2. Live = {}
    BY <2>1 DEF Live, LocalsOK
  <2>3. Started = {} /\ Started' = {}
    BY <2>1, <2>2 DEF Started
  <2> QED
    BY <2>1, <2>3 DEF AnyStep, Ends, EndCall, Waiting, files
<1> QED
  BY <1>1, <1>2, <1>3, <1>4

(* The steps of the workers, and those at which nothing moves.             *)
LEMMA OtherSteps ==
  ASSUME IInv,
         \/ StartDiscarding
         \/ \E r \in queued : StartRecipe(r)
         \/ \E r \in running : Recipe(r)
         \/ Resting
         \/ UNCHANGED vars
  PROVE  AnyStep
<1>1. UpToDate' = UpToDate /\ pending_build_requests' = pending_build_requests
  BY DEF StartDiscarding, StartRecipe, Recipe, FinishRecipe, Resting, vars, queues,
         UpToDate
<1>2. Handled' = Handled
  <2>1. CASE \E r \in queued : StartRecipe(r)
    BY <2>1 DEF StartRecipe, Sched!Start, Handled
  <2>2. CASE \E r \in running : Recipe(r)
    BY <2>2 DEF Recipe, FinishRecipe, Sched!Finish, Handled
  <2>3. CASE StartDiscarding \/ Resting \/ UNCHANGED vars
    BY <2>3 DEF StartDiscarding, Resting, vars, sched, Handled
  <2> QED
    BY <2>1, <2>2, <2>3
<1>3. Live' = Live /\ Started' = Started
  BY <1>1, <1>2 DEF Started, Live
<1>4. UNCHANGED mtime \/ \E r \in running, effect \in Effects : FinishRecipe(r, effect)
  BY DEF StartDiscarding, StartRecipe, Recipe, Resting, vars, files
<1>5. UNCHANGED <<requested, built_targets, status, attempts, outcome, locals>>
  BY DEF StartDiscarding, StartRecipe, Recipe, FinishRecipe, Resting, vars, call,
         locals
<1>6. phase' = phase \/ phase' = "discard"
  BY DEF StartDiscarding, StartRecipe, Recipe, FinishRecipe, Resting, vars, call
<1>7. Stays
  BY <1>3, <1>4, <1>5, <1>6 DEF locals, Stays, Waiting
<1> QED
  BY <1>7 DEF AnyStep

(* The summary is complete: every step that is not a call is one of its    *)
(* kinds, and calls are kept as they are.                                  *)
LEMMA EveryStep ==
  ASSUME IInv, [Next]_vars
  PROVE  AnyStep
<1>1. CASE \E R \in SUBSET Targets : BuildTargets(R)
  BY <1>1 DEF AnyStep
<1> QED
  BY <1>1, SortingSteps, CommitSteps, GetSteps, OtherSteps
     DEF Next, MainStep, ClientCall, WorkerStep

-----------------------------------------------------------------------------
(* The graph.                                                              *)

(* What the reference notions say stays while the graph stays.             *)
LEMMA SameNotions ==
  ASSUME UNCHANGED graph
  PROVE  /\ \A R : Below(R)' = Below(R)
         /\ Cyclic' = Cyclic
         /\ OnceInGraph => OnceInGraph'
BY SameGraph DEF Below, Cyclic, OnceInGraph, graph

(* Below(R) has R and what its members need.                               *)
LEMMA BelowIsClosed ==
  ASSUME NEW R \in SUBSET Targets, TypeOK
  PROVE  /\ R \subseteq Below(R)
         /\ Below(R) \subseteq Targets
         /\ \A n \in Below(R) : DepsOf(n) \subseteq Below(R)
<1>1. \A n \in Targets : DepsOf(n) \subseteq Targets
  BY FiniteDeps
<1> QED
  BY <1>1 DEF Below

(* Below(R) is the least such set.                                         *)
LEMMA BelowIsLeast ==
  ASSUME NEW R, NEW N \in SUBSET Targets, R \subseteq N,
         \A n \in N : DepsOf(n) \subseteq N
  PROVE  Below(R) \subseteq N
BY DEF Below

(* get_all_dependencies_of stops at targets that are built, and loses      *)
(* nothing by it.                                                          *)
LEMMA VisitedOrBuilt ==
  ASSUME IInv, NEW R \in SUBSET Targets
  PROVE  /\ VisitedFrom(R) \subseteq Below(R)
         /\ Below(R) \subseteq built_targets \cup VisitedFrom(R)
<1> DEFINE V == VisitedFrom(R)
<1>1. \A n \in Targets : DepsOf(n) \subseteq Targets
  BY FiniteDeps DEF IInv, LInv, LoopOK
<1>2. /\ R \ built_targets \subseteq V
      /\ \A n \in V : DepsOf(n) \ built_targets \subseteq V
      /\ V \subseteq Targets
  BY <1>1 DEF VisitedFrom
<1>3. V \subseteq Below(R)
  <2>1. /\ R \subseteq Below(R) /\ Below(R) \subseteq Targets
        /\ \A n \in Below(R) : DepsOf(n) \subseteq Below(R)
    BY BelowIsClosed DEF IInv, LInv, LoopOK
  <2> QED
    BY <2>1 DEF VisitedFrom
<1> HIDE DEF V
<1>4. \A n \in built_targets : DepsOf(n) \subseteq built_targets
  BY DEF IInv, LInv, LoopOK, Ready
<1>5. built_targets \subseteq Targets
  BY DEF IInv, LInv, LoopOK, TypeOK
<1>6. Below(R) \subseteq built_targets \cup V
  <2> DEFINE N == built_targets \cup V
  <2>1. N \in SUBSET Targets /\ R \subseteq N
    BY <1>2, <1>5
  <2>2. \A n \in N : DepsOf(n) \subseteq N
    BY <1>2, <1>4
  <2> HIDE DEF N
  <2>3. Below(R) \subseteq N
    BY <2>1, <2>2, BelowIsLeast
  <2> QED
    BY <2>3 DEF N
<1> QED
  BY <1>3, <1>6 DEF V

(* A target whose dependencies are built is on no cycle, nor above one.    *)
LEMMA ReadyIsAcyclic ==
  ASSUME BuiltAcyclic, NEW t \in Targets, DepsOf(t) \subseteq built_targets
  PROVE  t \notin Cyclic
<1>1. SUFFICES ASSUME NEW S \in SUBSET Targets, t \in S,
                      \A s \in S : DepsOf(s) \cap S # {}
               PROVE  FALSE
  BY DEF Cyclic
<1>2. PICK d \in DepsOf(t) : d \in S
  BY <1>1
<1>3. d \in Cyclic
  BY <1>1, <1>2 DEF Cyclic
<1> QED
  BY <1>2, <1>3 DEF BuiltAcyclic

-----------------------------------------------------------------------------
(* The second invariant is inductive.                                      *)

(* Before the first call nothing is needed, and nothing waits.             *)
LEMMA FreshOInv ==
  ASSUME LoopInit
  PROVE  OInv
<1> USE DEF LoopInit
<1>1. Live = {} /\ Waiting = {}
  BY DEF Live, Waiting, Handled, UpToDate, Sched!Init
<1>2. Started = {}
  BY <1>1 DEF Started
<1> QED
  BY <1>1, <1>2 DEF OInv, Needed, Covered, SomethingToDo, BuiltAcyclic

(* build_targets sorts out exactly what the call needs.                    *)
LEMMA CallKeepsOInv ==
  ASSUME CarefulClient, IInv, OInv, NEW R \in SUBSET Targets, BuildTargets(R)
  PROVE  OInv'
<1> USE DEF BuildTargets
<1>1. Live = {} /\ phase = "client" /\ Waiting = {}
  BY QuietAtCall DEF MayCall, IInv, LInv, LoopOK, LocalsOK, Waiting
<1>2. Live' = {} /\ Started' = {}
  BY <1>1, SameLive DEF Started
<1>3. Below(R)' = Below(R) /\ Cyclic' = Cyclic /\ requested' = R
  BY SameNotions
<1>4. \/ Waiting' = {} /\ phase' = "client"
      \/ Waiting' = VisitedFrom(R) /\ Waiting' # {} /\ phase' = "initial"
  BY <1>1 DEF Waiting
<1>5. Below(requested)' = Below(R)
  BY <1>3 DEF Below
<1>6. Needed' /\ Covered'
  BY <1>2, <1>4, <1>5, VisitedOrBuilt DEF Needed, Covered
<1>7. SomethingToDo' /\ BuiltAcyclic'
  BY <1>2, <1>3, <1>4 DEF SomethingToDo, BuiltAcyclic, OInv
<1> QED
  BY <1>6, <1>7 DEF OInv

(* Every step keeps the second invariant.                                  *)
LEMMA NextKeepsOInv ==
  ASSUME CarefulClient, IInv, OInv, [Next]_vars
  PROVE  OInv'
<1> USE DEF OInv
<1>1. UNCHANGED graph
  BY GraphStays
<1>2. Cyclic' = Cyclic /\ (UNCHANGED requested => Below(requested)' = Below(requested))
  BY <1>1, SameNotions DEF Below, DepsOf, graph
<1>3. CASE Stays
  <2>1. Needed' /\ Covered' /\ BuiltAcyclic'
    BY <1>2, <1>3 DEF Stays, Needed, Covered, BuiltAcyclic
  <2>2. SomethingToDo'
    BY <1>3 DEF Stays, SomethingToDo, Waiting
  <2> QED
    BY <2>1, <2>2
<1>4. ASSUME NEW t \in Targets, Moves(t)
      PROVE  OInv'
  BY <1>2, <1>4 DEF Moves, Needed, Covered, SomethingToDo, BuiltAcyclic
<1>5. ASSUME NEW r \in Live, Builds(r)
      PROVE  OInv'
  <2>1. Needed' /\ Covered' /\ SomethingToDo'
    <3>1. /\ Below(requested)' = Below(requested)
          /\ phase = "get" /\ phase' = "consumers"
          /\ built_targets' = built_targets \cup {r.tgt}
          /\ Started' = Started \ {r.tgt} /\ Waiting' = Waiting
      BY <1>2, <1>5 DEF Builds
    <3> QED
      BY <3>1 DEF Needed, Covered, SomethingToDo
  <2>2. r.tgt \notin Cyclic
    BY <1>5, LiveRequests, ReadyIsAcyclic DEF Builds, IInv, LInv, LoopOK, Ready
  <2> QED
    BY <1>2, <1>5, <2>1, <2>2 DEF Builds, BuiltAcyclic
<1>6. CASE CutsShort
  BY <1>2, <1>6 DEF CutsShort, Needed, Covered, SomethingToDo, BuiltAcyclic
<1>7. CASE Ends
  BY <1>2, <1>7 DEF Ends, Needed, Covered, SomethingToDo, BuiltAcyclic
<1>8. CASE \E R \in SUBSET Targets : BuildTargets(R)
  BY <1>8, CallKeepsOInv
<1> QED
  BY <1>3, <1>4, <1>5, <1>6, <1>7, <1>8, EveryStep DEF AnyStep

(* The second invariant; like the first, for any graph, files, workers and *)
(* recipes.                                                                *)
THEOREM ProgressInvariant ==
  ASSUME LinksAgree, CarefulClient
  PROVE  Safety => [](IInv /\ OInv)
<1>1. Init => OInv
  BY FreshOInv DEF Init
<1>2. IInv /\ OInv /\ [Next]_vars => OInv'
  BY NextKeepsOInv
<1> QED
  BY <1>1, <1>2, LinkedInvariant, PTL DEF Safety

-----------------------------------------------------------------------------
(* What follows.                                                           *)

(* Whatever is under way is for what the last call asked for: finishing a  *)
(* target never starts a consumer the call does not need.                  *)
THEOREM OnlyWhatIsNeeded ==
  ASSUME LinksAgree, CarefulClient
  PROVE  Safety => []NothingUnneeded
<1>1. OInv => NothingUnneeded
  BY DEF OInv, Needed, NothingUnneeded, Started, Live
<1> QED
  BY <1>1, ProgressInvariant, PTL

(* The counters of resolved targets are right at every moment, over any    *)
(* number of calls.                                                        *)
THEOREM CountersAreRight ==
  ASSUME LinksAgree, CarefulClient
  PROVE  Safety => []CountersAgree
<1>1. IInv => CountersAgree
  BY DEF IInv, LInv, LoopOK, CountsOK, CountersAgree, Counted
<1> QED
  BY <1>1, LinkedInvariant, PTL

(* Lists of dependencies stay without repetitions.                         *)
LEMMA GraphNamesOnce ==
  ASSUME NamedOnce
  PROVE  Safety => []OnceInGraph
<1>1. Init => OnceInGraph
  BY DEF Init, NamedOnce, OnceInGraph
<1>2. OnceInGraph /\ [Next]_vars => OnceInGraph'
  BY GraphStays, SameNotions
<1> QED
  BY <1>1, <1>2, PTL DEF Safety

(* Once the loop over consumers is done, a blocked target lacks something. *)
LEMMA BlockedLacksSomething ==
  ASSUME IInv, OnceInGraph, phase \in {"get", "consumers"}, consumers = {},
         NEW t \in blocked_targets
  PROVE  ~(DepsOf(t) \subseteq built_targets)
<1>1. SUFFICES ASSUME DepsOf(t) \subseteq built_targets
               PROVE  FALSE
  OBVIOUS
<1>2. t \in resolved /\ t \in Targets /\ outcome = "none"
  BY DEF IInv, LInv, LoopOK, OneState, Waiting, TypeOK, CallsOK
<1>3. Counted(t) = DepsOf(t)
  BY <1>1 DEF Counted
<1>4. deps[t] \in Seq(Targets)
  BY <1>2 DEF IInv, LInv, LoopOK, TypeOK
<1>5. \A i, j \in DOMAIN deps[t] : deps[t][i] = deps[t][j] => i = j
  BY <1>2 DEF OnceInGraph
<1>6. Cardinality(Range(deps[t])) = Len(deps[t])
  BY <1>4, <1>5, ElementsCounted
<1>7. DepsOf(t) = Range(deps[t])
  BY DEF DepsOf, Range
<1> QED
  BY <1>2, <1>3, <1>6, <1>7 DEF IInv, LInv, LoopOK, CountsOK

(* While the main thread waits for results, every blocked target lacks a   *)
(* dependency: no order of results makes the loop forget one.              *)
THEOREM NothingReadyIsKept ==
  ASSUME LinksAgree, CarefulClient, NamedOnce
  PROVE  Safety => []NothingReadyWaits
<1>1. IInv /\ OnceInGraph => NothingReadyWaits
  BY BlockedLacksSomething DEF NothingReadyWaits, IInv, LInv, LoopOK, LocalsOK
<1> QED
  BY <1>1, LinkedInvariant, GraphNamesOnce, PTL

(* Where a call comes to its end, what is blocked is a cycle or above one. *)
LEMMA EndingIsRight ==
  ASSUME IInv, OInv, OnceInGraph, Ends, UNCHANGED graph
  PROVE  EndsRight'
<1> DEFINE B == Below(requested)
<1> USE DEF Ends
<1>1. B' = B /\ Cyclic' = Cyclic
  BY SameNotions DEF Below, DepsOf, graph
<1>2. consumers = {} /\ Waiting = blocked_targets
  BY DEF IInv, LInv, LoopOK, LocalsOK, Waiting
<1>3. requested \subseteq Targets /\ TypeOK /\ blocked_targets \subseteq Targets
  BY DEF IInv, LInv, LoopOK, TypeOK
<1>4. /\ B \subseteq built_targets \cup blocked_targets
      /\ blocked_targets \subseteq B
  BY <1>2 DEF OInv, Covered, Needed
<1>5. \A s \in blocked_targets : DepsOf(s) \cap blocked_targets # {}
  <2>1. TAKE s \in blocked_targets
  <2>2. PICK d \in DepsOf(s) : d \notin built_targets
    BY <1>2, BlockedLacksSomething
  <2>3. d \in B
    BY <1>3, <1>4, <2>2, BelowIsClosed
  <2> QED
    BY <1>4, <2>2, <2>3
<1>6. blocked_targets \subseteq Cyclic
  BY <1>3, <1>5 DEF Cyclic
<1>7. built_targets \cap Cyclic = {} /\ built_targets \cap blocked_targets = {}
  BY <1>2 DEF OInv, BuiltAcyclic, IInv, LInv, LoopOK, OneState
<1>8. outcome' = "ok" <=> blocked_targets = {}
  BY DEF LoopOutcome, OInv, SomethingToDo
<1> HIDE DEF B
<1>9. /\ B \cap built_targets = B \ Cyclic
      /\ blocked_targets = {} <=> B \cap Cyclic = {}
  BY <1>4, <1>6, <1>7
<1> QED
  BY <1>1, <1>8, <1>9 DEF EndsRight, B

(* Nothing is left to build if what was asked for is built already.        *)
LEMMA NothingToBuildIsRight ==
  ASSUME CarefulClient, IInv, OInv, NEW R \in SUBSET Targets, BuildTargets(R)
  PROVE  EndsRight'
<1> USE DEF BuildTargets
<1>1. Below(requested)' = Below(R) /\ Cyclic' = Cyclic
  BY SameNotions DEF Below, DepsOf, graph
<1>2. CASE VisitedFrom(R) = {}
  <2>1. Below(R) \subseteq built_targets
    BY <1>2, VisitedOrBuilt
  <2>2. outcome' = "ok" \/ outcome' = "unresolved" \/ phase' = "initial"
    OBVIOUS
  <2> QED
    BY <1>1, <2>1, <2>2 DEF EndsRight, OInv, BuiltAcyclic
<1>3. CASE VisitedFrom(R) # {}
  BY <1>3 DEF EndsRight
<1> QED
  BY <1>2, <1>3

(* Every step keeps the verdict of the last call right.                    *)
LEMMA NextKeepsVerdict ==
  ASSUME IInv, OInv, OnceInGraph, EndsRight, CarefulClient, [Next]_vars
  PROVE  EndsRight'
<1>1. UNCHANGED graph
  BY GraphStays
<1>2. CASE Stays
  <2>1. phase' = "client" => phase = "client"
    BY <1>2 DEF Stays
  <2>2. Below(requested)' = Below(requested) /\ Cyclic' = Cyclic
    BY <1>1, <1>2, SameNotions DEF Below, DepsOf, graph, Stays
  <2> QED
    BY <1>2, <2>1, <2>2 DEF Stays, EndsRight
<1>3. CASE (\E t \in Targets : Moves(t)) \/ (\E r \in Live : Builds(r))
  BY <1>3 DEF Moves, Builds, EndsRight
<1>4. CASE CutsShort
  BY <1>4 DEF CutsShort, EndsRight
<1>5. CASE Ends
  BY <1>1, <1>5, EndingIsRight
<1>6. CASE \E R \in SUBSET Targets : BuildTargets(R)
  BY <1>6, NothingToBuildIsRight
<1> QED
  BY <1>2, <1>3, <1>4, <1>5, <1>6, EveryStep DEF AnyStep

(* The promise of build_targets, for every graph without repetitions: a    *)
(* call that no recipe fails builds exactly what does not depend on a      *)
(* cycle, and says whether that was all.                                   *)
THEOREM CallsEndRight ==
  ASSUME LinksAgree, CarefulClient, NamedOnce
  PROVE  Safety => []EndsRight
<1>1. Init => EndsRight
  BY DEF Init, LoopInit, EndsRight
<1>2. IInv /\ OInv /\ OnceInGraph /\ EndsRight /\ [Next]_vars => EndsRight'
  BY NextKeepsVerdict
<1> QED
  BY <1>1, <1>2, ProgressInvariant, GraphNamesOnce, PTL DEF Safety

-----------------------------------------------------------------------------
(* What statuses tell.                                                     *)

(* As a dependency of a file of this time e makes it out of date.          *)
Bad(e, time) ==
  kind[e] = "phony" \/ (HasFile(e) /\ (mtime[e] = 0 \/ time < mtime[e]))

HandsOn(t) == kind[t] \in {"alias", "read_only"}

(* The status s of t makes out of date what t does, or what is seen        *)
(* through it.                                                             *)
Tells(s, t) ==
  /\ Decided(s)
  /\ \A time \in 0..MaxTime :
       Outdates(s, time) <=>
         Bad(t, time) \/ (HandsOn(t) /\ \E e \in SeenFrom(t) : Bad(e, time))

(* The final status of a target tells the truth about the files of now,    *)
(* and so will the one that a target being built is going to have.         *)
FinalTell == \A d \in built_targets : Tells(status[d], d)
LiveTell ==
  \A r \in Live :
    /\ kind[r.tgt] = "phony" => status[r.tgt] = ExplicitlyNeedsUpdate
    /\ kind[r.tgt] = "read_only" => status[r.tgt] = FileStatus(r.tgt)
    /\ HandsOn(r.tgt) => Tells(r.newest_dep_status, r.tgt)

SInv == FinalTell /\ LiveTell

(* SeenFrom(t) has the dependencies of t, and of those that hand on a      *)
(* status.                                                                 *)
LEMMA SeenIsClosed ==
  ASSUME TypeOK, NEW t \in Targets
  PROVE  /\ SeenFrom(t) \subseteq Targets
         /\ DepsOf(t) \subseteq SeenFrom(t)
         /\ \A n \in SeenFrom(t) : HandsOn(n) => DepsOf(n) \subseteq SeenFrom(t)
<1>1. \A n \in Targets : DepsOf(n) \subseteq Targets
  BY FiniteDeps
<1> QED
  BY <1>1 DEF SeenFrom, HandsOn

(* SeenFrom(t) is the least such set.                                      *)
LEMMA SeenIsLeast ==
  ASSUME NEW t, NEW N \in SUBSET Targets, DepsOf(t) \subseteq N,
         \A n \in N : HandsOn(n) => DepsOf(n) \subseteq N
  PROVE  SeenFrom(t) \subseteq N
BY DEF SeenFrom, HandsOn

(* What is seen from t is its dependencies, and what is seen through them. *)
LEMMA SeenThroughDeps ==
  ASSUME TypeOK, NEW t \in Targets
  PROVE  \A e : e \in SeenFrom(t) <=>
                  \E d \in DepsOf(t) : e = d \/ (HandsOn(d) /\ e \in SeenFrom(d))
<1> DEFINE N == {e \in Targets :
                   \E d \in DepsOf(t) : e = d \/ (HandsOn(d) /\ e \in SeenFrom(d))}
<1>1. \A n \in Targets : DepsOf(n) \subseteq Targets
  BY FiniteDeps
<1>2. SeenFrom(t) \subseteq N
  <2>1. N \in SUBSET Targets /\ DepsOf(t) \subseteq N
    BY <1>1
  <2>2. ASSUME NEW n \in N, HandsOn(n)
        PROVE  DepsOf(n) \subseteq N
    <3>1. PICK d \in DepsOf(t) : n = d \/ (HandsOn(d) /\ n \in SeenFrom(d))
      OBVIOUS
    <3>2. d \in Targets /\ HandsOn(d)
      BY <1>1, <2>2, <3>1
    <3>3. DepsOf(n) \subseteq SeenFrom(d)
      BY <2>2, <3>1, <3>2, SeenIsClosed
    <3> QED
      BY <1>1, <2>2, <3>2, <3>3
  <2> HIDE DEF N
  <2> QED
    BY <2>1, <2>2, SeenIsLeast
<1>3. ASSUME NEW d \in DepsOf(t), HandsOn(d)
      PROVE  SeenFrom(d) \subseteq SeenFrom(t)
  <2>1. DepsOf(d) \subseteq SeenFrom(t) /\ SeenFrom(t) \in SUBSET Targets
    BY <1>3, SeenIsClosed
  <2> QED
    BY <2>1, SeenIsClosed, SeenIsLeast
<1> QED
  BY <1>2, <1>3, SeenIsClosed

(* What a target with built dependencies sees is built.                    *)
LEMMA SeenAreBuilt ==
  ASSUME IInv, NEW t, DepsOf(t) \subseteq built_targets
  PROVE  SeenFrom(t) \subseteq built_targets
<1>1. built_targets \in SUBSET Targets
  BY DEF IInv, LInv, LoopOK, TypeOK
<1>2. \A n \in built_targets : DepsOf(n) \subseteq built_targets
  BY DEF IInv, LInv, LoopOK, Ready
<1> QED
  BY <1>1, <1>2, SeenIsLeast

(* initialize_status looks at the file of the target alone.                *)
LEMMA InitialStatusTells ==
  ASSUME TypeOK, NEW t \in Targets, NEW time \in 0..MaxTime
  PROVE  Outdates(InitialStatus(t), time) <=> Bad(t, time)
<1>1. kind[t] \in TargetKinds /\ mtime[t] \in 0..MaxTime
  BY DEF TypeOK
<1> QED
  BY <1>1 DEF InitialStatus, FileStatus, Outdates, CertainlyNeedsUpdate, Bad, HasFile,
              ExplicitlyNeedsUpdate, TransitivelyNeedsUpdate, FileModTime, TargetKinds

(* The statuses the decision about t looks at are final.                   *)
LEMMA DepStatusesAreFinal ==
  ASSUME IInv, FinalTell, NEW t \in Targets, DepsOf(t) \subseteq built_targets,
         t \notin built_targets
  PROVE  /\ DepStatuses(t) \in Seq(Status)
         /\ \A i \in DOMAIN DepStatuses(t) : Decided(DepStatuses(t)[i])
         /\ \A time \in 0..MaxTime :
              (\E i \in DOMAIN DepStatuses(t) : Outdates(DepStatuses(t)[i], time))
                <=> \E e \in SeenFrom(t) : Bad(e, time)
         /\ DepStatuses(t) = <<>> <=> deps[t] = <<>>
<1>1. TypeOK /\ deps[t] \in Seq(Targets)
  BY DEF IInv, LInv, LoopOK, TypeOK
<1>2. DepStatuses(t) \in Seq(Status)
  BY <1>1, PreparedType
<1>3. DOMAIN DepStatuses(t) = DOMAIN deps[t]
  BY DEF DepStatuses
<1>4. \A i \in DOMAIN deps[t] : /\ deps[t][i] \in DepsOf(t)
                                /\ DepStatuses(t)[i] = status[deps[t][i]]
  <2>1. \A d \in DepsOf(t) : Prepared(t)[d] = status[d]
    BY <1>1, FiniteDeps DEF Prepared, TypeOK
  <2> QED
    BY <2>1 DEF DepStatuses, DepsOf
<1>5. \A d \in DepsOf(t) : \E i \in DOMAIN deps[t] : deps[t][i] = d
  BY DEF DepsOf
<1>6. \A d \in DepsOf(t) : Tells(status[d], d)
  BY DEF FinalTell
<1>7. ASSUME NEW time \in 0..MaxTime
      PROVE  (\E i \in DOMAIN DepStatuses(t) : Outdates(DepStatuses(t)[i], time))
               <=> \E e \in SeenFrom(t) : Bad(e, time)
  <2>1. (\E i \in DOMAIN DepStatuses(t) : Outdates(DepStatuses(t)[i], time))
          <=> \E d \in DepsOf(t) : Outdates(status[d], time)
    BY <1>3, <1>4, <1>5
  <2>2. \A d \in DepsOf(t) :
          Outdates(status[d], time) <=>
            Bad(d, time) \/ (HandsOn(d) /\ \E e \in SeenFrom(d) : Bad(e, time))
    BY <1>6 DEF Tells
  <2> QED
    BY <1>1, <2>1, <2>2, SeenThroughDeps
<1>8. DepStatuses(t) = <<>> <=> deps[t] = <<>>
  BY <1>1, <1>2, <1>3
<1> QED
  BY <1>2, <1>3, <1>4, <1>6, <1>7, <1>8 DEF Tells

(* get_worst_dep_status sees exactly what the decision must look at.       *)
LEMMA WorstTells ==
  ASSUME IInv, FinalTell, NEW t \in Targets, DepsOf(t) \subseteq built_targets,
         t \notin built_targets
  PROVE  /\ \A time \in 0..MaxTime :
              Outdates(WorstStatus(t), time) <=>
                Bad(t, time) \/ \E e \in SeenFrom(t) : Bad(e, time)
         /\ kind[t] # "alias" \/ deps[t] # <<>> => Decided(WorstStatus(t))
<1>1. InitialStatus(t) \in Status /\ Initialized(InitialStatus(t)) /\ TypeOK
  BY InitialStatusType DEF IInv, LInv, LoopOK
<1>2. kind[t] # "alias" => Decided(InitialStatus(t))
  BY <1>1 DEF InitialStatus, FileStatus, Decided, ExplicitlyNeedsUpdate, FileModTime,
              TypeOK, TargetKinds
<1>3. Times \subseteq Int /\ 0..MaxTime \subseteq Int
  BY BoundsAssumption
<1>4. ASSUME NEW time \in 0..MaxTime
      PROVE  Outdates(WorstStatus(t), time) <=>
               Bad(t, time) \/ \E e \in SeenFrom(t) : Bad(e, time)
  <2>1. Outdates(WorstStatus(t), time) <=>
          \/ Outdates(InitialStatus(t), time)
          \/ \E i \in DOMAIN DepStatuses(t) : Outdates(DepStatuses(t)[i], time)
    BY <1>1, <1>3, DepStatusesAreFinal, WorstOutdates DEF WorstStatus, Decided,
       Initialized
  <2> QED
    BY <1>1, <2>1, DepStatusesAreFinal, InitialStatusTells
<1>5. ASSUME kind[t] # "alias" \/ deps[t] # <<>>
      PROVE  Decided(WorstStatus(t))
  BY <1>1, <1>2, <1>5, DepStatusesAreFinal, WorstDepStatusDecided DEF WorstStatus
<1> QED
  BY <1>4, <1>5

(* The decision of process_target_build is right ...                       *)
LEMMA DecidesRight ==
  ASSUME IInv, FinalTell, NEW t \in Targets, DepsOf(t) \subseteq built_targets,
         t \notin built_targets
  PROVE  NeedsBuild(t) <=> Stale(t)
<1>1. kind[t] \in TargetKinds /\ mtime[t] \in 0..MaxTime
  BY DEF IInv, LInv, LoopOK, TypeOK
<1>2. CASE ~HasFile(t) \/ mtime[t] = 0
  BY <1>1, <1>2 DEF NeedsBuild, NeedsUpdateComparedTo, InitialStatus, FileStatus,
     ExplicitlyNeedsUpdate, TransitivelyNeedsUpdate, HasFile, Stale, TargetKinds
<1>3. CASE HasFile(t) /\ mtime[t] # 0
  <2>1. InitialStatus(t) = FileModTime(mtime[t])
    BY <1>1, <1>3 DEF InitialStatus, FileStatus, HasFile
  <2>2. Decided(WorstStatus(t))
    BY <1>3, WorstTells DEF HasFile
  <2>3. NeedsBuild(t) <=> Outdates(WorstStatus(t), mtime[t])
    BY <2>1, <2>2 DEF NeedsBuild, NeedsUpdateComparedTo, Outdates, Decided,
       CertainlyNeedsUpdate, FileModTime
  <2>4. Outdates(WorstStatus(t), mtime[t]) <=> \E e \in SeenFrom(t) : Bad(e, mtime[t])
    <3>1. ~Bad(t, mtime[t])
      BY <1>1, <1>3 DEF Bad, HasFile
    <3> QED
      BY <1>1, <3>1, WorstTells
  <2>5. SeenFrom(t) \subseteq Targets
    BY SeenIsClosed DEF IInv, LInv, LoopOK
  <2>6. Stale(t) <=> \E e \in SeenFrom(t) : Bad(e, mtime[t])
    BY <1>1, <1>3, <2>5 DEF Stale, Bad, IInv, LInv, LoopOK, TypeOK
  <2> QED
    BY <2>3, <2>4, <2>6
<1> QED
  BY <1>2, <1>3

(* ... and throws for an alias of nothing only.                            *)
LEMMA DecisionRarelyThrows ==
  ASSUME IInv, FinalTell, NEW t \in Targets, DepsOf(t) \subseteq built_targets,
         t \notin built_targets, DecisionThrows(t)
  PROVE  kind[t] = "alias" /\ deps[t] = <<>>
<1>1. Initialized(InitialStatus(t))
  BY InitialStatusType DEF IInv, LInv, LoopOK
<1>2. ~WorstDepStatusThrows(InitialStatus(t), DepStatuses(t))
  BY <1>1, DepStatusesAreFinal DEF WorstDepStatusThrows, Decided, Initialized
<1>3. Decided(WorstStatus(t)) => ~ComparisonThrows(InitialStatus(t), WorstStatus(t))
  BY <1>1 DEF ComparisonThrows, Decided, Initialized
<1> QED
  BY <1>2, <1>3, WorstTells DEF DecisionThrows

(* A status that told the truth still does while nobody writes a file that *)
(* is built, or one without a recipe.                                      *)
LEMMA StillTells ==
  ASSUME IInv, UNCHANGED graph,
         \A e \in Targets : e \in built_targets \/ kind[e] # "file" => mtime'[e] = mtime[e],
         NEW t \in Targets, DepsOf(t) \subseteq built_targets,
         t \in built_targets \/ HandsOn(t),
         NEW s, Tells(s, t)
  PROVE  /\ Decided(s)
         /\ \A time \in 0..MaxTime :
              Outdates(s, time) <=>
                Bad(t, time)' \/ (HandsOn(t)' /\ \E e \in SeenFrom(t)' : Bad(e, time)')
<1>1. SeenFrom(t)' = SeenFrom(t)
  BY DEF SeenFrom, DepsOf, graph
<1>2. SeenFrom(t) \subseteq built_targets /\ built_targets \subseteq Targets
  BY SeenAreBuilt DEF IInv, LInv, LoopOK, TypeOK
<1>3. \A e \in built_targets \cup {t}, time \in 0..MaxTime : Bad(e, time)' <=> Bad(e, time)
  BY <1>2 DEF Bad, HasFile, HandsOn, graph
<1>4. HandsOn(t)' <=> HandsOn(t)
  BY DEF HandsOn, graph
<1> QED
  BY <1>1, <1>2, <1>3, <1>4 DEF Tells

(* Whatever else a step does: a target that was built keeps its status,    *)
(* and what is told of it and of those still being built.                  *)
LEMMA OldTell ==
  ASSUME IInv, SInv, UNCHANGED graph,
         \A e \in Targets : e \in built_targets \/ kind[e] # "file" => mtime'[e] = mtime[e]
  PROVE  /\ \A d \in built_targets : status'[d] = status[d] => Tells(status[d], d)'
         /\ \A r \in Live : status'[r.tgt] = status[r.tgt] =>
              /\ kind'[r.tgt] = "phony" => status'[r.tgt] = ExplicitlyNeedsUpdate
              /\ kind'[r.tgt] = "read_only" => status'[r.tgt] = FileStatus(r.tgt)'
              /\ HandsOn(r.tgt)' => Tells(r.newest_dep_status, r.tgt)'
<1> USE DEF SInv
<1>1. ASSUME NEW d \in built_targets, status'[d] = status[d]
      PROVE  Tells(status[d], d)'
  <2>1. d \in Targets /\ DepsOf(d) \subseteq built_targets
    BY DEF IInv, LInv, LoopOK, TypeOK, Ready
  <2>2. Tells(status[d], d)
    BY DEF FinalTell
  <2>3. /\ Decided(status[d])
        /\ \A time \in 0..MaxTime :
             Outdates(status[d], time) <=>
               Bad(d, time)' \/ (HandsOn(d)' /\ \E e \in SeenFrom(d)' : Bad(e, time)')
    BY <2>1, <2>2, StillTells
  <2> QED
    BY <1>1, <2>3 DEF Tells
<1>2. ASSUME NEW r \in Live, status'[r.tgt] = status[r.tgt]
      PROVE  /\ kind'[r.tgt] = "phony" => status'[r.tgt] = ExplicitlyNeedsUpdate
             /\ kind'[r.tgt] = "read_only" => status'[r.tgt] = FileStatus(r.tgt)'
             /\ HandsOn(r.tgt)' => Tells(r.newest_dep_status, r.tgt)'
  <2>1. r.tgt \in Targets
    BY LiveRequests DEF IInv, LInv, LoopOK
  <2>2. DepsOf(r.tgt) \subseteq built_targets
    BY DEF IInv, LInv, LoopOK, Ready, Started
  <2>3. kind[r.tgt] = "read_only" => FileStatus(r.tgt)' = FileStatus(r.tgt)
    BY <2>1 DEF FileStatus
  <2>4. HandsOn(r.tgt)' => Tells(r.newest_dep_status, r.tgt)'
    <3>1. SUFFICES ASSUME HandsOn(r.tgt)
                   PROVE  Tells(r.newest_dep_status, r.tgt)'
      BY DEF HandsOn, graph
    <3>2. Tells(r.newest_dep_status, r.tgt)
      BY <3>1 DEF LiveTell
    <3>3. /\ Decided(r.newest_dep_status)
          /\ \A time \in 0..MaxTime :
               Outdates(r.newest_dep_status, time) <=>
                 \/ Bad(r.tgt, time)'
                 \/ HandsOn(r.tgt)' /\ \E e \in SeenFrom(r.tgt)' : Bad(e, time)'
      BY <2>1, <2>2, <3>1, <3>2, StillTells
    <3> QED
      BY <3>3 DEF Tells
  <2> QED
    BY <1>2, <2>3, <2>4 DEF LiveTell, graph
<1> QED
  BY <1>1, <1>2

(* Nothing moves; the recipe that may end writes a file not yet relied on. *)
LEMMA StaysKeepsSInv ==
  ASSUME IInv, SInv, UNCHANGED graph, Stays
  PROVE  SInv'
<1>1. \A e \in Targets : e \in built_targets \/ kind[e] # "file" => mtime'[e] = mtime[e]
  <2>1. CASE UNCHANGED mtime
    BY <2>1
  <2>2. ASSUME NEW r \in running, NEW effect \in Effects, FinishRecipe(r, effect)
        PROVE  \A e \in Targets : e \in built_targets \/ kind[e] # "file" => mtime'[e] = mtime[e]
    <3>1. r.tgt \in Started
      BY DEF Started, Live, Handled
    <3>2. r.tgt \notin built_targets
      BY <3>1 DEF IInv, LInv, LoopOK, OneState
    <3>3. effect \in {"touches", "spoils"} => kind[r.tgt] = "file"
      BY <2>2 DEF FinishRecipe, EffectsOn
    <3>4. mtime \in [Targets -> 0..MaxTime]
      BY DEF IInv, LInv, LoopOK, TypeOK
    <3> QED
      BY <2>2, <3>2, <3>3, <3>4 DEF FinishRecipe, Write, files
  <2> QED
    BY <2>1, <2>2 DEF Stays
<1> QED
  BY <1>1, OldTell DEF SInv, FinalTell, LiveTell, Stays

(* A target is processed.                                                  *)
LEMMA MovesKeepsSInv ==
  ASSUME IInv, SInv, UNCHANGED graph, NEW t \in Targets, Moves(t)
  PROVE  SInv'
<1> USE DEF Moves, SInv
<1>1. t \notin built_targets /\ t \notin Started
  BY DEF IInv, LInv, LoopOK, OneState
<1>2. /\ status' = Prepared(t) /\ ~DecisionThrows(t)
      /\ \A u \in Targets : u # t => status'[u] = status[u]
      /\ status'[t] = InitialStatus(t)
  BY DEF ProcessTargetBuild, Prepared, IInv, LInv, LoopOK, TypeOK
<1>3. built_targets \subseteq Targets /\ \A r \in Live : r.tgt \in Targets /\ r.tgt # t
  BY <1>1, LiveRequests DEF IInv, LInv, LoopOK, TypeOK, Started
<1>4. FinalTell'
  BY <1>1, <1>2, <1>3, OldTell DEF FinalTell
<1>5. \A r \in Live :
        /\ kind'[r.tgt] = "phony" => status'[r.tgt] = ExplicitlyNeedsUpdate
        /\ kind'[r.tgt] = "read_only" => status'[r.tgt] = FileStatus(r.tgt)'
        /\ HandsOn(r.tgt)' => Tells(r.newest_dep_status, r.tgt)'
  BY <1>2, <1>3, OldTell
<1>6. PICK new : new = RequestFor(t)
  OBVIOUS
<1>7. /\ kind'[t] = "phony" => status'[t] = ExplicitlyNeedsUpdate
      /\ kind'[t] = "read_only" => status'[t] = FileStatus(t)'
  BY <1>2 DEF InitialStatus, FileStatus, graph
<1>8. HandsOn(t)' => Tells(new.newest_dep_status, t)'
  <2>1. SUFFICES ASSUME HandsOn(t)
                 PROVE  Tells(new.newest_dep_status, t)'
    BY DEF HandsOn, graph
  <2>2. kind[t] # "alias" \/ deps[t] # <<>>
    <3>1. CASE kind[t] = "alias" /\ deps[t] = <<>>
      <4>1. InitialStatus(t) = TransitivelyNeedsUpdate /\ DepStatuses(t) = <<>>
        BY <1>1, <3>1, DepStatusesAreFinal DEF InitialStatus
      <4>2. WorstStatus(t) = TransitivelyNeedsUpdate
        BY <4>1, WorstOfNothing DEF WorstStatus
      <4> QED
        BY <1>2, <4>2 DEF DecisionThrows, ComparisonThrows, TransitivelyNeedsUpdate
    <3> QED
      BY <3>1
  <2>3. Tells(new.newest_dep_status, t)
    BY <1>1, <1>6, <2>1, <2>2, WorstTells DEF Tells, RequestFor
  <2>4. /\ Decided(new.newest_dep_status)
        /\ \A time \in 0..MaxTime :
             Outdates(new.newest_dep_status, time) <=>
               Bad(t, time)' \/ (HandsOn(t)' /\ \E e \in SeenFrom(t)' : Bad(e, time)')
    BY <1>1, <2>1, <2>3, StillTells
  <2> QED
    BY <2>4 DEF Tells
<1>9. LiveTell'
  <2>1. Live' = Live \cup {new} /\ new.tgt = t
    BY <1>6 DEF RequestFor
  <2> QED
    BY <1>5, <1>7, <1>8, <2>1 DEF LiveTell
<1> QED
  BY <1>4, <1>9

(* The status a target gets when it is built tells the truth.              *)
LEMMA UpdatedStatusTells ==
  ASSUME IInv, SInv, NEW r \in Live, ~UpdateThrows(r.tgt)
  PROVE  Tells(UpdatedStatus(r.tgt, r.newest_dep_status), r.tgt)
<1> USE DEF SInv
<1>0. PICK t, s : t = r.tgt /\ s = r.newest_dep_status
  OBVIOUS
<1> SUFFICES Tells(UpdatedStatus(t, s), t)
  BY <1>0
<1>1. t \in Targets /\ s \in Status /\ kind[t] \in TargetKinds /\ mtime[t] \in 0..MaxTime
  BY <1>0, LiveRequests DEF IInv, LInv, LoopOK, TypeOK
<1>2. Times \subseteq Int /\ 0..MaxTime \subseteq Int
  BY BoundsAssumption
<1>3. CASE kind[t] = "file"
  <2>1. mtime[t] # 0 /\ UpdatedStatus(t, s) = FileModTime(mtime[t])
    BY <1>0, <1>3 DEF UpdateThrows, UpdatedStatus
  <2> QED
    BY <1>1, <1>3, <2>1 DEF Tells, Decided, Outdates, CertainlyNeedsUpdate,
       FileModTime, Bad, HasFile, HandsOn
<1>4. CASE kind[t] = "phony"
  <2>1. UpdatedStatus(t, s) = ExplicitlyNeedsUpdate
    BY <1>0, <1>4 DEF UpdatedStatus, LiveTell
  <2> QED
    BY <1>4, <2>1 DEF Tells, Decided, Outdates, CertainlyNeedsUpdate,
       ExplicitlyNeedsUpdate, Bad, HandsOn
<1>5. CASE kind[t] = "alias"
  <2>1. UpdatedStatus(t, s) = s /\ Tells(s, t)
    BY <1>0, <1>5 DEF UpdatedStatus, LiveTell, HandsOn
  <2> QED
    BY <2>1
<1>6. CASE kind[t] = "read_only"
  <2>1. /\ UpdatedStatus(t, s) = Merge(FileStatus(t), s)
        /\ Tells(s, t) /\ HandsOn(t)
    BY <1>0, <1>6 DEF UpdatedStatus, LiveTell, HandsOn
  <2>2. FileStatus(t) = InitialStatus(t)
    BY <1>6 DEF InitialStatus
  <2>3. FileStatus(t) \in Status /\ Initialized(FileStatus(t)) /\ Decided(s)
    BY <1>1, <2>1, <2>2, InitialStatusType DEF Tells, IInv, LInv, LoopOK
  <2>4. Decided(Merge(FileStatus(t), s))
    BY <1>1, <2>3, MergeDecides
  <2>5. ASSUME NEW time \in 0..MaxTime
        PROVE  Outdates(Merge(FileStatus(t), s), time) <=>
                 Bad(t, time) \/ (HandsOn(t) /\ \E e \in SeenFrom(t) : Bad(e, time))
    <3>1. Outdates(Merge(FileStatus(t), s), time)
            <=> Outdates(FileStatus(t), time) \/ Outdates(s, time)
      BY <1>1, <1>2, <2>3, MergeOutdates DEF Decided, Initialized
    <3>2. Outdates(FileStatus(t), time) <=> Bad(t, time)
      BY <1>1, <2>2, InitialStatusTells DEF IInv, LInv, LoopOK
    <3> QED
      BY <2>1, <3>1, <3>2 DEF Tells
  <2> QED
    BY <2>1, <2>4, <2>5 DEF Tells
<1> QED
  BY <1>1, <1>3, <1>4, <1>5, <1>6 DEF TargetKinds

(* A target becomes built, and has its final status.                       *)
LEMMA BuildsKeepsSInv ==
  ASSUME IInv, SInv, UNCHANGED graph, NEW r \in Live, Builds(r)
  PROVE  SInv'
<1> USE DEF Builds, SInv
<1>1. r.tgt \in Targets /\ r.tgt \notin built_targets /\ DepsOf(r.tgt) \subseteq built_targets
  BY LiveRequests DEF IInv, LInv, LoopOK, OneState, Ready
<1>2. PICK s : s = UpdatedStatus(r.tgt, r.newest_dep_status)
  OBVIOUS
<1>3. /\ status' = [status EXCEPT ![r.tgt] = s]
      /\ status'[r.tgt] = s
      /\ \A u \in Targets : u # r.tgt => status'[u] = status[u]
  BY <1>1, <1>2 DEF AcceptResult, IInv, LInv, LoopOK, TypeOK
<1>4. \A q \in Live' : q \in Live /\ q.tgt # r.tgt
  BY DEF IInv, LInv, LoopOK, OneState
<1>5. LiveTell'
  <2>1. \A q \in Live' : q \in Live /\ status'[q.tgt] = status[q.tgt]
    BY <1>3, <1>4, LiveRequests DEF IInv, LInv, LoopOK
  <2> QED
    BY <2>1, OldTell DEF LiveTell
<1>6. Tells(status[r.tgt], r.tgt)'
  <2>1. Bad(r.tgt, 0)' = Bad(r.tgt, 0)
    BY DEF Bad, HasFile, graph
  <2>2. Tells(s, r.tgt)
    BY <1>2, UpdatedStatusTells
  <2>3. /\ SeenFrom(r.tgt)' = SeenFrom(r.tgt)
        /\ HandsOn(r.tgt)' = HandsOn(r.tgt)
        /\ \A e, time : Bad(e, time)' = Bad(e, time)
    BY DEF SeenFrom, HandsOn, DepsOf, Bad, HasFile, graph
  <2> QED
    BY <1>3, <2>2, <2>3 DEF Tells
<1>7. FinalTell'
  <2>1. \A d \in built_targets : d \in Targets /\ d # r.tgt
    BY <1>1 DEF IInv, LInv, LoopOK, TypeOK
  <2> QED
    BY <1>3, <1>6, <2>1, OldTell DEF FinalTell
<1> QED
  BY <1>5, <1>7

(* A call ends by an exception, or a result is discarded.                  *)
LEMMA CutsShortKeepsSInv ==
  ASSUME IInv, SInv, UNCHANGED graph, CutsShort
  PROVE  SInv'
<1> USE DEF CutsShort
<1>1. \A u \in built_targets \cup Started : status'[u] = status[u]
  <2>1. CASE UNCHANGED status
    BY <2>1
  <2>2. ASSUME NEW t \in Waiting, ProcessTargetBuildThrows(t)
        PROVE  \A u \in built_targets \cup Started : status'[u] = status[u]
    <3>1. t \notin built_targets \cup Started
      BY DEF IInv, LInv, LoopOK, OneState
    <3>2. built_targets \cup Started \subseteq Targets
      BY LiveRequests DEF IInv, LInv, LoopOK, TypeOK, Started
    <3> QED
      BY <2>2, <3>1, <3>2 DEF ProcessTargetBuildThrows, Prepared, IInv, LInv, LoopOK, TypeOK
  <2> QED
    BY <2>1, <2>2
<1>2. \A r \in Live : r.tgt \in Started
  BY DEF Started
<1> QED
  BY <1>1, <1>2, OldTell DEF SInv, FinalTell, LiveTell

(* Nothing that statuses depend on changes.                                *)
LEMMA SameKeepsSInv ==
  ASSUME IInv, SInv, UNCHANGED <<graph, built_targets, status, mtime>>, Live' = Live
  PROVE  SInv'
BY OldTell DEF SInv, FinalTell, LiveTell

(* Every step keeps what statuses say.                                     *)
LEMMA NextKeepsSInv ==
  ASSUME IInv, SInv, [Next]_vars
  PROVE  SInv'
<1>1. UNCHANGED graph
  BY GraphStays
<1>2. CASE Ends
  BY <1>1, <1>2, SameKeepsSInv DEF Ends
<1>3. CASE \E R \in SUBSET Targets : BuildTargets(R)
  BY <1>1, <1>3, SameLive, SameKeepsSInv DEF BuildTargets, files
<1> QED
  BY <1>1, <1>2, <1>3, StaysKeepsSInv, MovesKeepsSInv, BuildsKeepsSInv,
     CutsShortKeepsSInv, EveryStep DEF AnyStep

(* Before the first call no status tells anything.                         *)
LEMMA FreshSInv ==
  ASSUME LoopInit
  PROVE  SInv
<1>1. built_targets = {} /\ Live = {}
  BY DEF LoopInit, Live, Handled, UpToDate, Sched!Init
<1> QED
  BY <1>1 DEF SInv, FinalTell, LiveTell

(* What the statuses tell is true at every moment.                         *)
THEOREM StatusInvariant ==
  ASSUME LinksAgree, CarefulClient
  PROVE  Safety => []SInv
<1>1. Init => SInv
  BY FreshSInv DEF Init
<1>2. IInv /\ SInv /\ [Next]_vars => SInv'
  BY NextKeepsSInv
<1> QED
  BY <1>1, <1>2, LinkedInvariant, PTL DEF Safety

(* Every step that decides of a target decides right.                      *)
LEMMA StepDecidesRight ==
  ASSUME IInv, SInv, [Next]_vars, NEW t \in Targets, attempts'[t] # attempts[t]
  PROVE  (\E r \in pending_build_requests' \ pending_build_requests : r.tgt = t)
           <=> Stale(t)
<1>1. PICK u \in Targets : Moves(u)
  <2>1. ~(\E R \in SUBSET Targets : BuildTargets(R))
    BY DEF BuildTargets
  <2> QED
    BY <2>1, EveryStep DEF AnyStep, Stays, Builds, CutsShort, Ends
<1>2. u = t
  BY <1>1 DEF Moves, ProcessTargetBuild, IInv, LInv, LoopOK, TypeOK
<1>3. /\ t \notin built_targets /\ t \notin Started /\ DepsOf(t) \subseteq built_targets
      /\ ProcessTargetBuild(t)
  BY <1>1, <1>2 DEF Moves, IInv, LInv, LoopOK, OneState
<1>4. NeedsBuild(t) <=> Stale(t)
  BY <1>3, DecidesRight DEF SInv
<1>5. RequestFor(t).tgt = t /\ RequestFor(t) \notin pending_build_requests
  BY <1>3 DEF RequestFor, Started, Live
<1>6. (\E r \in pending_build_requests' \ pending_build_requests : r.tgt = t)
        <=> NeedsBuild(t)
  BY <1>3, <1>5 DEF ProcessTargetBuild
<1> QED
  BY <1>4, <1>6

(* The build decision is right, for any graph of targets of any kind, any  *)
(* files and any recipes that run meanwhile: a target is handed to the     *)
(* scheduler exactly when it has no file, its file is missing, or a file   *)
(* it depends on, seen through aliases and read-only files, is missing,    *)
(* phony or newer.                                                         *)
THEOREM DecisionsAreRight ==
  ASSUME LinksAgree, CarefulClient
  PROVE  Safety => DecisionIsRight
<1>1. IInv /\ SInv /\ [Next]_vars =>
        [\A t \in Targets :
           attempts'[t] # attempts[t] =>
             ((\E r \in pending_build_requests' \ pending_build_requests : r.tgt = t)
                <=> Stale(t))]_vars
  BY StepDecidesRight
<1> QED
  BY <1>1, LinkedInvariant, StatusInvariant, PTL DEF Safety, DecisionIsRight

(* Every step leaves an internal error with its cause.                      *)
LEMMA NextKeepsErrors ==
  ASSUME CarefulClient, IInv, OInv, SInv, InternalErrorsExplained, [Next]_vars
  PROVE  InternalErrorsExplained'
<1>1. UNCHANGED graph
  BY GraphStays
<1>2. CASE \E R \in SUBSET Targets : BuildTargets(R)
  <2>1. outcome' # "error"
    BY <1>2, QuietAtCall DEF BuildTargets, MayCall, IInv
  <2> QED
    BY <2>1 DEF InternalErrorsExplained
<1>3. CASE ~(\E R \in SUBSET Targets : BuildTargets(R))
  <2>1. UNCHANGED requested /\ Below(requested)' = Below(requested)
    <3>1. UNCHANGED requested
      BY <1>3, EveryStep DEF AnyStep, Stays, Moves, Builds, CutsShort, Ends
    <3> QED
      BY <1>1, <3>1, SameNotions DEF Below, DepsOf, graph
  <2>2. CASE outcome' = outcome
    BY <1>1, <2>1, <2>2 DEF InternalErrorsExplained, graph
  <2>3. CASE outcome' # outcome /\ outcome' = "error"
    <3>1. PICK t \in Waiting : /\ DepsOf(t) \subseteq built_targets
                               /\ ProcessTargetBuildThrows(t)
      BY <1>3, <2>3, EveryStep
         DEF AnyStep, Stays, Moves, Builds, CutsShort, Ends, LoopOutcome
    <3>2. t \in Below(requested) /\ t \notin built_targets /\ t \in Targets
      BY DEF OInv, Needed, IInv, LInv, LoopOK, OneState, TypeOK, Waiting
    <3>3. t \in shadowed \/ (kind[t] = "alias" /\ deps[t] = <<>>)
      BY <3>1, <3>2, DecisionRarelyThrows DEF ProcessTargetBuildThrows, SInv
    <3> QED
      BY <1>1, <2>1, <3>2, <3>3 DEF InternalErrorsExplained, graph
  <2> QED
    BY <2>2, <2>3 DEF InternalErrorsExplained
<1> QED
  BY <1>2, <1>3

(* The internal errors have one cause each: an alias of nothing, or a name *)
(* that finds another target, among what the call asked for.               *)
THEOREM ErrorsAreExplained ==
  ASSUME LinksAgree, CarefulClient
  PROVE  Safety => []InternalErrorsExplained
<1>1. Init => InternalErrorsExplained
  BY DEF Init, LoopInit, InternalErrorsExplained
<1>2. IInv /\ OInv /\ SInv /\ InternalErrorsExplained /\ [Next]_vars
        => InternalErrorsExplained'
  BY NextKeepsErrors
<1> QED
  BY <1>1, <1>2, LinkedInvariant, ProgressInvariant, StatusInvariant, PTL DEF Safety

-----------------------------------------------------------------------------
(* What was decided of targets, and what is known of their files.          *)

Attempted == {t \in Targets : attempts[t] > 0}

(* A decision was made only of targets whose dependencies were built, and  *)
(* of all that are or were under way.                                      *)
AttemptsOK ==
  /\ Attempted \subseteq resolved
  /\ \A t \in Attempted : DepsOf(t) \subseteq built_targets
  /\ Started \cup built_targets \subseteq Attempted

(* A call that reports success has built all it was asked for, also if an  *)
(* author names a dependency twice.                                        *)
AllBuilt == phase = "client" /\ outcome = "ok" => Below(requested) \subseteq built_targets

(* The requests whose recipe is still to end, and the targets whose file   *)
(* was found up to date or left behind by a recipe that did not throw.     *)
ToBuild == pending_build_requests \cup queued \cup running
Checked == built_targets \cup {r.tgt : r \in UpToDate \cup (finished \ failed)}

(* Nothing was decided by a loop just made.                                *)
LEMMA FreshAttempts ==
  ASSUME LoopInit
  PROVE  Attempted = {} /\ AttemptsOK /\ AllBuilt /\ Checked = {} /\ Live = {}
<1>1. UpToDate = {} /\ finished = {} /\ built_targets = {} /\ Live = {} /\ Attempted = {}
  BY DEF LoopInit, UpToDate, Live, Handled, Sched!Init, Attempted
<1> QED
  BY <1>1 DEF AttemptsOK, AllBuilt, Checked, Started, LoopInit

(* Every step keeps what was attempted.                                    *)
LEMMA NextKeepsAttempts ==
  ASSUME IInv, AttemptsOK, [Next]_vars
  PROVE  AttemptsOK' /\ Attempted \subseteq Attempted'
<1>1. UNCHANGED graph /\ \A t : DepsOf(t)' = DepsOf(t)
  BY GraphStays, SameGraph
<1>2. /\ attempts \in [Targets -> Nat] /\ Waiting \subseteq resolved
      /\ Waiting \subseteq Targets /\ resolved' = resolved
  BY <1>1 DEF IInv, LInv, LoopOK, TypeOK, OneState, Waiting, graph
<1>3. CASE Stays \/ CutsShort \/ Ends
  BY <1>1, <1>2, <1>3 DEF AttemptsOK, Attempted, Stays, CutsShort, Ends
<1>4. ASSUME NEW t \in Targets, Moves(t)
      PROVE  AttemptsOK' /\ Attempted \subseteq Attempted'
  <2>1. attempts' = [attempts EXCEPT ![t] = @ + 1]
    BY <1>4 DEF Moves, ProcessTargetBuild
  <2>2. Attempted' = Attempted \cup {t}
    BY <1>2, <2>1 DEF Attempted
  <2> QED
    BY <1>1, <1>2, <1>4, <2>2 DEF AttemptsOK, Moves
<1>5. ASSUME NEW r \in Live, Builds(r)
      PROVE  AttemptsOK' /\ Attempted \subseteq Attempted'
  BY <1>1, <1>2, <1>5 DEF AttemptsOK, Attempted, Builds
<1>6. ASSUME NEW R \in SUBSET Targets, BuildTargets(R)
      PROVE  AttemptsOK' /\ Attempted \subseteq Attempted'
  BY <1>1, <1>2, <1>6, SameLive DEF AttemptsOK, Attempted, BuildTargets
<1> QED
  BY <1>3, <1>4, <1>5, <1>6, EveryStep DEF AnyStep

(* The end of a loop that has nothing left, and a call for what is built   *)
(* already, are the two ways to succeed.                                   *)
LEMMA NextKeepsAllBuilt ==
  ASSUME CarefulClient, IInv, OInv, AllBuilt, [Next]_vars
  PROVE  AllBuilt'
<1>1. UNCHANGED graph
  BY GraphStays
<1>2. CASE \E R \in SUBSET Targets : BuildTargets(R)
  <2>1. PICK R \in SUBSET Targets : BuildTargets(R)
    BY <1>2
  <2>2. CASE VisitedFrom(R) = {}
    <3>1. Below(R) \subseteq built_targets
      BY <2>2, VisitedOrBuilt
    <3>2. Below(requested)' = Below(R)
      BY <1>1, <2>1 DEF BuildTargets, Below, DepsOf, graph
    <3> QED
      BY <2>1, <3>1, <3>2 DEF BuildTargets, AllBuilt
  <2>3. CASE VisitedFrom(R) # {}
    BY <2>1, <2>3 DEF BuildTargets, AllBuilt
  <2> QED
    BY <2>2, <2>3
<1>3. CASE UNCHANGED requested
  <2>1. Below(requested)' = Below(requested)
    BY <1>1, <1>3 DEF Below, DepsOf, graph
  <2>2. CASE Stays \/ CutsShort
    BY <2>1, <2>2 DEF AllBuilt, Stays, CutsShort
  <2>3. CASE (\E t \in Targets : Moves(t)) \/ (\E r \in Live : Builds(r))
    BY <2>3 DEF AllBuilt, Moves, Builds
  <2>4. CASE Ends
    <3>1. SUFFICES ASSUME outcome' = "ok"
                   PROVE  Below(requested) \subseteq built_targets
      BY <2>1, <2>4 DEF AllBuilt, Ends
    <3>2. phase = "consumers" /\ blocked_targets = {} /\ Started = {}
      BY <2>4, <3>1 DEF Ends, LoopOutcome
    <3>3. buildable_targets = {}
      BY <3>2 DEF IInv, LInv, LoopOK, LocalsOK
    <3> QED
      BY <3>2, <3>3 DEF OInv, Covered, Waiting
  <2>5. CASE \E R \in SUBSET Targets : BuildTargets(R)
    BY <1>2, <2>5
  <2> QED
    BY <2>2, <2>3, <2>4, <2>5, EveryStep DEF AnyStep
<1> QED
  BY <1>2, <1>3, EveryStep DEF AnyStep, Stays, Moves, Builds, CutsShort, Ends

(* process_target_build of t, whose dependencies are built.                *)
Decides(t) ==
  /\ ProcessTargetBuild(t)
  /\ t \in resolved \ built_targets
  /\ DepsOf(t) \subseteq built_targets

(* What a step of the main thread checks and leaves to build.              *)
LEMMA SortingChecks ==
  ASSUME IInv, NEW t \in Targets, ProcessBuildable(t) \/ Consumer(t)
  PROVE  \/ Checked' = Checked /\ ToBuild' = ToBuild
         \/ /\ Decides(t)
            /\ Checked' \subseteq Checked \cup (IF NeedsBuild(t) THEN {} ELSE {t})
            /\ ToBuild' \subseteq ToBuild \cup (IF NeedsBuild(t) THEN {RequestFor(t)} ELSE {})
<1>1. UNCHANGED sched /\ built_targets' = built_targets
  BY DEF ProcessBuildable, Consumer
<1>2. UNCHANGED <<queued, running, finished, failed>>
  BY <1>1 DEF sched
<1>3. CASE UNCHANGED queues
  BY <1>1, <1>2, <1>3, SameLive DEF Checked, ToBuild, queues
<1>4. CASE ProcessTargetBuild(t) /\ t \in Waiting /\ DepsOf(t) \subseteq built_targets
  <2>1. Decides(t) /\ TypeOK
    BY <1>4 DEF Decides, IInv, LInv, LoopOK, OneState, TypeOK
  <2>2. /\ RequestFor(t).tgt = t
        /\ UpToDate' \subseteq UpToDate \cup {RequestFor(t)}
    BY <1>1, <1>4, <2>1, ProcessMakesRequest
  <2>3. CASE NeedsBuild(t)
    <3>1. /\ pending_build_requests' = pending_build_requests \cup {RequestFor(t)}
          /\ up_to_date_targets' = up_to_date_targets
      BY <1>4, <2>3 DEF ProcessTargetBuild
    <3>2. UpToDate' = UpToDate
      BY <3>1 DEF UpToDate
    <3> QED
      BY <1>1, <1>2, <2>1, <2>3, <3>1, <3>2 DEF Checked, ToBuild
  <2>4. CASE ~NeedsBuild(t)
    <3>1. pending_build_requests' = pending_build_requests
      BY <1>4, <2>4 DEF ProcessTargetBuild
    <3> QED
      BY <1>1, <1>2, <2>1, <2>2, <2>4, <3>1 DEF Checked, ToBuild
  <2> QED
    BY <2>3, <2>4
<1>5. CASE ProcessBuildable(t)
  <2>1. t \in Waiting /\ DepsOf(t) \subseteq built_targets
    BY <1>5 DEF ProcessBuildable, IInv, LInv, LoopOK, Ready, Waiting
  <2> QED
    BY <1>3, <1>4, <1>5, <2>1 DEF ProcessBuildable, ProcessTargetBuildThrows
<1>6. CASE Consumer(t)
  <2>1. CASE Awaited(t) /\ Complete(t)
    <3>1. t \in Waiting /\ DepsOf(t) \subseteq built_targets
      BY <1>6, <2>1, ConsumerIsReady DEF Consumer, Awaited, Waiting, IInv
    <3> QED
      BY <1>3, <1>4, <1>6, <2>1, <3>1 DEF Consumer, ProcessTargetBuildThrows
  <2>2. CASE ~(Awaited(t) /\ Complete(t))
    BY <1>3, <1>6, <2>2 DEF Consumer
  <2> QED
    BY <2>1, <2>2
<1> QED
  BY <1>5, <1>6

(* Results and batches: what is checked was checked before.                *)
LEMMA ResultChecks ==
  ASSUME IInv,
         \/ CommitInitial \/ CommitLoop
         \/ GetUpToDate \/ GetThrowsIdle
         \/ \E r \in finished : GetResult(r) \/ DiscardResult(r)
  PROVE  Checked' \subseteq Checked /\ ToBuild' \subseteq ToBuild
<1>1. CASE CommitInitial \/ CommitLoop
  <2>1. Commit /\ UNCHANGED <<up_to_date_targets, built_targets>>
    BY <1>1 DEF CommitInitial, CommitLoop
  <2>2. /\ UNCHANGED <<finished, failed, running>>
        /\ queued' \subseteq queued \cup pending_build_requests
        /\ pending_build_requests' = {}
    BY <2>1 DEF Commit, Sched!Schedule, sched
  <2> QED
    BY <2>1, <2>2 DEF Checked, ToBuild, UpToDate
<1>2. CASE GetUpToDate
  <2> USE <1>2 DEF GetUpToDate
  <2>1. UNCHANGED <<pending_build_requests, queued, running, finished, failed>>
    BY DEF sched
  <2> DEFINE last == up_to_date_targets[Len(up_to_date_targets)]
  <2>2. /\ up_to_date_targets \in Seq(Request) /\ up_to_date_targets # <<>>
        /\ Len(up_to_date_targets) \in Nat \ {0}
        /\ DOMAIN up_to_date_targets = 1..Len(up_to_date_targets)
    BY DEF IInv, LInv, LoopOK, TypeOK
  <2>3. last \in UpToDate /\ UpToDate' \subseteq UpToDate
    BY <2>2 DEF UpToDate
  <2>4. built_targets' \subseteq built_targets \cup {last.tgt}
    BY DEF AcceptResult
  <2> HIDE DEF last
  <2> QED
    BY <2>1, <2>3, <2>4 DEF Checked, ToBuild
<1>3. CASE GetThrowsIdle
  BY <1>3 DEF GetThrowsIdle, sched, queues, Checked, ToBuild, UpToDate
<1>4. ASSUME NEW r \in finished, GetResult(r) \/ DiscardResult(r)
      PROVE  Checked' \subseteq Checked /\ ToBuild' \subseteq ToBuild
  <2>1. /\ UNCHANGED <<queued, running, failed, queues>> /\ finished' = finished \ {r}
        /\ UpToDate' = UpToDate
    BY <1>4 DEF GetResult, DiscardResult, Sched!Return, queues, UpToDate
  <2>2. built_targets' = built_targets \/ (r \notin failed /\ built_targets' = built_targets \cup {r.tgt})
    BY <1>4 DEF GetResult, DiscardResult, AcceptResult
  <2> QED
    BY <2>1, <2>2 DEF Checked, ToBuild, queues
<1> QED
  BY <1>1, <1>2, <1>3, <1>4

(* What is newly checked, or newly left to build, was decided to be so.    *)
LEMMA MainChecks ==
  ASSUME IInv, MainStep
  PROVE  \/ Checked' \subseteq Checked /\ ToBuild' \subseteq ToBuild
         \/ \E t \in Targets :
              /\ Decides(t)
              /\ Checked' \subseteq Checked \cup (IF NeedsBuild(t) THEN {} ELSE {t})
              /\ ToBuild' \subseteq ToBuild \cup (IF NeedsBuild(t) THEN {RequestFor(t)} ELSE {})
BY SortingChecks, ResultChecks DEF MainStep

(* A file is built only if it exists.                                      *)
LEMMA BuiltFileExists ==
  ASSUME IInv, [Next]_vars, NEW t \in built_targets' \ built_targets, kind[t] = "file"
  PROVE  mtime[t] # 0
<1>1. PICK r \in Live : Builds(r)
  BY EveryStep DEF AnyStep, Stays, Moves, Builds, CutsShort, Ends, BuildTargets
<1> QED
  BY <1>1 DEF Builds, UpdateThrows

(* Main thread and calls leave files alone.                                *)
LEMMA FilesLeftAlone ==
  ASSUME \/ MainStep
         \/ \E R \in SUBSET Targets : BuildTargets(R)
         \/ \E r \in queued : StartRecipe(r)
  PROVE  UNCHANGED files
BY DEF MainStep, BuildTargets, StartRecipe, ProcessBuildable, Consumer, CommitInitial,
       GetUpToDate, GetResult, DiscardResult, GetThrowsIdle, CommitLoop
=============================================================================
