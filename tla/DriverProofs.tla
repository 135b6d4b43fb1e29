---------------------------- MODULE DriverProofs ----------------------------
(***************************************************************************)
(* Proofs about module Driver: what holds of every process over any        *)
(* libraries and any files, however it is ended.  The invariants of the    *)
(* resolution and of the build loop, proved of these by themselves in      *)
(* DepResolutionProofs, BuildTargetsProofs and BuildOutcomeProofs, are     *)
(* kept by the whole program too.                                          *)
(***************************************************************************)
EXTENDS Driver, BuildOutcomeProofs, DepResolutionProofs

-----------------------------------------------------------------------------
(* The parts of the inductive invariant.                                   *)

(* The libraries, and what their descriptions say, as DriverAssumption has *)
(* them.                                                                   *)
InstalledOK ==
  /\ kind \in [Targets -> TargetKinds]
  /\ \A l \in Libraries : library[l].targets \in Seq(Targets)
  /\ \A l, m \in Libraries :
       \A i \in DOMAIN library[l].targets, j \in DOMAIN library[m].targets :
         library[l].targets[i] = library[m].targets[j] => l = m /\ i = j
  /\ \A t \in Targets : traits[t].raw_deps \in Seq(ElementsOf(traits[t].raw_deps))

(* The stages in which the locals of process() exist.                      *)
Constructed ==
  {"loading", "resolving", "building", "listing", "unwinding", "joining"}

(* A library that is open has listed its targets.                          *)
OpenedOK ==
  /\ input_files \in Seq(Libraries)
  /\ dl_handles \in 0..Len(input_files)
  /\ stage \in Constructed => dl_handles = Len(input_files)
  /\ \A l \in Libraries : list[l] \in {<<>>, library[l].targets}
  /\ stage \in Constructed \cup {"opening"} =>
       \A l \in Open : list[l] = library[l].targets

(* What has not begun, or is over, in each stage.                          *)
StageOK ==
  /\ stage \in Stages
  /\ pt_alive \in BOOLEAN
  /\ thrown \in Exceptions
  /\ stage = "opening" => /\ NothingLoaded /\ next_dlh = 1
                          /\ processed_projects = {} /\ thrown = "none"
  /\ stage \in {"opening", "joining", "closing", "main"} => ~pt_alive
  /\ stage \in {"opening", "loading", "resolving", "listing"} => LoopInit
  /\ stage \in {"closing", "main"} => running = {}

(* The libraries the loop over the handles is through with.                *)
Read == 1..(IF stage = "resolving" THEN next_dlh ELSE next_dlh - 1)

Versioned(l) == <<library[l].project, library[l].version>>

(* Those it has loaded.                                                    *)
FirstsOf(n) ==
  {l \in Libraries :
     /\ library[l].project # NoProject
     /\ \E i \in n : /\ input_files[i] = l
                     /\ \A j \in 1..(i - 1) :
                          library[input_files[j]].project # library[l].project}

NoClashIn(n) ==
  \A i, j \in n :
    /\ library[input_files[i]].project # NoProject
    /\ library[input_files[i]].project = library[input_files[j]].project
    => library[input_files[i]].version = library[input_files[j]].version

AllMentionsMean ==
  /\ processed # {}
  /\ \A t \in Known : \A raw \in ElementsOf(traits[t].raw_deps) :
       Meant(processed, t, raw) # {}

LoadingOK ==
  /\ processed \subseteq ElementsOf(input_files)
  /\ next_dlh \in 1..(Len(input_files) + 1)
  /\ stage = "resolving" => next_dlh <= Len(input_files) /\ processed # {}
  /\ stage \in {"loading", "resolving", "building", "listing"} =>
       /\ processed = FirstsOf(Read)
       /\ processed_projects = {Versioned(l) : l \in processed}
       /\ NoClashIn(Read)
  /\ stage \in {"loading", "building", "listing"} => (all_resolved <=> AllMentionsMean)
  /\ stage \in {"building", "listing"} => next_dlh = Len(input_files) + 1 /\ all_resolved

VerdictOK ==
  /\ thrown = "version" => VersionsClash
  /\ thrown = "unresolved" => ~VersionsClash /\ ~AllMeant

(* The targets that names find.  Only these are built.                     *)
Findable == ElementsOf(targets_by_resolved_name)

NamesOK ==
  /\ Findable \cap shadowed = {}
  /\ \A t \in Targets : DepsOf(t) \subseteq Findable
  /\ requested \subseteq Findable

(* The build loop, over whatever graph the resolution has made.            *)
LoopPart ==
  /\ LoopOK
  /\ stage # "exited" => FilesOK
  /\ GraphOK => OInv /\ InternalErrorsExplained
  /\ GraphOK /\ stage # "exited" => SInv

AroundOK ==
  /\ to_list \subseteq Targets
  /\ exit_status \in ExitStatuses
  /\ runs \in 0..MaxRuns
  /\ edits \in 0..MaxEdits
  /\ content \in [Targets -> Contents]
  /\ made_from \in [Targets -> SUBSET Targets]
  /\ created \subseteq Targets

(* The inductive invariant.                                                *)
DInv ==
  /\ InstalledOK
  /\ OpenedOK
  /\ StageOK
  /\ LoadingOK
  /\ VerdictOK
  /\ RInv /\ MInv
  /\ NamesOK
  /\ LoopPart
  /\ AroundOK

-----------------------------------------------------------------------------
(* The build loop inside of the program.                                   *)

(* What the loop is given has its types.                                   *)
LEMMA TypesGiven ==
  ASSUME InstalledOK, ResolutionTypeOK, shadowed \subseteq Targets,
         mtime \in [Targets -> 0..MaxTime], now \in 0..MaxTime
  PROVE  GivenTypes
BY DEF GivenTypes, InstalledOK, ResolutionTypeOK

(* A processed_targets just made, whatever was linked so far.              *)
LEMMA FreshLoopPart ==
  ASSUME GivenTypes, LoopInit
  PROVE  LoopPart
<1>1. LInv
  BY FreshLoop
<1>2. OInv /\ SInv
  BY FreshOInv, FreshSInv
<1>3. InternalErrorsExplained
  BY DEF LoopInit, InternalErrorsExplained
<1> QED
  BY <1>1, <1>2, <1>3 DEF LoopPart, LInv

(* process() calls build_targets once.                                     *)
LEMMA DriverIsCareful == CarefulClient
BY DriverAssumption DEF CarefulClient

(* A step of the loop, or of one of its workers.                           *)
LEMMA LoopStepKeeps ==
  ASSUME LoopPart, stage # "exited", [Next]_vars
  PROVE  LoopPart'
<1>1. LInv /\ LInv'
  BY NextKeeps, DriverIsCareful DEF LoopPart, LInv
<1>2. GraphOK' <=> GraphOK
  BY GraphStays, SameGraph
<1>3. GraphOK => OInv' /\ SInv' /\ InternalErrorsExplained'
  BY <1>1, NextKeepsOInv, NextKeepsSInv, NextKeepsErrors, DriverIsCareful DEF LoopPart, IInv
<1> QED
  BY <1>1, <1>2, <1>3 DEF LoopPart, LInv

(* Everything the loop keeps but the times of files and whether the        *)
(* scheduler is open.                                                      *)
memory == <<graph, status, already_built, built_targets, queues, locals, call,
            attempts, queued, running, finished, returned, failed>>

(* The destructor of the scheduler, and what is done to files once the     *)
(* process is gone.                                                        *)
LEMMA MemoryStays ==
  ASSUME LoopPart, UNCHANGED memory, open' \in BOOLEAN,
         mtime' \in [Targets -> 0..MaxTime], now' \in 0..MaxTime,
         \/ UNCHANGED mtime /\ (stage = "exited" => stage' = "exited")
         \/ stage' = "exited"
  PROVE  LoopPart'
<1> USE DEF LoopPart, memory
<1>1. (GraphOK' <=> GraphOK) /\ \A t : DepsOf(t)' = DepsOf(t)
  BY SameGraph
<1>2. /\ Handled' = Handled /\ UpToDate' = UpToDate /\ Live' = Live
      /\ Started' = Started /\ Waiting' = Waiting
  BY DEF Handled, UpToDate, Live, Started, Waiting, queues, locals
<1>3. (\A R : Below(R)' = Below(R)) /\ Cyclic' = Cyclic
  BY SameNotions
<1>4. LoopOK'
  <2> USE DEF LoopOK
  <2>1. TypeOK'
    BY DEF TypeOK, Sched!TypeOK, Sched!Ended, graph, queues, locals, call
  <2>2. LocalsOK' /\ CallsOK'
    BY <1>2 DEF LocalsOK, CallsOK, queues, locals, call, graph
  <2>3. OnePlace' /\ OneState'
    BY <1>2 DEF OnePlace, OneState, queues, locals, graph
  <2>4. Ready'
    BY <1>1, <1>2 DEF Ready, locals
  <2>5. CountsOK'
    <3>1. \A c : Counted(c)' = Counted(c)
      BY <1>1 DEF Counted, locals
    <3> QED
      BY <1>1, <3>1 DEF CountsOK, graph, call, locals
  <2> QED
    BY <2>1, <2>2, <2>3, <2>4, <2>5
<1>5. GraphOK => OInv'
  <2>1. Below(requested)' = Below(requested)
    BY <1>1, <1>3 DEF Below, DepsOf, call, graph
  <2> QED
    BY <1>2, <1>3, <2>1 DEF OInv, Needed, Covered, SomethingToDo, BuiltAcyclic, call, locals
<1>6. GraphOK => InternalErrorsExplained'
  <2>1. Below(requested)' = Below(requested)
    BY <1>1, <1>3 DEF Below, DepsOf, call, graph
  <2> QED
    BY <2>1 DEF InternalErrorsExplained, call, graph
<1>7. CASE UNCHANGED mtime /\ (stage = "exited" => stage' = "exited")
  <2>1. stage' # "exited" => FilesOK'
    BY <1>2, <1>7 DEF FilesOK, graph
  <2>2. GraphOK /\ stage' # "exited" => SInv'
    BY <1>2, <1>7, SameKeepsSInv DEF IInv, LInv
  <2> QED
    BY <1>1, <1>4, <1>5, <1>6, <2>1, <2>2
<1>8. CASE stage' = "exited"
  BY <1>1, <1>4, <1>5, <1>6, <1>8
<1> QED
  BY <1>7, <1>8

-----------------------------------------------------------------------------
(* What has just been made, in the next state of a step.                   *)

(* FreshLoopPart there.                                                    *)
LEMMA FreshLoopNext == (GivenTypes /\ LoopInit => LoopPart)'
BY FreshLoopPart, PTL

(* TypesGiven there.                                                       *)
LEMMA TypesGivenNext ==
  (/\ InstalledOK /\ ResolutionTypeOK /\ shadowed \subseteq Targets
   /\ mtime \in [Targets -> 0..MaxTime] /\ now \in 0..MaxTime
   => GivenTypes)'
BY TypesGiven, PTL

(* The lists are as the libraries have them, as far as these are open.     *)
LEMMA ListsGiven ==
  ASSUME InstalledOK, OpenedOK, list \in [Libraries -> Seq(Targets)]
  PROVE  GivenOK
<1>1. ASSUME NEW p \in Projects, NEW q \in Projects,
             NEW i \in DOMAIN list[p], NEW j \in DOMAIN list[q], list[p][i] = list[q][j]
      PROVE  p = q /\ i = j
  <2>1. list[p] = library[p].targets /\ list[q] = library[q].targets
    BY DEF OpenedOK, Libraries
  <2> QED
    BY <1>1, <2>1 DEF InstalledOK, Libraries
<1> QED
  BY <1>1 DEF GivenOK, InstalledOK, Libraries

(* Nothing is resolved yet.                                                *)
LEMMA FreshResolution ==
  ASSUME InstalledOK, OpenedOK, list \in [Libraries -> Seq(Targets)], NothingLoaded
  PROVE  RInv /\ MInv
BY ListsGiven, FreshRInv, FreshMInv

(* The same in the next state of a step.                                   *)
LEMMA FreshResolutionNext ==
  (InstalledOK /\ OpenedOK /\ list \in [Libraries -> Seq(Targets)] /\ NothingLoaded
   => RInv /\ MInv)'
BY FreshResolution, PTL

-----------------------------------------------------------------------------
(* What stays.                                                             *)

(* Libraries are not changed.                                              *)
LEMMA InstalledStays ==
  ASSUME InstalledOK, UNCHANGED <<kind, library, traits>>
  PROVE  InstalledOK'
BY DEF InstalledOK, ElementsOf

(* What is said of the libraries alone.                                    *)
LEMMA LibraryNotionsStay ==
  ASSUME UNCHANGED <<kind, traits, list, library, input_files>>
  PROVE  /\ VersionsClash' = VersionsClash /\ AllMeant' = AllMeant
         /\ ToLoad' = ToLoad /\ WithProject' = WithProject
         /\ \A P, t, raw : Meant(P, t, raw)' = Meant(P, t, raw)
<1>1. \A P, t, raw : Meant(P, t, raw)' = Meant(P, t, raw)
  BY DEF Meant, Bearers, Readings, ResolvedName, ResolvePath, InProject
<1>2. ToLoad' = ToLoad /\ WithProject' = WithProject
  BY DEF ToLoad, WithProject, ElementsOf
<1>3. VersionsClash' = VersionsClash
  BY <1>2 DEF VersionsClash
<1>4. AllMeant' = AllMeant
  <2>1. \A t, raw : Meant(ToLoad, t, raw)' = Meant(ToLoad, t, raw)
    BY <1>2 DEF Meant, Bearers, Readings, ResolvedName, ResolvePath, InProject
  <2> QED
    BY <1>2, <2>1 DEF AllMeant, ElementsOf
<1> QED
  BY <1>1, <1>2, <1>3, <1>4

(* The stages that depend on what was loaded.                              *)
LoadStages == {"loading", "resolving", "building", "listing"}

(* What the libraries are and what was loaded of them is not touched.      *)
LEMMA LoadedStays ==
  ASSUME DInv, UNCHANGED <<installed, graph, loaded, loop, input_files>>,
         requested' \subseteq Findable,
         \/ dl_handles' = dl_handles
         \/ /\ stage' \notin Constructed \cup {"opening"}
            /\ dl_handles' \in 0..Len(input_files),
         stage' \in Constructed => stage \in Constructed,
         stage' = "opening" => stage = "opening",
         stage' \in LoadStages => stage' = stage,
         thrown' = thrown \/ thrown' \notin {"version", "unresolved"}
  PROVE  /\ InstalledOK' /\ OpenedOK' /\ LoadingOK' /\ VerdictOK'
         /\ RInv' /\ MInv' /\ NamesOK'
<1> USE DEF DInv, installed, graph, loaded, loop
<1>1. InstalledOK'
  BY InstalledStays
<1>2. OpenedOK'
  BY DEF OpenedOK, Open, Constructed
<1>3. LoadingOK'
  <2>1. processed' \subseteq ElementsOf(input_files)'
    BY DEF LoadingOK, ElementsOf
  <2>2. AllMentionsMean' = AllMentionsMean
    <3>1. \A t, raw : Meant(processed, t, raw)' = Meant(processed, t, raw)
      BY DEF Meant, Bearers, Readings, ResolvedName, ResolvePath, InProject
    <3>2. Known' = Known
      BY DEF Known, ElementsOf
    <3> QED
      BY <3>1, <3>2 DEF AllMentionsMean, ElementsOf
  <2>3. CASE stage' \in LoadStages
    <3>1. Read' = Read /\ \A l : Versioned(l)' = Versioned(l)
      BY <2>3 DEF Read, Versioned
    <3>2. FirstsOf(Read)' = FirstsOf(Read) /\ NoClashIn(Read)' = NoClashIn(Read)
      BY <3>1 DEF FirstsOf, NoClashIn
    <3> QED
      BY <2>1, <2>2, <2>3, <3>1, <3>2 DEF LoadingOK
  <2>4. CASE stage' \notin LoadStages
    BY <2>1, <2>4 DEF LoadingOK, LoadStages
  <2> QED
    BY <2>3, <2>4
<1>4. VerdictOK'
  BY LibraryNotionsStay DEF VerdictOK
<1>5. RInv' /\ MInv'
  BY StutteringKeepsResolution, StutteringKeepsMeaning DEF resolutionVars, given
<1>6. NamesOK'
  BY DEF NamesOK, Findable, DepsOf, ElementsOf
<1> QED
  BY <1>1, <1>2, <1>3, <1>4, <1>5, <1>6

-----------------------------------------------------------------------------
(* The actions.                                                            *)

(* A step that leaves memory alone leaves the loop where it is.            *)
LEMMA QuietLoopStays ==
  ASSUME LoopPart, UNCHANGED vars, stage = "exited" => stage' = "exited"
  PROVE  LoopPart'
BY MemoryStays DEF LoopPart, LoopOK, TypeOK, Sched!TypeOK, vars, memory, sched, files

(* A processed_targets that was not used stays unused.                     *)
LEMMA LoopInitStays ==
  ASSUME LoopInit,
         UNCHANGED <<status, already_built, built_targets, queues, locals, call,
                     attempts, sched>>
  PROVE  LoopInit'
BY DEF LoopInit, queues, locals, call, sched, Sched!Init

(* The way out of process().                                               *)
LEMMA LeavingKeeps ==
  ASSUME DInv,
         \/ Refuse \/ RequestUnknown \/ BuildEnds \/ ListingEnds
         \/ DestroyTargets \/ Joined \/ CloseLibraries \/ Exit
  PROVE  DInv'
<1> USE DEF Refuse, RequestUnknown, BuildEnds, ListingEnds, DestroyTargets, Joined,
            CloseLibraries, Exit, Throw
<1>1. /\ UNCHANGED <<vars, installed, loaded, loop, input_files, to_list, runs, edits,
                     history>>
      /\ dl_handles' = dl_handles \/ (stage = "closing" /\ dl_handles' = 0)
  BY DEF leaving, opening, around
<1>2. /\ stage # "exited" /\ stage' \in {"unwinding", "closing", "main", "exited"} \cup {stage}
      /\ stage' = stage => stage = "unwinding"
      /\ stage' = "unwinding" => stage \in Constructed
      /\ stage = "closing" => stage' = "main"
  BY DEF leaving, Constructed
<1>3. thrown' \in {thrown, "none", "build", "dlopen", "comparator", "unknown"}
  BY DEF leaving
<1>4. requested' \subseteq Findable /\ UNCHANGED graph
  BY <1>1 DEF vars, call, DInv, NamesOK
<1>5. /\ InstalledOK' /\ OpenedOK' /\ LoadingOK' /\ VerdictOK'
      /\ RInv' /\ MInv' /\ NamesOK'
  <2>1. dl_handles' \in 0..Len(input_files)
    BY <1>1 DEF DInv, OpenedOK
  <2> QED
    BY <1>1, <1>2, <1>3, <1>4, <2>1, LoadedStays DEF Constructed, LoadStages
<1>6. StageOK'
  <2>1. thrown' \in Exceptions /\ stage' \in Stages
    BY <1>2, <1>3 DEF DInv, StageOK, Stages, Exceptions
  <2>2. /\ pt_alive' \in BOOLEAN
        /\ stage' \in {"closing", "main"} => ~pt_alive'
    <3>1. CASE DestroyTargets
      BY <3>1 DEF leaving
    <3>2. CASE UNCHANGED pt_alive
      <4>1. stage' \in {"closing", "main"} => stage \in {"opening", "joining", "closing"}
        BY DEF leaving
      <4> QED
        BY <3>2, <4>1 DEF DInv, StageOK
    <3> QED
      BY <3>1, <3>2
  <2>3. stage' \in {"closing", "main"} => running' = {}
    <3>1. running' = running
      BY <1>1 DEF vars, sched
    <3>2. CASE Refuse
      BY <3>1, <3>2 DEF DInv, StageOK, LoopInit, Sched!Init
    <3> QED
      BY <1>2, <3>1, <3>2 DEF DInv, StageOK, AllJoined, leaving
  <2> QED
    BY <1>2, <2>1, <2>2, <2>3 DEF StageOK
<1>7. LoopPart'
  BY <1>1, <1>2, QuietLoopStays DEF DInv
<1>8. AroundOK'
  <2>1. exit_status' \in ExitStatuses
    BY DEF DInv, AroundOK, ExitStatuses, around
  <2> QED
    BY <1>1, <2>1 DEF DInv, AroundOK, history
<1> QED
  BY <1>5, <1>6, <1>7, <1>8 DEF DInv

(* The destructor of the scheduler.                                        *)
LEMMA StopWorkersKeeps ==
  ASSUME DInv, StopWorkers
  PROVE  DInv'
<1> USE DEF StopWorkers, Sched!Close
<1>1. requested' \subseteq Findable
  BY DEF call, DInv, NamesOK
<1>2. /\ InstalledOK' /\ OpenedOK' /\ LoadingOK' /\ VerdictOK'
      /\ RInv' /\ MInv' /\ NamesOK'
  BY <1>1, LoadedStays DEF Constructed, LoadStages, opening
<1>3. StageOK'
  BY DEF DInv, StageOK, Stages
<1>4. LoopPart'
  BY MemoryStays DEF DInv, LoopPart, LoopOK, TypeOK, memory, files
<1>5. AroundOK'
  BY DEF DInv, AroundOK, history, around
<1> QED
  BY <1>2, <1>3, <1>4, <1>5 DEF DInv

(* What is noted of the files that recipes write.                          *)
LEMMA HistoryTyped ==
  ASSUME content \in [Targets -> Contents], made_from \in [Targets -> SUBSET Targets],
         created \subseteq Targets, NEW how \in Contents
  PROVE  /\ \A S \in SUBSET Targets :
              Written(S, how) => /\ content' \in [Targets -> Contents]
                                 /\ made_from' \in [Targets -> SUBSET Targets]
                                 /\ created' \subseteq Targets
         /\ \A t \in Targets, effect \in Effects :
              Effect(t, effect, how) => /\ content' \in [Targets -> Contents]
                                        /\ made_from' \in [Targets -> SUBSET Targets]
                                        /\ created' \subseteq Targets
<1> DEFINE Typed == /\ content' \in [Targets -> Contents]
                    /\ made_from' \in [Targets -> SUBSET Targets]
                    /\ created' \subseteq Targets
<1>1. {"other", "outdated"} \subseteq Contents
  BY DEF Contents
<1>2. \A t : SeenFrom(t) \subseteq Targets
  BY DEF SeenFrom
<1>3. ASSUME NEW S \in SUBSET Targets, NEW h \in Contents, Written(S, h)
      PROVE  Typed
  BY <1>1, <1>2, <1>3 DEF Written
<1>4. ASSUME NEW t \in Targets, NEW effect \in Effects, Effect(t, effect, how)
      PROVE  Typed
  <2>1. CASE effect \in {"touches", "spoils"}
    BY <1>1, <1>3, <1>4, <2>1 DEF Effect
  <2>2. CASE effect \in {"throws", "nothing"}
    BY <1>1, <1>4, <2>2 DEF Effect, history
  <2> QED
    BY <2>1, <2>2 DEF Effects
<1> QED
  BY <1>3, <1>4

(* build_targets, its loop, and the recipes the workers run for it.        *)
LEMMA BuildingKeeps ==
  ASSUME DInv,
         \/ \E R \in SUBSET Targets : RequestBuild(R)
         \/ BuildStep
         \/ \E r \in queued : DriverStartRecipe(r)
         \/ \E r \in running : DriverRecipe(r)
  PROVE  DInv'
<1>1. UNCHANGED driver /\ stage \in {"building", "unwinding", "joining"}
  BY DEF RequestBuild, BuildStep, DriverStartRecipe, DriverRecipe, WorkersLive
<1>2. Next
  <2>1. CASE \E r \in running : DriverRecipe(r)
    BY <2>1 DEF DriverRecipe, Recipe, WorkerStep, Next
  <2> QED
    BY <2>1 DEF RequestBuild, BuildStep, DriverStartRecipe, ClientCall, WorkerStep, Next
<1>3. requested' \subseteq Findable
  <2>1. CASE BuildStep
    <3>1. UNCHANGED requested
      BY <2>1 DEF BuildStep, MainStep, ProcessBuildable, Consumer, CommitInitial,
                  GetUpToDate, GetResult, DiscardResult, GetThrowsIdle, CommitLoop,
                  AcceptResult, EndCall, ProcessTargetBuildThrows, call
    <3> QED
      BY <3>1 DEF DInv, NamesOK
  <2>2. CASE \E R \in SUBSET Targets : RequestBuild(R)
    BY <2>2 DEF RequestBuild, BuildTargets, Findable
  <2>3. CASE \/ \E r \in queued : DriverStartRecipe(r)
             \/ \E r \in running : DriverRecipe(r)
    BY <2>3 DEF DriverStartRecipe, DriverRecipe, StartRecipe, FinishRecipe, call,
                DInv, NamesOK
  <2> QED
    BY <2>1, <2>2, <2>3
<1>4. UNCHANGED graph
  BY <1>2, GraphStays
<1>5. /\ InstalledOK' /\ OpenedOK' /\ LoadingOK' /\ VerdictOK'
      /\ RInv' /\ MInv' /\ NamesOK'
  BY <1>1, <1>3, <1>4, LoadedStays DEF driver, opening, leaving
<1>6. StageOK'
  BY <1>1 DEF DInv, StageOK, driver, leaving
<1>7. LoopPart'
  BY <1>1, <1>2, LoopStepKeeps DEF DInv
<1>8. AroundOK'
  <2>1. CASE UNCHANGED history
    BY <1>1, <2>1 DEF DInv, AroundOK, driver, around, history
  <2>2. ASSUME NEW r \in running, NEW effect \in Effects, Effect(r.tgt, effect, "current")
        PROVE  AroundOK'
    <3>1. r.tgt \in Targets
      BY DEF DInv, LoopPart, LoopOK, TypeOK, Sched!TypeOK, Request
    <3>2. "current" \in Contents
      BY DEF Contents
    <3> QED
      BY <1>1, <2>2, <3>1, <3>2, HistoryTyped DEF DInv, AroundOK, driver, around
  <2> QED
    BY <2>1, <2>2 DEF RequestBuild, BuildStep, DriverStartRecipe, DriverRecipe
<1> QED
  BY <1>5, <1>6, <1>7, <1>8 DEF DInv

(* A recipe that the listing calls.                                        *)
LEMMA ListTargetKeeps ==
  ASSUME DInv, NEW t \in Targets, ListTarget(t)
  PROVE  DInv'
<1> USE DEF ListTarget
<1>1. PICK effect \in EffectsOn(t) :
        /\ IF effect \in {"throws", "spoils"}
           THEN Throw("recipe", "unwinding") /\ to_list' = {}
           ELSE to_list' = to_list \ {t} /\ UNCHANGED leaving
        /\ IF effect \in {"touches", "spoils"}
           THEN \E time \in WriteTimes : Write(t, time)
           ELSE UNCHANGED files
        /\ Effect(t, effect, "other")
  OBVIOUS
<1>2. effect \in Effects
  BY BoundsAssumption DEF EffectsOn, Effects
<1>3. \/ stage' = "unwinding" /\ thrown' = "recipe" /\ to_list' = {}
      \/ stage' = "listing" /\ thrown' = thrown /\ to_list' = to_list \ {t}
  BY <1>1 DEF Throw, leaving
<1> HIDE DEF ListTarget
<1>4. mtime' \in [Targets -> 0..MaxTime] /\ now' \in 0..MaxTime
  <2>1. mtime \in [Targets -> 0..MaxTime] /\ now \in 0..MaxTime
    BY DEF DInv, LoopPart, LoopOK, TypeOK
  <2>2. ASSUME NEW time \in WriteTimes, Write(t, time)
        PROVE  mtime' \in [Targets -> 0..MaxTime] /\ now' \in 0..MaxTime
    BY <2>1, <2>2, WriteKeepsTypes
  <2> QED
    BY <1>1, <2>1, <2>2 DEF files
<1> USE DEF ListTarget
<1>5. requested' \subseteq Findable
  BY DEF call, DInv, NamesOK
<1>6. /\ InstalledOK' /\ OpenedOK' /\ LoadingOK' /\ VerdictOK'
      /\ RInv' /\ MInv' /\ NamesOK'
  BY <1>3, <1>5, LoadedStays DEF Constructed, LoadStages, opening
<1>7. LoopInit'
  BY LoopInitStays DEF DInv, StageOK
<1>8. StageOK'
  BY <1>3, <1>7 DEF DInv, StageOK, Stages, Exceptions
<1>9. LoopPart'
  <2>1. ResolutionTypeOK' /\ shadowed' \subseteq Targets
    BY <1>6 DEF RInv, DInv, LoopPart, LoopOK, TypeOK, graph
  <2> QED
    BY <1>4, <1>6, <1>7, <2>1, TypesGivenNext, FreshLoopNext
<1>10. AroundOK'
  <2>1. /\ content' \in [Targets -> Contents] /\ made_from' \in [Targets -> SUBSET Targets]
        /\ created' \subseteq Targets
    <3>1. "other" \in Contents
      BY DEF Contents
    <3> QED
      BY <1>1, <1>2, <3>1, HistoryTyped DEF DInv, AroundOK
  <2> QED
    BY <1>3, <2>1 DEF DInv, AroundOK, around
<1> QED
  BY <1>6, <1>8, <1>9, <1>10 DEF DInv

(* The end of the process by a signal, and edits of files after its end.   *)
LEMMA OutsideKeeps ==
  ASSUME DInv,
         \/ Kill
         \/ \E t \in Targets : \E time \in {0} \cup NextTick : Edit(t, time)
  PROVE  DInv'
<1>1. PICK S \in SUBSET Targets : Written(S, "other")
  <2>1. \A r \in running : r.tgt \in Targets
    BY DEF DInv, LoopPart, LoopOK, TypeOK, Sched!TypeOK, Request
  <2>2. CASE Kill
    BY <2>1, <2>2 DEF Kill
  <2> QED
    BY <2>2 DEF Edit
<1>2. /\ mtime' \in [Targets -> 0..MaxTime] /\ now' \in 0..MaxTime
      /\ exit_status' \in ExitStatuses /\ edits' \in 0..MaxEdits
      /\ stage' = "exited" /\ UNCHANGED <<memory, open, thrown, to_list, runs, pt_alive>>
      /\ UNCHANGED <<installed, loaded, opening, loop>>
  <2>1. /\ mtime \in [Targets -> 0..MaxTime] /\ now \in 0..MaxTime
        /\ exit_status \in ExitStatuses /\ edits \in 0..MaxEdits
    BY DEF DInv, LoopPart, LoopOK, TypeOK, AroundOK
  <2>2. CASE Kill
    <3>1. PICK W \in SUBSET Targets, time \in WriteTimes :
             /\ mtime' = [t \in Targets |-> IF t \in W THEN Stamp(t, time) ELSE mtime[t]]
             /\ now' = IF W = {} THEN now ELSE time
      <4>1. \A r \in running : r.tgt \in Targets
        BY DEF DInv, LoopPart, LoopOK, TypeOK, Sched!TypeOK, Request
      <4> QED
        BY <2>2, <4>1 DEF Kill
    <3>2. time \in 0..MaxTime /\ \A t \in Targets : Stamp(t, time) \in 0..MaxTime
      <4>1. \A t \in Targets : Stamp(t, time) \in 0..MaxTime
        BY <2>1, StampIsLate
      <4>2. time \in 0..MaxTime
        BY BoundsAssumption DEF WriteTimes
      <4> QED
        BY <4>1, <4>2
    <3>3. mtime' \in [Targets -> 0..MaxTime] /\ now' \in 0..MaxTime
      BY <2>1, <3>1, <3>2
    <3> QED
      BY <2>1, <2>2, <3>3 DEF Kill, ExitStatuses, memory, sched
  <2>3. ASSUME NEW t \in Targets, NEW time \in {0} \cup NextTick, Edit(t, time)
        PROVE  /\ mtime' \in [Targets -> 0..MaxTime] /\ now' \in 0..MaxTime
               /\ edits' \in 0..MaxEdits
    BY <2>1, <2>3, DriverAssumption, BoundsAssumption DEF Edit, NextTick
  <2> QED
    BY <2>1, <2>2, <2>3 DEF Edit, memory, sched, leaving
<1>3. requested' \subseteq Findable /\ UNCHANGED graph
  BY <1>2 DEF memory, call, DInv, NamesOK
<1>4. /\ InstalledOK' /\ OpenedOK' /\ LoadingOK' /\ VerdictOK'
      /\ RInv' /\ MInv' /\ NamesOK'
  BY <1>2, <1>3, LoadedStays DEF Constructed, LoadStages, opening
<1>5. StageOK'
  BY <1>2 DEF DInv, StageOK, Stages
<1>6. LoopPart'
  BY <1>2, MemoryStays DEF DInv, LoopPart, LoopOK, TypeOK, Sched!TypeOK
<1>7. AroundOK'
  <2>1. "other" \in Contents
    BY DEF Contents
  <2> QED
    BY <1>1, <1>2, <2>1, HistoryTyped DEF DInv, AroundOK
<1> QED
  BY <1>4, <1>5, <1>6, <1>7 DEF DInv

-----------------------------------------------------------------------------
(* Libraries are opened.                                                   *)
LEMMA OpenLibraryKeeps ==
  ASSUME DInv, OpenLibrary
  PROVE  DInv'
<1> USE DEF OpenLibrary
<1> DEFINE l == input_files[dl_handles + 1]
<1>1. /\ l \in Libraries /\ dl_handles + 1 \in 1..Len(input_files)
      /\ NothingLoaded /\ LoopInit /\ list \in [Libraries -> Seq(Targets)]
      /\ library[l].targets \in Seq(Targets)
  BY DEF DInv, OpenedOK, StageOK, RInv, ResolutionTypeOK, InstalledOK, Libraries
<1>2. /\ list' \in [Libraries -> Seq(Targets)]
      /\ list' = [list EXCEPT ![l] = library[l].targets]
  BY <1>1 DEF Registered
<1>3. /\ UNCHANGED <<input_files, library, stage, thrown, kind, traits>>
      /\ dl_handles' = dl_handles + 1
  BY DEF installed, leaving, vars, graph
<1> HIDE DEF l
<1>4. InstalledOK'
  BY <1>3, InstalledStays DEF DInv
<1>5. OpenedOK'
  <2>1. Open' = Open \cup {l}
    <3>1. dl_handles \in Nat /\ 1..(dl_handles + 1) = 1..dl_handles \cup {dl_handles + 1}
      BY DEF DInv, OpenedOK
    <3> QED
      BY <1>3, <3>1 DEF Open, l
  <2>2. Open' \subseteq Libraries
    BY <1>1, <1>3 DEF DInv, OpenedOK, Open
  <2> QED
    BY <1>1, <1>2, <1>3, <2>1, <2>2 DEF DInv, OpenedOK, Constructed, Libraries
<1>6. NothingLoaded'
  BY <1>1 DEF NothingLoaded, vars, graph
<1>7. RInv' /\ MInv'
  BY <1>2, <1>4, <1>5, <1>6, FreshResolutionNext DEF Libraries
<1>8. LoopInit'
  BY <1>1, LoopInitStays DEF vars
<1>9. StageOK'
  <2>1. stage = "opening" /\ UNCHANGED <<stage, thrown, pt_alive, next_dlh, processed_projects>>
    BY DEF loop, leaving
  <2> QED
    BY <1>6, <1>8, <2>1 DEF DInv, StageOK
<1>10. LoadingOK' /\ VerdictOK'
  <2>1. processed' = {} /\ next_dlh' = 1 /\ thrown' = "none"
    BY <1>3, <1>6, <1>9 DEF StageOK, NothingLoaded
  <2> QED
    BY <1>3, <2>1 DEF LoadingOK, VerdictOK, DInv, OpenedOK
<1>11. NamesOK'
  BY DEF vars, graph, call, DInv, NamesOK, Findable, DepsOf, ElementsOf
<1>12. LoopPart'
  BY QuietLoopStays DEF DInv
<1>13. AroundOK'
  BY DEF DInv, AroundOK, around, history
<1> QED
  BY <1>4, <1>5, <1>7, <1>9, <1>10, <1>11, <1>12, <1>13 DEF DInv

(* A new process, over the same libraries and the files as they are.       *)
LEMMA RestartKeeps ==
  ASSUME DInv, Restart
  PROVE  DInv'
<1> USE DEF Restart
<1>1. UNCHANGED <<kind, library, traits, mtime, history, edits>>
  BY DEF installed
<1>2. InstalledOK'
  BY <1>1, InstalledStays DEF DInv
<1>3. input_files' \in Seq(Libraries)
  BY DriverAssumption
<1>4. OpenedOK'
  BY <1>3 DEF OpenedOK, Open, Constructed
<1>5. NothingLoaded' /\ LoopInit'
  BY DEF NothingLoaded, LoopInit, Sched!Init
<1>6. list' \in [Libraries -> Seq(Targets)]
  OBVIOUS
<1>7. RInv' /\ MInv'
  BY <1>2, <1>4, <1>5, <1>6, FreshResolutionNext
<1>8. StageOK'
  BY <1>5 DEF StageOK, Stages, Exceptions
<1>9. LoadingOK' /\ VerdictOK'
  BY <1>3 DEF LoadingOK, VerdictOK
<1>10. NamesOK'
  BY DEF NamesOK, DepsOf
<1>11. LoopPart'
  <2>1. mtime' \in [Targets -> 0..MaxTime] /\ now' \in 0..MaxTime
    BY <1>1, BoundsAssumption DEF DInv, LoopPart, LoopOK, TypeOK, NextTick
  <2>2. ResolutionTypeOK'
    BY <1>7 DEF RInv
  <2> QED
    BY <1>2, <1>5, <2>1, <2>2, TypesGivenNext, FreshLoopNext
<1>12. AroundOK'
  BY <1>1, DriverAssumption DEF DInv, AroundOK, history, ExitStatuses
<1> QED
  BY <1>2, <1>4, <1>7, <1>8, <1>9, <1>10, <1>11, <1>12 DEF DInv

-----------------------------------------------------------------------------
(* The loop over the libraries.                                            *)
ProjectOf(i) == library[input_files[i]].project

(* One more library is the first of its project, or changes nothing.       *)
LEMMA FirstsGrow ==
  ASSUME input_files \in Seq(Libraries), NEW k \in 1..Len(input_files)
  PROVE  FirstsOf(1..k) =
           IF ProjectOf(k) # NoProject /\ \A j \in 1..(k - 1) : ProjectOf(j) # ProjectOf(k)
           THEN FirstsOf(1..(k - 1)) \cup {input_files[k]} ELSE FirstsOf(1..(k - 1))
<1> DEFINE New == ProjectOf(k) # NoProject /\ \A j \in 1..(k - 1) : ProjectOf(j) # ProjectOf(k)
           A == FirstsOf(1..k)
           B == FirstsOf(1..(k - 1))
<1>1. 1..k = 1..(k - 1) \cup {k} /\ input_files[k] \in Libraries
  OBVIOUS
<1>2. \A l \in Libraries : l \in A <=> l \in B \/ (New /\ input_files[k] = l)
  BY <1>1 DEF FirstsOf, ProjectOf
<1>3. A \subseteq Libraries /\ B \subseteq Libraries
  BY DEF FirstsOf
<1> HIDE DEF New, A, B
<1>4. A = IF New THEN B \cup {input_files[k]} ELSE B
  <2>1. CASE New
    BY <1>1, <1>2, <1>3, <2>1
  <2>2. CASE ~New
    BY <1>1, <1>2, <1>3, <2>2
  <2> QED
    BY <2>1, <2>2
<1> QED
  BY <1>4 DEF New, A, B

(* Every project among the libraries has a first one.                      *)
LEMMA ProjectHasFirst ==
  ASSUME input_files \in Seq(Libraries), NEW n \in 0..Len(input_files),
         NEW k \in 1..n, ProjectOf(k) # NoProject
  PROVE  \E i \in 1..n : input_files[i] \in FirstsOf(1..n) /\ ProjectOf(i) = ProjectOf(k)
<1> DEFINE I == {i \in 1..n : ProjectOf(i) = ProjectOf(k)}
<1>1. PICK i \in I : \A j \in 1..(i - 1) : j \notin I
  <2>1. n \in Nat /\ I \in SUBSET (1..n) /\ I # {}
    OBVIOUS
  <2> HIDE DEF I
  <2> QED
    BY <2>1, FirstPosition
<1>2. i \in 1..n /\ \A j \in 1..(i - 1) : j \in 1..n
  OBVIOUS
<1>3. \A j \in 1..(i - 1) : ProjectOf(j) # ProjectOf(i)
  BY <1>1, <1>2
<1>4. input_files[i] \in Libraries /\ ProjectOf(i) = ProjectOf(k) /\ ProjectOf(i) # NoProject
  BY <1>1, <1>2
<1> HIDE DEF I
<1>5. input_files[i] \in FirstsOf(1..n)
  BY <1>2, <1>3, <1>4 DEF FirstsOf, ProjectOf
<1> QED
  BY <1>2, <1>4, <1>5

(* What processed_projects knows of the libraries before the current one.  *)
LEMMA LoadedBefore ==
  ASSUME DInv, Loading
  PROVE  /\ next_dlh \in 1..Len(input_files) /\ Current \in Libraries
         /\ Read = 1..(next_dlh - 1) /\ ProjectOf(next_dlh) = library[Current].project
         /\ HasProject =>
              (AlreadyLoaded <=> \E j \in Read : ProjectOf(j) = library[Current].project)
         /\ \A x \in processed_projects :
              \E j \in Read : x = <<ProjectOf(j), library[input_files[j]].version>>
<1>1. /\ input_files \in Seq(Libraries) /\ next_dlh \in 1..Len(input_files)
      /\ processed = FirstsOf(Read) /\ processed_projects = {Versioned(l) : l \in processed}
      /\ Read = 1..(next_dlh - 1)
  BY DEF DInv, OpenedOK, LoadingOK, Loading, Read
<1>2. Current \in Libraries /\ ProjectOf(next_dlh) = library[Current].project
  BY <1>1 DEF Current, ProjectOf
<1>3. \A x \in processed_projects :
        \E j \in Read : x = <<ProjectOf(j), library[input_files[j]].version>>
  BY <1>1 DEF FirstsOf, Versioned, ProjectOf
<1>4. ASSUME HasProject, NEW j \in Read, ProjectOf(j) = library[Current].project
      PROVE  AlreadyLoaded
  <2>1. /\ next_dlh - 1 \in 0..Len(input_files) /\ j \in 1..(next_dlh - 1)
        /\ ProjectOf(j) # NoProject
    BY <1>1, <1>4 DEF HasProject
  <2>2. PICK i \in Read : input_files[i] \in processed /\ ProjectOf(i) = ProjectOf(j)
    BY <1>1, <2>1, ProjectHasFirst
  <2>3. Versioned(input_files[i]) \in processed_projects
    BY <1>1, <2>2
  <2>4. Versioned(input_files[i])[1] = library[Current].project
    BY <1>4, <2>2 DEF Versioned, ProjectOf
  <2> QED
    BY <2>3, <2>4 DEF AlreadyLoaded
<1>5. AlreadyLoaded => \E j \in Read : ProjectOf(j) = library[Current].project
  BY <1>3 DEF AlreadyLoaded
<1> QED
  BY <1>1, <1>2, <1>3, <1>4, <1>5

(* What a mention means depends on the libraries and on what is loaded.    *)
LEMMA MentionsStay ==
  ASSUME UNCHANGED <<kind, traits, list, processed>>
  PROVE  AllMentionsMean' = AllMentionsMean
<1>1. \A t, raw : Meant(processed, t, raw)' = Meant(processed, t, raw)
  BY DEF Meant, Bearers, Readings, ResolvedName, ResolvePath, InProject
<1>2. Known' = Known
  BY DEF Known, ElementsOf
<1> QED
  BY <1>1, <1>2 DEF AllMentionsMean, ElementsOf

(* What was read of the libraries is as it was.                            *)
LEMMA ReadingsStay ==
  ASSUME UNCHANGED <<library, input_files>>
  PROVE  /\ \A n : FirstsOf(n)' = FirstsOf(n)
         /\ \A n : NoClashIn(n)' = NoClashIn(n)
         /\ \A l : Versioned(l)' = Versioned(l)
BY DEF FirstsOf, NoClashIn, Versioned

(* The locals of process() are made, and nothing is loaded.                *)
LEMMA ConstructKeeps ==
  ASSUME DInv, Construct
  PROVE  DInv'
<1> USE DEF Construct
<1>1. /\ UNCHANGED <<kind, installed, loaded, opening, loop, thrown, graph, call>>
      /\ NothingLoaded /\ next_dlh = 1 /\ processed_projects = {} /\ LoopInit
  BY DEF DInv, StageOK, vars, graph
<1>2. UNCHANGED <<library, traits, list, input_files, dl_handles, processed, next_dlh,
                  processed_projects, all_resolved>>
  BY <1>1 DEF installed, loaded, opening, loop
<1>3. InstalledOK'
  BY <1>1, <1>2, InstalledStays DEF DInv
<1>4. OpenedOK'
  BY <1>2 DEF DInv, OpenedOK, Open, Constructed
<1>5. RInv' /\ MInv'
  BY <1>1, <1>2, StutteringKeepsResolution, StutteringKeepsMeaning
     DEF DInv, resolutionVars, given, graph, loaded
<1>6. StageOK'
  <2>1. LoopInit'
    BY <1>1, LoopInitStays DEF vars
  <2> QED
    BY <1>1, <2>1 DEF DInv, StageOK, Stages
<1>7. LoadingOK'
  <2>1. Read' = {}
    BY <1>1, <1>2 DEF Read
  <2>2. FirstsOf(Read)' = {} /\ NoClashIn(Read)'
    BY <2>1 DEF FirstsOf, NoClashIn
  <2>3. processed' = {} /\ all_resolved' = FALSE /\ ~AllMentionsMean'
    BY <1>1, <1>2 DEF NothingLoaded, AllMentionsMean
  <2>4. processed_projects' = {} /\ next_dlh' = 1 /\ Len(input_files') \in Nat
    BY <1>1, <1>2 DEF DInv, OpenedOK
  <2> QED
    BY <2>2, <2>3, <2>4 DEF LoadingOK
<1>8. VerdictOK'
  BY <1>1, <1>2, LibraryNotionsStay DEF DInv, VerdictOK
<1>9. NamesOK'
  BY <1>1 DEF DInv, NamesOK, Findable, DepsOf, ElementsOf, graph, call, loaded
<1>10. LoopPart'
  BY QuietLoopStays DEF DInv
<1>11. AroundOK'
  BY DEF DInv, AroundOK, around, history
<1> QED
  BY <1>3, <1>4, <1>5, <1>6, <1>7, <1>8, <1>9, <1>10, <1>11 DEF DInv

(* A library without a project, or whose project is loaded already.        *)
LEMMA SkipLibraryKeeps ==
  ASSUME DInv, SkipLibrary
  PROVE  DInv'
<1> USE DEF SkipLibrary
<1> DEFINE k == next_dlh
<1>1. /\ stage = "loading" /\ input_files \in Seq(Libraries)
      /\ UNCHANGED <<kind, installed, loaded, opening, leaving, graph, call, pt_alive>>
      /\ UNCHANGED <<processed_projects, to_list, around, history>>
  BY DEF Loading, vars, graph, DInv, OpenedOK
<1>2. UNCHANGED <<library, traits, list, input_files, dl_handles, processed, stage, thrown,
                  all_resolved, processed_projects>>
  BY <1>1 DEF installed, loaded, opening, leaving
<1>3. /\ k \in 1..Len(input_files) /\ Current \in Libraries
      /\ Read = 1..(k - 1) /\ ProjectOf(k) = library[Current].project
      /\ HasProject => (AlreadyLoaded <=> \E j \in Read : ProjectOf(j) = library[Current].project)
      /\ \A x \in processed_projects :
           \E j \in Read : x = <<ProjectOf(j), library[input_files[j]].version>>
  BY LoadedBefore
<1>4. Read' = 1..k /\ 1..k = 1..(k - 1) \cup {k}
  BY <1>1, <1>2, <1>3 DEF Read
<1>5. FirstsOf(Read)' = FirstsOf(Read)
  <2>1. FirstsOf(1..k) = FirstsOf(1..(k - 1))
    BY <1>1, <1>3, FirstsGrow DEF HasProject
  <2> QED
    BY <1>2, <1>3, <1>4, <2>1 DEF FirstsOf
<1>6. NoClashIn(Read)'
  <2>1. NoClashIn(Read)
    BY <1>1 DEF DInv, LoadingOK
  <2>2. ASSUME NEW j \in Read, ProjectOf(k) # NoProject, ProjectOf(j) = ProjectOf(k)
        PROVE  library[input_files[j]].version = library[input_files[k]].version
    <3>1. HasProject
      BY <1>3, <2>2 DEF HasProject
    <3>2. ThisVersion \in processed_projects
      BY <3>1
    <3>3. PICK i \in Read : ThisVersion = <<ProjectOf(i), library[input_files[i]].version>>
      BY <1>3, <3>2
    <3>4. ProjectOf(i) = ProjectOf(k) /\ library[input_files[i]].version = library[Current].version
      BY <1>3, <3>3 DEF ThisVersion
    <3> QED
      BY <2>1, <2>2, <3>4 DEF NoClashIn, ProjectOf, Current
  <2>3. NoClashIn(1..k)
    BY <1>3, <1>4, <2>1, <2>2 DEF NoClashIn, ProjectOf
  <2> QED
    BY <1>2, <1>4, <2>3 DEF NoClashIn
<1>7. InstalledOK' /\ OpenedOK'
  BY <1>1, <1>2, InstalledStays DEF DInv, OpenedOK, Open
<1>8. RInv' /\ MInv'
  BY <1>1, <1>2, StutteringKeepsResolution, StutteringKeepsMeaning
     DEF DInv, resolutionVars, given, graph, loaded
<1>9. StageOK'
  <2>1. LoopInit'
    BY <1>1, LoopInitStays DEF vars, DInv, StageOK
  <2> QED
    BY <1>1, <1>2, <2>1 DEF DInv, StageOK
<1>10. LoadingOK'
  <2>1. processed' \subseteq ElementsOf(input_files)' /\ next_dlh' \in 1..(Len(input_files') + 1)
    BY <1>1, <1>2, <1>3 DEF DInv, LoadingOK, ElementsOf
  <2>2. AllMentionsMean' = AllMentionsMean /\ \A l : Versioned(l)' = Versioned(l)
    BY <1>1, <1>2, MentionsStay, ReadingsStay
  <2> QED
    BY <1>1, <1>2, <1>5, <1>6, <2>1, <2>2 DEF DInv, LoadingOK
<1>11. VerdictOK'
  BY <1>1, <1>2, LibraryNotionsStay DEF DInv, VerdictOK
<1>12. NamesOK'
  BY <1>1 DEF DInv, NamesOK, Findable, DepsOf, ElementsOf, graph, call, loaded
<1>13. LoopPart'
  BY <1>2, QuietLoopStays DEF DInv
<1>14. AroundOK'
  BY <1>1 DEF DInv, AroundOK, around, history
<1> QED
  BY <1>7, <1>8, <1>9, <1>10, <1>11, <1>12, <1>13, <1>14 DEF DInv

(* A project that is loaded already in another version.                    *)
LEMMA ThrowVersionKeeps ==
  ASSUME DInv, ThrowVersion
  PROVE  DInv'
<1> USE DEF ThrowVersion, Throw
<1>1. VersionsClash
  <2>1. /\ next_dlh \in 1..Len(input_files) /\ Read = 1..(next_dlh - 1)
        /\ \E j \in Read : ProjectOf(j) = library[Current].project
        /\ \A x \in processed_projects :
             \E j \in Read : x = <<ProjectOf(j), library[input_files[j]].version>>
    BY LoadedBefore
  <2>2. PICK x \in processed_projects : x[1] = library[Current].project
    BY DEF AlreadyLoaded
  <2>3. PICK j \in Read : x = <<ProjectOf(j), library[input_files[j]].version>>
    BY <2>1
  <2>4. /\ ProjectOf(j) = library[Current].project
        /\ library[input_files[j]].version # library[Current].version
    BY <2>2, <2>3 DEF ThisVersion
  <2>5. j \in 1..Len(input_files) /\ DOMAIN input_files = 1..Len(input_files)
    BY <2>1, <2>3 DEF DInv, OpenedOK
  <2>6. input_files[j] \in WithProject /\ Current \in WithProject
    BY <2>1, <2>4, <2>5 DEF WithProject, ElementsOf, Current, ProjectOf, HasProject
  <2> QED
    BY <2>4, <2>6 DEF VersionsClash, ProjectOf
<1>2. stage = "loading" /\ UNCHANGED <<vars, installed, loaded, opening, loop>>
  BY DEF Loading
<1>3. UNCHANGED <<kind, library, traits, list, input_files, dl_handles, graph, call>>
  BY <1>2 DEF installed, loaded, opening, vars, graph
<1>4. InstalledOK' /\ OpenedOK'
  BY <1>2, <1>3, InstalledStays DEF DInv, OpenedOK, Open, Constructed
<1>5. RInv' /\ MInv'
  BY <1>2, <1>3, StutteringKeepsResolution, StutteringKeepsMeaning
     DEF DInv, resolutionVars, given, graph, loaded
<1>6. StageOK'
  BY <1>2 DEF DInv, StageOK, Stages, Exceptions
<1>7. LoadingOK'
  BY <1>2, <1>3 DEF DInv, LoadingOK, ElementsOf, loaded, loop
<1>8. VerdictOK'
  BY <1>1, <1>3, LibraryNotionsStay DEF VerdictOK
<1>9. NamesOK'
  BY <1>2, <1>3 DEF DInv, NamesOK, Findable, DepsOf, ElementsOf, graph, call, loaded
<1>10. LoopPart'
  BY <1>2, QuietLoopStays DEF DInv
<1>11. AroundOK'
  BY DEF DInv, AroundOK, around, history
<1> QED
  BY <1>4, <1>5, <1>6, <1>7, <1>8, <1>9, <1>10, <1>11 DEF DInv

(* The first library of a project is loaded.                               *)
LEMMA ProcessLibraryKeeps ==
  ASSUME DInv, ProcessLibrary
  PROVE  DInv'
<1> USE DEF ProcessLibrary
<1> DEFINE k == next_dlh
<1>1. /\ stage = "loading" /\ stage' = "resolving" /\ Loading
      /\ ProcessProject(Current) /\ HasProject /\ ~AlreadyLoaded
      /\ processed' = processed \cup {Current}
      /\ UNCHANGED <<kind, library, traits, list, input_files, dl_handles, next_dlh, thrown,
                     pt_alive, files, call, deps, resolved, dep_of>>
  BY DEF Loading, ProcessProject, given, opening
<1>2. /\ k \in 1..Len(input_files) /\ Current \in Libraries
      /\ Read = 1..(k - 1) /\ ProjectOf(k) = library[Current].project
      /\ \A j \in Read : ProjectOf(j) # ProjectOf(k)
      /\ input_files \in Seq(Libraries) /\ Current = input_files[k]
  BY <1>1, LoadedBefore DEF DInv, OpenedOK, Current
<1>3. Current \in Projects \ processed
  <2>1. processed_projects = {Versioned(l) : l \in processed}
    BY <1>1 DEF DInv, LoadingOK
  <2>2. ASSUME Current \in processed
        PROVE  FALSE
    <3>1. Versioned(Current) \in processed_projects
      BY <2>1, <2>2
    <3> QED
      BY <1>1, <3>1 DEF Versioned, AlreadyLoaded
  <2> QED
    BY <1>2, <2>2 DEF Libraries
<1>4. RInv' /\ MInv'
  BY <1>1, <1>3, ProcessProjectKeeps, ProcessProjectKeepsMeaning DEF DInv
<1>5. Read' = 1..k /\ 1..k = 1..(k - 1) \cup {k}
  BY <1>1, <1>2 DEF Read
<1>6. InstalledOK' /\ OpenedOK'
  BY <1>1, InstalledStays DEF DInv, OpenedOK, Open, Constructed
<1>7. StageOK' /\ LoopInit'
  <2>1. LoopInit'
    BY <1>1, LoopInitStays DEF DInv, StageOK
  <2> QED
    BY <1>1, <2>1 DEF DInv, StageOK, Stages
<1>8. LoadingOK'
  <2>1. processed = FirstsOf(1..(k - 1)) /\ NoClashIn(1..(k - 1))
        /\ processed_projects = {Versioned(l) : l \in processed}
        /\ processed \subseteq ElementsOf(input_files)
    BY <1>1, <1>2 DEF DInv, LoadingOK
  <2>2. processed' = FirstsOf(1..k)
    BY <1>1, <1>2, <2>1, FirstsGrow DEF HasProject
  <2>3. NoClashIn(1..k)
    BY <1>2, <1>5, <2>1 DEF NoClashIn, ProjectOf
  <2>4. processed' = FirstsOf(Read)' /\ NoClashIn(Read)'
    BY <1>1, <1>5, <2>2, <2>3 DEF FirstsOf, NoClashIn
  <2>5. processed_projects' = {Versioned(l)' : l \in processed'}
    <3>1. \A l : Versioned(l)' = Versioned(l)
      BY <1>1 DEF Versioned
    <3>2. ThisVersion = Versioned(Current)
      BY DEF ThisVersion, Versioned
    <3> QED
      BY <1>1, <2>1, <3>1, <3>2
  <2>6. processed' \subseteq ElementsOf(input_files)' /\ processed' # {}
    BY <1>1, <1>2, <2>1 DEF ElementsOf
  <2> QED
    BY <1>1, <1>2, <2>4, <2>5, <2>6 DEF LoadingOK
<1>9. VerdictOK'
  BY <1>1, LibraryNotionsStay DEF DInv, VerdictOK
<1>10. NamesOK'
  <2>1. Findable \subseteq Findable'
    <3>1. \A n \in Named : n \in DOMAIN targets_by_resolved_name'
                            /\ targets_by_resolved_name'[n] = targets_by_resolved_name[n]
      BY <1>1 DEF ProcessProject, Found
    <3> QED
      BY <3>1 DEF Findable, ElementsOf, Named
  <2>2. Findable' \cap shadowed' = {}
    <3>1. \A t : ResolvedName(t)' = ResolvedName(t)
      BY <1>1 DEF ResolvedName, ResolvePath, InProject
    <3>2. ASSUME NEW n \in DOMAIN targets_by_resolved_name'
          PROVE  targets_by_resolved_name'[n] \notin shadowed'
      <4>1. PICK t : t = targets_by_resolved_name'[n]
        OBVIOUS
      <4>2. t \in {u \in Known' : ResolvedName(u)' = n}
        BY <1>4, <3>2, <4>1 DEF RInv, ResolutionTypeOK
      <4>3. ResolvedName(t) = n
        BY <3>1, <4>2
      <4> QED
        BY <1>1, <4>1, <4>3
    <3> QED
      BY <3>2 DEF Findable, ElementsOf
  <2> QED
    BY <1>1, <2>1, <2>2 DEF DInv, NamesOK, DepsOf, call
<1>11. LoopPart'
  <2>1. /\ mtime' \in [Targets -> 0..MaxTime] /\ now' \in 0..MaxTime
        /\ shadowed' \subseteq Targets /\ ResolutionTypeOK'
    BY <1>1, <1>4 DEF files, DInv, LoopPart, LoopOK, TypeOK, RInv
  <2> QED
    BY <1>6, <1>7, <2>1, TypesGivenNext, FreshLoopNext
<1>12. AroundOK'
  BY DEF DInv, AroundOK, around, history
<1> QED
  BY <1>4, <1>6, <1>7, <1>8, <1>9, <1>10, <1>11, <1>12 DEF DInv

(* What targets mention is resolved as far as it can be.                   *)
LEMMA ResolveAllKeeps ==
  ASSUME DInv, ResolveAll
  PROVE  DInv'
<1> USE DEF ResolveAll
<1>1. PICK S \in SUBSET (Known \ resolved) : Resolve(S)
  BY AllAreTried
<1>2. /\ stage = "resolving" /\ stage' = "loading" /\ next_dlh' = next_dlh + 1
      /\ UNCHANGED <<kind, library, traits, list, input_files, dl_handles, thrown, pt_alive,
                     files, call, processed, processed_projects,
                     targets_by_resolved_name, shadowed>>
  BY <1>1 DEF Resolve, given, opening
<1>3. RInv' /\ MInv'
  BY <1>1, AllAreTried, ResolveKeeps, ResolveKeepsMeaning DEF DInv
<1>4. InstalledOK' /\ OpenedOK'
  BY <1>2, InstalledStays DEF DInv, OpenedOK, Open, Constructed
<1>5. StageOK' /\ LoopInit'
  <2>1. LoopInit'
    BY <1>2, LoopInitStays DEF DInv, StageOK
  <2> QED
    BY <1>2, <2>1 DEF DInv, StageOK, Stages
<1>6. LoadingOK'
  <2>1. next_dlh \in 1..Len(input_files) /\ Len(input_files) \in Nat
    BY <1>2 DEF DInv, LoadingOK, OpenedOK
  <2>2. Read' = Read
    BY <1>2, <2>1 DEF Read
  <2>3. FirstsOf(Read)' = FirstsOf(Read) /\ NoClashIn(Read)' = NoClashIn(Read)
        /\ \A l : Versioned(l)' = Versioned(l)
    BY <1>2, <2>2 DEF FirstsOf, NoClashIn, Versioned
  <2>4. all_resolved' <=> AllMentionsMean'
    <3>1. all_resolved' <=> AllMentionsMean
      BY <1>2, <1>3, VerdictIsRight DEF DInv, LoadingOK, AllMentionsMean
    <3> QED
      BY <1>2, <3>1, MentionsStay
  <2> QED
    BY <1>2, <2>1, <2>3, <2>4 DEF DInv, LoadingOK, ElementsOf
<1>7. VerdictOK'
  BY <1>2, LibraryNotionsStay DEF DInv, VerdictOK
<1>8. NamesOK'
  <2>1. ASSUME NEW t, NEW raw, Determine(t, raw) # NoTarget
        PROVE  Determine(t, raw) \in Findable
    <3>1. Hits(t, raw) # {}
      BY <2>1 DEF Determine
    <3>2. PICK i \in {1, 2, 3} :
            /\ Readings(t, raw)[i] \in Named
            /\ Determine(t, raw) = targets_by_resolved_name[Readings(t, raw)[i]]
      BY <3>1, FirstReading
    <3> QED
      BY <3>2 DEF Findable, ElementsOf, Named
  <2>2. ASSUME NEW t \in Targets
        PROVE  DepsOf(t)' \subseteq Findable
    <3>1. CASE t \in S /\ Resolvable(t)
      <4>1. deps'[t] = Determined(t)
        BY <1>1, <3>1 DEF Resolve
      <4>2. \A i \in DOMAIN Determined(t) : Determined(t)[i] \in Findable
        BY <2>1, <3>1 DEF Resolvable, Determined, ElementsOf
      <4> QED
        BY <4>1, <4>2 DEF DepsOf
    <3>2. CASE ~(t \in S /\ Resolvable(t))
      <4>1. deps'[t] = deps[t]
        BY <1>1, <3>2 DEF Resolve
      <4> QED
        BY <4>1 DEF DInv, NamesOK, DepsOf
    <3> QED
      BY <3>1, <3>2
  <2>3. Findable' = Findable
    BY <1>2 DEF Findable, ElementsOf
  <2> QED
    BY <1>2, <2>2, <2>3 DEF DInv, NamesOK, call
<1>9. LoopPart'
  <2>1. /\ mtime' \in [Targets -> 0..MaxTime] /\ now' \in 0..MaxTime
        /\ shadowed' \subseteq Targets /\ ResolutionTypeOK'
    BY <1>2, <1>3 DEF files, DInv, LoopPart, LoopOK, TypeOK, RInv
  <2> QED
    BY <1>4, <1>5, <2>1, TypesGivenNext, FreshLoopNext
<1>10. AroundOK'
  BY DEF DInv, AroundOK, around, history
<1> QED
  BY <1>3, <1>4, <1>5, <1>6, <1>7, <1>8, <1>9, <1>10 DEF DInv

-----------------------------------------------------------------------------
(* The end of the loading.                                                 *)

(* Once the loop over the handles is through, what it loaded, and what it  *)
(* finds of it, is what the libraries alone say.                           *)
LEMMA LoadedAll ==
  ASSUME DInv, stage \in {"loading", "building", "listing"},
         next_dlh = Len(input_files) + 1
  PROVE  processed = ToLoad /\ ~VersionsClash /\ (all_resolved <=> AllMeant)
<1>1. /\ input_files \in Seq(Libraries) /\ Len(input_files) \in Nat
      /\ DOMAIN input_files = 1..Len(input_files)
  BY DEF DInv, OpenedOK
<1>2. Read = DOMAIN input_files
  <2>1. stage # "resolving" /\ next_dlh - 1 = Len(input_files)
    BY <1>1
  <2> QED
    BY <1>1, <2>1 DEF Read
<1>3. /\ processed = FirstsOf(DOMAIN input_files) /\ NoClashIn(DOMAIN input_files)
      /\ (all_resolved <=> AllMentionsMean)
  BY <1>2 DEF DInv, LoadingOK
<1>4. processed = ToLoad
  BY <1>1, <1>3 DEF FirstsOf, ToLoad, WithProject, ElementsOf
<1>5. ~VersionsClash
  BY <1>3 DEF NoClashIn, VersionsClash, WithProject, ElementsOf
<1>6. \A l \in processed : list[l] = library[l].targets
  <2>1. Open = ElementsOf(input_files)
    BY <1>1 DEF DInv, OpenedOK, Constructed, Open, ElementsOf
  <2>2. processed \subseteq Open /\ Open \subseteq Libraries
    BY <1>1, <2>1 DEF DInv, LoadingOK, ElementsOf
  <2> QED
    BY <2>2 DEF DInv, OpenedOK, Constructed
<1>7. AllMentionsMean <=> AllMeant
  BY <1>4, <1>6 DEF AllMentionsMean, AllMeant, Known, ElementsOf
<1> QED
  BY <1>3, <1>4, <1>5, <1>7

(* Process ends with a verdict on what was loaded.                         *)
LEMMA EndLoadingKeeps ==
  ASSUME DInv, EndLoading
  PROVE  DInv'
<1> USE DEF EndLoading, Throw
<1>1. /\ stage = "loading" /\ stage' \in {"unwinding", "building", "listing"}
      /\ thrown' = thrown \/ (thrown' = "unresolved" /\ ~all_resolved)
      /\ stage' # "unwinding" => all_resolved
      /\ to_list' \in {to_list, Known}
      /\ UNCHANGED <<kind, library, traits, list, processed, targets_by_resolved_name,
                     unresolved, all_resolved, resolved, deps, dep_of,
                     input_files, dl_handles, next_dlh, processed_projects, pt_alive,
                     requested, shadowed, vars, around, history>>
  BY DEF installed, loaded, opening, loop, vars, graph, call
<1>2. next_dlh = Len(input_files) + 1 /\ Len(input_files) \in Nat
  BY DEF DInv, LoadingOK, OpenedOK
<1>3. ~VersionsClash /\ (all_resolved <=> AllMeant)
  BY <1>2, LoadedAll
<1>4. InstalledOK' /\ OpenedOK'
  BY <1>1, InstalledStays DEF DInv, OpenedOK, Open, Constructed
<1>5. StageOK'
  <2>1. LoopInit'
    BY <1>1, LoopInitStays DEF DInv, StageOK, vars
  <2> QED
    BY <1>1, <2>1 DEF DInv, StageOK, Stages, Exceptions
<1>6. LoadingOK'
  <2>1. Read' = Read
    BY <1>1 DEF Read
  <2>2. FirstsOf(Read)' = FirstsOf(Read) /\ NoClashIn(Read)' = NoClashIn(Read)
        /\ \A l : Versioned(l)' = Versioned(l)
    BY <1>1, <2>1 DEF FirstsOf, NoClashIn, Versioned
  <2>3. AllMentionsMean' = AllMentionsMean
    BY <1>1, MentionsStay
  <2> QED
    BY <1>1, <1>2, <2>2, <2>3 DEF DInv, LoadingOK, ElementsOf
<1>7. VerdictOK'
  BY <1>1, <1>3, LibraryNotionsStay DEF DInv, VerdictOK
<1>8. RInv' /\ MInv'
  BY <1>1, StutteringKeepsResolution, StutteringKeepsMeaning
     DEF DInv, resolutionVars, given
<1>9. NamesOK'
  BY <1>1 DEF DInv, NamesOK, Findable, DepsOf, ElementsOf
<1>10. LoopPart'
  BY <1>1, QuietLoopStays DEF DInv
<1>11. AroundOK'
  <2>1. Known \subseteq Targets
    BY KnownAreTargets DEF DInv, RInv
  <2> QED
    BY <1>1, <2>1 DEF DInv, AroundOK, around, history
<1> QED
  BY <1>4, <1>5, <1>6, <1>7, <1>8, <1>9, <1>10, <1>11 DEF DInv

-----------------------------------------------------------------------------
(* The inductive invariant.                                                *)

(* The first process, before it opens anything.                            *)
LEMMA InitKeeps ==
  ASSUME DriverInit
  PROVE  DInv
<1> USE DEF DriverInit
<1>1. InstalledOK
  BY DriverAssumption DEF InstalledOK
<1>2. input_files \in Seq(Libraries)
  BY DriverAssumption
<1>3. OpenedOK
  BY <1>2 DEF OpenedOK, Open, Constructed
<1>4. list \in [Libraries -> Seq(Targets)]
  OBVIOUS
<1>5. RInv /\ MInv
  BY <1>1, <1>3, <1>4, FreshResolution
<1>6. StageOK
  BY DEF StageOK, Stages, Exceptions
<1>7. LoadingOK /\ VerdictOK
  BY <1>2 DEF LoadingOK, VerdictOK, NothingLoaded
<1>8. NamesOK
  BY DEF NamesOK, DepsOf, NothingLoaded, LoopInit
<1>9. LoopPart
  <2>1. mtime \in [Targets -> 0..MaxTime] /\ now \in 0..MaxTime
    BY BoundsAssumption DEF FilesInit
  <2>2. ResolutionTypeOK
    BY <1>5 DEF RInv
  <2> QED
    BY <1>1, <2>1, <2>2, TypesGiven, FreshLoopPart
<1>10. AroundOK
  BY DriverAssumption DEF AroundOK, ExitStatuses, Contents
<1> QED
  BY <1>1, <1>3, <1>5, <1>6, <1>7, <1>8, <1>9, <1>10 DEF DInv

(* A step of something else.                                               *)
LEMMA StutteringKeepsDriver ==
  ASSUME DInv, UNCHANGED allvars
  PROVE  DInv'
<1>1. UNCHANGED <<vars, installed, loaded, opening, loop, leaving, pt_alive, to_list,
                  around, history, graph, requested>>
  BY DEF allvars, driver, vars, call
<1>2. requested' \subseteq Findable
  BY <1>1 DEF DInv, NamesOK
<1>3. /\ InstalledOK' /\ OpenedOK' /\ LoadingOK' /\ VerdictOK'
      /\ RInv' /\ MInv' /\ NamesOK'
  BY <1>1, <1>2, LoadedStays DEF opening, leaving
<1>4. StageOK'
  <2>1. LoopInit => LoopInit'
    BY <1>1, LoopInitStays DEF vars
  <2> QED
    BY <1>1, <2>1 DEF DInv, StageOK, NothingLoaded, leaving, loaded, loop, graph, vars, sched
<1>5. LoopPart'
  BY <1>1, QuietLoopStays DEF DInv, leaving
<1>6. AroundOK'
  BY <1>1 DEF DInv, AroundOK, around, history
<1> QED
  BY <1>3, <1>4, <1>5, <1>6 DEF DInv

(* Every step of the program, and what happens around it, keeps the        *)
(* invariant.                                                              *)
LEMMA DriverKeeps ==
  ASSUME DInv, [DriverNext]_allvars
  PROVE  DInv'
<1>1. CASE ProcessStep
  <2>1. CASE OpenLibrary \/ Construct
    BY <2>1, OpenLibraryKeeps, ConstructKeeps
  <2>2. CASE SkipLibrary \/ ThrowVersion \/ ProcessLibrary \/ ResolveAll \/ EndLoading
    BY <2>2, SkipLibraryKeeps, ThrowVersionKeeps, ProcessLibraryKeeps, ResolveAllKeeps,
       EndLoadingKeeps
  <2>3. CASE (\E R \in SUBSET Targets : RequestBuild(R)) \/ BuildStep
    BY <2>3, BuildingKeeps
  <2>4. CASE \E t \in Targets : ListTarget(t)
    BY <2>4, ListTargetKeeps
  <2>5. CASE \/ Refuse \/ RequestUnknown \/ BuildEnds \/ ListingEnds
             \/ DestroyTargets \/ Joined \/ CloseLibraries \/ Exit
    BY <2>5, LeavingKeeps
  <2>6. CASE StopWorkers
    BY <2>6, StopWorkersKeeps
  <2> QED
    BY <1>1, <2>1, <2>2, <2>3, <2>4, <2>5, <2>6 DEF ProcessStep
<1>2. CASE (\E r \in queued : DriverStartRecipe(r)) \/ (\E r \in running : DriverRecipe(r))
  BY <1>2, BuildingKeeps
<1>3. CASE \/ Kill
           \/ \E t \in Targets : \E time \in {0} \cup NextTick : Edit(t, time)
  BY <1>3, OutsideKeeps
<1>4. CASE Restart
  BY <1>4, RestartKeeps
<1>5. CASE UNCHANGED allvars
  BY <1>5, StutteringKeepsDriver
<1> QED
  BY <1>1, <1>2, <1>3, <1>4, <1>5 DEF DriverNext

(* The invariant of the program.                                           *)
THEOREM DriverInvariant == DriverSafety => []DInv
<1>1. DriverInit => DInv
  BY InitKeeps
<1>2. DInv /\ [DriverNext]_allvars => DInv'
  BY DriverKeeps
<1> QED
  BY <1>1, <1>2, PTL DEF DriverSafety

-----------------------------------------------------------------------------
(* What follows from it.                                                   *)

(* The variables of the program have their types in every process.         *)
THEOREM DriverTypeCorrect == DriverSafety => []DriverTypeOK
<1>1. DInv => DriverTypeOK
  BY DEF DInv, OpenedOK, StageOK, LoadingOK, RInv, LoopPart, LoopOK, AroundOK, DriverTypeOK
<1> QED
  BY <1>1, DriverInvariant, PTL

(* The loop over the libraries of assignment.cxx ends with the verdict the *)
(* libraries deserve, whatever they are and in whatever order they are     *)
(* given.                                                                  *)
THEOREM LoadingVerdict == DriverSafety => []LoadVerdict
<1>1. ASSUME DInv
      PROVE  LoadVerdict
  <2>1. stage \in {"building", "listing"} =>
          next_dlh = Len(input_files) + 1 /\ all_resolved
    BY <1>1 DEF DInv, LoadingOK
  <2> QED
    BY <1>1, <2>1, LoadedAll DEF DInv, VerdictOK, LoadVerdict
<1> QED
  BY <1>1, DriverInvariant, PTL

(* No recipe runs, and no processed_targets exists, once a library whose   *)
(* code they use may be closed: the order of the destructors in process()  *)
(* sees to it, on every way out.                                           *)
THEOREM CodeIsLoaded == DriverSafety => []CodeStaysLoaded
<1>1. ASSUME DInv, stage # "exited"
      PROVE  CodeStaysLoaded
  <2>1. stage \in Constructed =>
          Known \subseteq UNION {ElementsOf(library[l].targets) : l \in Open}
    <3>1. SUFFICES ASSUME stage \in Constructed
                   PROVE  \A p \in processed : p \in Open /\ list[p] = library[p].targets
      BY DEF Known
    <3>2. Open = ElementsOf(input_files) /\ Open \subseteq Libraries
      BY <1>1, <3>1 DEF DInv, OpenedOK, Open, ElementsOf
    <3> QED
      BY <1>1, <3>1, <3>2 DEF DInv, LoadingOK, OpenedOK
  <2>2. stage \notin Constructed => running = {} /\ ~pt_alive
    BY <1>1 DEF DInv, StageOK, Stages, Constructed, LoopInit, Sched!Init
  <2>3. \A r \in running : r.tgt \in Known
    BY <1>1 DEF DInv, RInv, LoopPart, LoopOK, OnePlace, OneState, Started, Live, Handled
  <2> QED
    BY <2>1, <2>2, <2>3 DEF CodeStaysLoaded
<1>2. DInv => CodeStaysLoaded
  BY <1>1 DEF CodeStaysLoaded
<1> QED
  BY <1>2, DriverInvariant, PTL

(* Without stale links the two directions of a link agree, which the loop  *)
(* depends on.                                                             *)
LEMMA LinksAgreeUnlessStale ==
  ASSUME RInv, NoStaleLink
  PROVE  GraphOK
BY DEF RInv, ResolutionTypeOK, NoLinkMissing, NoStaleLink, GraphOK, DepsOf, ElementsOf

(* Every recipe waits for the dependencies of its target, in every process *)
(* over any libraries whose failed attempts left no link behind.           *)
THEOREM DriverBuildsInOrder == DriverSafety => []OrderedUnlessStale
<1>1. DInv => OrderedUnlessStale
  BY LinksAgreeUnlessStale
     DEF DInv, LoopPart, LoopOK, Ready, OrderedUnlessStale, DepsBuiltFirst, Started, Live,
         Handled
<1> QED
  BY <1>1, DriverInvariant, PTL

(* The loop only comes to targets that names find: those requested by      *)
(* name, and what they were linked to by name.                             *)
LEMMA BuiltAreFindable ==
  ASSUME RInv, NamesOK
  PROVE  Below(requested) \subseteq Findable
<1>1. Findable \in SUBSET Targets
  <2>1. Known \subseteq Targets
    BY KnownAreTargets DEF RInv
  <2> QED
    BY <2>1 DEF Findable, ElementsOf, RInv, ResolutionTypeOK
<1>2. \A n \in Findable : DepsOf(n) \subseteq Findable
  BY <1>1 DEF NamesOK
<1> QED
  BY <1>1, <1>2, BelowIsLeast DEF NamesOK

(* The only internal error the program can meet is that over an alias of   *)
(* nothing, unless a failed attempt has left a link behind.                *)
THEOREM InternalErrorIsEmptyAlias == DriverSafety => []OnlyEmptyAliasIsInternal
<1>1. ASSUME DInv
      PROVE  OnlyEmptyAliasIsInternal
  <2>1. Below(requested) \cap shadowed = {}
    BY <1>1, BuiltAreFindable DEF DInv, NamesOK
  <2>2. NoStaleLink => InternalErrorsExplained
    BY <1>1, LinksAgreeUnlessStale DEF DInv, LoopPart
  <2> QED
    BY <2>1, <2>2 DEF OnlyEmptyAliasIsInternal, InternalErrorsExplained
<1> QED
  BY <1>1, DriverInvariant, PTL

(* A process runs no recipe for a target that is built, whatever links     *)
(* were left behind.                                                       *)
THEOREM DriverBuildsOnce == DriverSafety => []OncePerTarget
<1>1. DInv => OncePerTarget
  BY DEF DInv, LoopPart, LoopOK, OneState, OncePerTarget, Started, Live, Handled
<1> QED
  BY <1>1, DriverInvariant, PTL

(* Over libraries whose names are unambiguous every process builds in      *)
(* order: then failed attempts to resolve leave no stale link behind.      *)
THEOREM UnambiguousBuildInOrder == DriverSafety => [](Unambiguous => DepsBuiltFirst)
<1>1. DInv => (Unambiguous => NoStaleLink)
  BY MirroredIfMeant DEF DInv, LinksMirrorDeps
<1>2. (Unambiguous => NoStaleLink) /\ OrderedUnlessStale => (Unambiguous => DepsBuiltFirst)
  BY DEF OrderedUnlessStale
<1> QED
  BY <1>1, <1>2, DriverInvariant, DriverBuildsInOrder, PTL

-----------------------------------------------------------------------------
(* What the libraries mean, whichever of them are open.                    *)

(* The notions of DepResolution that do not look at lists are the same of  *)
(* all libraries together.                                                 *)
LEMMA InstalledNotions ==
  /\ \A s : Installed!ElementsOf(s) = ElementsOf(s)
  /\ \A t : Installed!ResolvedName(t) = ResolvedName(t)
  /\ \A t, raw : Installed!Readings(t, raw) = Readings(t, raw)
  /\ \A t, raw : Installed!InProject(t, raw) = InProject(t, raw)
BY DEF Installed!ElementsOf, ElementsOf, Installed!ResolvedName, ResolvedName,
       Installed!Readings, Readings, Installed!ResolvePath, ResolvePath,
       Installed!InProject, InProject

(* A name that something open bears is borne by nothing else installed.    *)
LEMMA SameBearers ==
  ASSUME OpenedOK, NEW n
  PROVE  /\ Bearers(Projects, n) \subseteq Installed!Bearers(Projects, n)
         /\ \A p \in Projects : NamesOf(p) \subseteq Installed!NamesOf(p)
         /\ \A x \in Installed!Bearers(Projects, n) :
              /\ x = <<x[1], x[2]>> /\ x[1] \in Projects
              /\ x[2] \in DOMAIN library[x[1]].targets
              /\ n \in Installed!NamesOf(x[1])
              /\ list[x[1]] = library[x[1]].targets => x \in Bearers(Projects, n)
         /\ Installed!Unambiguous /\ Bearers(Projects, n) # {} =>
              Installed!Bearers(Projects, n) = Bearers(Projects, n)
<1>1. \A p \in Projects : list[p] = <<>> \/ list[p] = library[p].targets
  BY DEF OpenedOK, Libraries
<1>2. Bearers(Projects, n) =
        {x \in UNION {{p} \X DOMAIN list[p] : p \in Projects} :
           ResolvedName(list[x[1]][x[2]]) = n}
  BY DEF Bearers
<1>3. Installed!Bearers(Projects, n) =
        {x \in UNION {{p} \X DOMAIN library[p].targets : p \in Projects} :
           ResolvedName(library[x[1]].targets[x[2]]) = n}
  BY InstalledNotions DEF Installed!Bearers, Libraries
<1>4. \A p \in Projects : \A i \in DOMAIN list[p] :
        list[p] = library[p].targets /\ i \in DOMAIN library[p].targets
  BY <1>1
<1>5. Bearers(Projects, n) \subseteq Installed!Bearers(Projects, n)
  <2>1. ASSUME NEW x \in Bearers(Projects, n)
        PROVE  x \in Installed!Bearers(Projects, n)
    <3>1. PICK p \in Projects : x \in {p} \X DOMAIN list[p]
      BY <1>2
    <3>2. x[1] = p /\ x[2] \in DOMAIN list[p] /\ x \in {p} \X DOMAIN library[p].targets
      BY <1>4, <3>1
    <3> QED
      BY <1>2, <1>3, <1>4, <3>2
  <2> QED
    BY <2>1
<1>6. ASSUME NEW x \in Installed!Bearers(Projects, n)
      PROVE  /\ x = <<x[1], x[2]>> /\ x[1] \in Projects
             /\ x[2] \in DOMAIN library[x[1]].targets
             /\ n \in Installed!NamesOf(x[1])
             /\ list[x[1]] = library[x[1]].targets => x \in Bearers(Projects, n)
  <2>1. PICK p \in Projects : x \in {p} \X DOMAIN library[p].targets
    BY <1>3
  <2>2. /\ x = <<x[1], x[2]>> /\ x[1] = p /\ x[2] \in DOMAIN library[p].targets
        /\ ResolvedName(library[p].targets[x[2]]) = n
    BY <1>3, <2>1
  <2>3. n \in Installed!NamesOf(p)
    BY <2>2, InstalledNotions DEF Installed!NamesOf, ElementsOf, Libraries
  <2>4. list[p] = library[p].targets => x \in Bearers(Projects, n)
    BY <1>2, <2>1, <2>2
  <2> QED
    BY <2>2, <2>3, <2>4
<1>7. \A p \in Projects : NamesOf(p) \subseteq Installed!NamesOf(p)
  BY <1>4, InstalledNotions DEF NamesOf, Installed!NamesOf, ElementsOf, Libraries
<1>8. ASSUME Installed!Unambiguous, NEW y \in Bearers(Projects, n),
             NEW x \in Installed!Bearers(Projects, n)
      PROVE  x \in Bearers(Projects, n)
  <2>1. y[1] \in Projects /\ list[y[1]] = library[y[1]].targets
    <3>1. PICK p \in Projects : y \in {p} \X DOMAIN list[p]
      BY <1>2
    <3> QED
      BY <1>4, <3>1
  <2>2. n \in Installed!NamesOf(y[1]) /\ n \in Installed!NamesOf(x[1])
    BY <1>5, <1>6
  <2>3. x[1] = y[1]
    BY <1>6, <1>8, <2>1, <2>2 DEF Installed!Unambiguous
  <2> QED
    BY <1>6, <2>1, <2>3
<1> QED
  BY <1>5, <1>6, <1>7, <1>8

(* Names that are clear among all libraries are clear among those open.    *)
LEMMA OpenAreUnambiguous ==
  ASSUME OpenedOK, Installed!Unambiguous
  PROVE  Unambiguous
<1>1. ASSUME NEW p \in Projects, NEW q \in Projects, p # q
      PROVE  /\ NamesOf(p) \cap NamesOf(q) = {}
             /\ \A t \in ElementsOf(list[p]) : \A raw \in ElementsOf(traits[t].raw_deps) :
                  InProject(traits[t].project, raw) \notin NamesOf(q)
  <2>1. NamesOf(p) \subseteq Installed!NamesOf(p) /\ NamesOf(q) \subseteq Installed!NamesOf(q)
    BY SameBearers
  <2>2. ElementsOf(list[p]) \subseteq ElementsOf(library[p].targets)
    BY DEF OpenedOK, Libraries, ElementsOf
  <2>3. /\ Installed!NamesOf(p) \cap Installed!NamesOf(q) = {}
        /\ \A t \in ElementsOf(library[p].targets) : \A raw \in ElementsOf(traits[t].raw_deps) :
             InProject(traits[t].project, raw) \notin Installed!NamesOf(q)
    BY <1>1, InstalledNotions DEF Installed!Unambiguous, Libraries
  <2> QED
    BY <2>1, <2>2, <2>3
<1>2. ASSUME NEW t \in Targets, NEW raw \in ElementsOf(traits[t].raw_deps),
             NEW n \in ElementsOf(Readings(t, raw)), Bearers(Projects, n) # {},
             raw \in ElementsOf(Readings(t, raw)), Bearers(Projects, raw) # {}
      PROVE  n = raw
  <2>1. Installed!Bearers(Projects, n) # {} /\ Installed!Bearers(Projects, raw) # {}
    BY <1>2, SameBearers
  <2> QED
    BY <1>2, <2>1, InstalledNotions DEF Installed!Unambiguous
<1>3. ASSUME NEW t \in Targets, NEW raw \in ElementsOf(traits[t].raw_deps)
      PROVE  LET used == {n \in ElementsOf(Readings(t, raw)) : Bearers(Projects, n) # {}}
             IN  raw \in used => used = {raw}
  BY <1>2
<1> QED
  BY <1>1, <1>3 DEF Unambiguous

(* What is meant by a mention that means anything among the libraries that *)
(* are open is what it means among all of them.                            *)
LEMMA OpenMeaning ==
  ASSUME InstalledOK, OpenedOK, Installed!Unambiguous,
         NEW p \in Projects, NEW t \in ElementsOf(list[p]), t \in Targets,
         NEW raw \in ElementsOf(traits[t].raw_deps),
         Meant(Projects, t, raw) # {}
  PROVE  Installed!Meant(Projects, t, raw) = Meant(Projects, t, raw)
<1> DEFINE m == Readings(t, raw)
           B(n) == Bearers(Projects, n)
           C(n) == Installed!Bearers(Projects, n)
<1>1. /\ DOMAIN m = {1, 2, 3} /\ m[1] = raw
      /\ m[2] = InProject(traits[t].project, raw)
  BY DEF Readings
<1>2. \A n : B(n) \subseteq C(n) /\ (B(n) # {} => C(n) = B(n))
  BY SameBearers
<1>3. PICK k \in DOMAIN m : B(m[k]) # {} /\ \A j \in 1..(k - 1) : B(m[j]) = {}
  BY DEF Meant
<1>4. \A j \in 1..(k - 1) : C(m[j]) = {}
  <2>1. CASE k = 1
    BY <2>1
  <2>2. CASE k \in {2, 3}
    <3>1. C(raw) = {}
      <4>1. SUFFICES ASSUME C(raw) # {}
                     PROVE  FALSE
        OBVIOUS
      <4>2. raw \in ElementsOf(m) /\ m[k] \in ElementsOf(m)
        BY <1>1, <1>3 DEF ElementsOf
      <4>3. C(m[k]) # {}
        BY <1>2, <1>3
      <4>4. m[k] = raw
        BY <4>1, <4>2, <4>3, InstalledNotions DEF Installed!Unambiguous
      <4> QED
        BY <1>1, <1>3, <2>2, <4>4
    <3>2. k = 3 => C(m[2]) = {}
      <4>1. SUFFICES ASSUME k = 3, NEW x \in C(m[2])
                     PROVE  FALSE
        OBVIOUS
      <4>2. /\ x[1] \in Projects /\ m[2] \in Installed!NamesOf(x[1])
            /\ list[x[1]] = library[x[1]].targets => x \in B(m[2])
        BY SameBearers
      <4>3. list[p] = library[p].targets
        BY DEF OpenedOK, Libraries, ElementsOf
      <4>4. x[1] # p
        BY <1>3, <4>1, <4>2, <4>3
      <4>5. t \in ElementsOf(library[p].targets)
        BY <4>3
      <4> QED
        BY <1>1, <4>2, <4>4, <4>5, InstalledNotions DEF Installed!Unambiguous, Libraries
    <3> QED
      BY <1>1, <1>3, <2>2, <3>1, <3>2
  <2> QED
    BY <1>1, <2>1, <2>2
<1>5. Meant(Projects, t, raw) =
        {list[x[1]][x[2]] : x \in {y \in B(m[k]) : \A z \in B(m[k]) : y[2] <= z[2]}}
  <2>1. \A y : (\E i \in DOMAIN m :
                 /\ y \in B(m[i])
                 /\ \A j \in 1..(i - 1) : B(m[j]) = {}
                 /\ \A z \in B(m[i]) : y[2] <= z[2])
               <=> y \in B(m[k]) /\ \A z \in B(m[k]) : y[2] <= z[2]
    <3>1. ASSUME NEW i \in DOMAIN m, B(m[i]) # {}, \A j \in 1..(i - 1) : B(m[j]) = {}
          PROVE  i = k
      BY <1>1, <1>3, <3>1
    <3> QED
      BY <1>3, <3>1
  <2> QED
    BY <2>1 DEF Meant
<1>6. Installed!Meant(Projects, t, raw) =
        {library[x[1]].targets[x[2]] :
           x \in {y \in C(m[k]) : \A z \in C(m[k]) : y[2] <= z[2]}}
  <2>1. \A y : (\E i \in DOMAIN m :
                 /\ y \in C(m[i])
                 /\ \A j \in 1..(i - 1) : C(m[j]) = {}
                 /\ \A z \in C(m[i]) : y[2] <= z[2])
               <=> y \in C(m[k]) /\ \A z \in C(m[k]) : y[2] <= z[2]
    <3>1. ASSUME NEW i \in DOMAIN m, C(m[i]) # {}, \A j \in 1..(i - 1) : C(m[j]) = {}
          PROVE  i = k
      BY <1>1, <1>2, <1>3, <1>4, <3>1
    <3> QED
      BY <1>3, <1>4, <3>1
  <2> DEFINE all == [l \in Libraries |-> library[l].targets]
             first == {y \in UNION {C(m[i]) : i \in DOMAIN m} :
                         \E i \in DOMAIN m :
                           /\ y \in C(m[i])
                           /\ \A j \in 1..(i - 1) : C(m[j]) = {}
                           /\ \A z \in C(m[i]) : y[2] <= z[2]}
  <2>2. \A x \in C(m[k]) : all[x[1]] = library[x[1]].targets
    BY SameBearers DEF Libraries
  <2>3. Installed!Readings(t, raw) = m
    BY InstalledNotions
  <2>4. Installed!Meant(Projects, t, raw) = {all[x[1]][x[2]] : x \in first}
    BY <2>3 DEF Installed!Meant
  <2>5. first = {y \in C(m[k]) : \A z \in C(m[k]) : y[2] <= z[2]}
    BY <2>1
  <2> HIDE DEF all, first
  <2> QED
    BY <2>2, <2>4, <2>5
<1>7. \A x \in B(m[k]) : list[x[1]][x[2]] = library[x[1]].targets[x[2]]
  BY BearersAreNames DEF OpenedOK, Libraries
<1> HIDE DEF m, B, C
<1> QED
  BY <1>2, <1>3, <1>5, <1>6, <1>7

(* What a target depends on, and what it sees, once everything is open.    *)
AllDepsOf(t) ==
  UNION {Installed!Meant(Projects, t, raw) : raw \in ElementsOf(traits[t].raw_deps)}

AllSeenFrom(t) ==
  {d \in Targets :
     \A N \in SUBSET Targets :
       /\ AllDepsOf(t) \subseteq N
       /\ \A n \in N : HandsOn(n) => AllDepsOf(n) \subseteq N
       => d \in N}

(* What is meant are targets of the libraries.                             *)
LEMMA MeantAreTargets ==
  ASSUME InstalledOK, NEW t
  PROVE  AllDepsOf(t) \subseteq Targets
<1>1. ASSUME NEW raw, NEW d \in Installed!Meant(Projects, t, raw)
      PROVE  d \in Targets
  <2> DEFINE all == [l \in Libraries |-> library[l].targets]
  <2>1. PICK n, x : x \in Installed!Bearers(Projects, n) /\ d = all[x[1]][x[2]]
    BY <1>1 DEF Installed!Meant
  <2>2. PICK p \in Projects : x \in {p} \X DOMAIN all[p]
    BY <2>1 DEF Installed!Bearers
  <2>3. d = library[p].targets[x[2]] /\ x[2] \in DOMAIN library[p].targets
    BY <2>1, <2>2 DEF Libraries
  <2> QED
    BY <2>3 DEF InstalledOK, Libraries
<1> QED
  BY <1>1 DEF AllDepsOf

(* AllSeenFrom(t) is the least set that SeenFrom(t) is once it is known.   *)
LEMMA AllSeenIsClosed ==
  ASSUME InstalledOK, NEW t
  PROVE  /\ AllSeenFrom(t) \subseteq Targets
         /\ AllDepsOf(t) \subseteq AllSeenFrom(t)
         /\ \A n \in AllSeenFrom(t) : HandsOn(n) => AllDepsOf(n) \subseteq AllSeenFrom(t)
         /\ \A N \in SUBSET Targets :
              /\ AllDepsOf(t) \subseteq N
              /\ \A n \in N : HandsOn(n) => AllDepsOf(n) \subseteq N
              => AllSeenFrom(t) \subseteq N
<1>1. \A n : AllDepsOf(n) \subseteq Targets
  BY MeantAreTargets
<1> QED
  BY <1>1 DEF AllSeenFrom

(* Neither changes with what is loaded.                                    *)
LEMMA MeaningOfAllStays ==
  ASSUME UNCHANGED <<kind, library, traits>>
  PROVE  /\ \A t : AllSeenFrom(t)' = AllSeenFrom(t)
         /\ Installed!Unambiguous' <=> Installed!Unambiguous
<1> USE DEF Installed!Bearers, Installed!Readings, Installed!ResolvedName,
            Installed!ResolvePath, Installed!InProject, Installed!ElementsOf
<1>1. \A t, raw : Installed!Meant(Projects, t, raw)' = Installed!Meant(Projects, t, raw)
  BY DEF Installed!Meant
<1>2. \A t : AllDepsOf(t)' = AllDepsOf(t)
  BY <1>1 DEF AllDepsOf, ElementsOf
<1>3. \A t : AllSeenFrom(t)' = AllSeenFrom(t)
  BY <1>2 DEF AllSeenFrom, HandsOn
<1>4. Installed!Unambiguous' <=> Installed!Unambiguous
  BY DEF Installed!Unambiguous, Installed!NamesOf
<1> QED
  BY <1>3, <1>4

(* Where names are clear the links agree, with all that follows of the     *)
(* loop.                                                                   *)
LEMMA ClearNamesAgree ==
  ASSUME DInv, Installed!Unambiguous
  PROVE  GraphOK /\ LoopOK /\ OInv /\ (stage # "exited" => IInv /\ SInv)
<1>1. Unambiguous
  BY OpenAreUnambiguous DEF DInv
<1>2. GraphOK
  BY <1>1, MirroredIfMeant, LinksAgreeUnlessStale DEF DInv, LinksMirrorDeps
<1> QED
  BY <1>2 DEF DInv, LoopPart, IInv, LInv

(* A resolved target has the dependencies that all libraries give it.      *)
LEMMA ResolvedAsMeant ==
  ASSUME DInv, Installed!Unambiguous, NEW t \in resolved
  PROVE  DepsOf(t) = AllDepsOf(t)
<1>1. PICK p \in Projects : t \in ElementsOf(list[p])
  BY DEF DInv, RInv, Known, ResolutionTypeOK
<1>2. t \in Targets
  BY DEF DInv, RInv, ResolutionTypeOK
<1>3. /\ DOMAIN deps[t] = DOMAIN traits[t].raw_deps
      /\ \A i \in DOMAIN deps[t] :
           Meant(Projects, t, traits[t].raw_deps[i]) = {deps[t][i]}
  BY OpenAreUnambiguous DEF DInv, MInv, LoadOrderIrrelevant
<1>4. \A i \in DOMAIN deps[t] :
        Installed!Meant(Projects, t, traits[t].raw_deps[i]) = {deps[t][i]}
  <2>1. \A i \in DOMAIN deps[t] : traits[t].raw_deps[i] \in ElementsOf(traits[t].raw_deps)
    BY <1>3 DEF ElementsOf
  <2> QED
    BY <1>1, <1>2, <1>3, <2>1, OpenMeaning DEF DInv
<1> QED
  BY <1>3, <1>4 DEF AllDepsOf, DepsOf, ElementsOf

(* And sees what it sees in all of them, all of which is built.            *)
LEMMA SeenAsMeant ==
  ASSUME DInv, Installed!Unambiguous, AttemptsOK,
         NEW t \in resolved, DepsOf(t) \subseteq built_targets
  PROVE  SeenFrom(t) = AllSeenFrom(t) /\ AllSeenFrom(t) \subseteq built_targets
<1>1. InstalledOK /\ TypeOK /\ t \in Targets /\ built_targets \subseteq resolved
  BY DEF LoopPart, LoopOK, TypeOK, DInv, AttemptsOK
<1>2. SeenFrom(t) \subseteq built_targets
  <2>1. /\ built_targets \in SUBSET Targets
        /\ \A n \in built_targets : DepsOf(n) \subseteq built_targets
    BY ClearNamesAgree DEF LoopOK, TypeOK, Ready
  <2> QED
    BY <2>1, SeenIsLeast
<1>3. \A n \in SeenFrom(t) \cup {t} : DepsOf(n) = AllDepsOf(n)
  BY <1>1, <1>2, ResolvedAsMeant
<1>4. AllSeenFrom(t) \subseteq SeenFrom(t)
  <2>1. /\ SeenFrom(t) \in SUBSET Targets /\ AllDepsOf(t) \subseteq SeenFrom(t)
        /\ \A n \in SeenFrom(t) : HandsOn(n) => AllDepsOf(n) \subseteq SeenFrom(t)
    BY <1>1, <1>3, SeenIsClosed
  <2> QED
    BY <1>1, <2>1, AllSeenIsClosed
<1>5. SeenFrom(t) \subseteq AllSeenFrom(t)
  <2>1. /\ AllSeenFrom(t) \in SUBSET Targets /\ DepsOf(t) \subseteq AllSeenFrom(t)
        /\ \A n \in AllSeenFrom(t) : HandsOn(n) => DepsOf(n) \subseteq AllSeenFrom(t)
    BY <1>1, <1>3, <1>4, AllSeenIsClosed
  <2> QED
    BY <2>1, SeenIsLeast
<1> QED
  BY <1>2, <1>4, <1>5

-----------------------------------------------------------------------------
(* The files over several processes.                                       *)

ClockOK == \A t \in Targets : mtime[t] <= now

(* The time of t is that of a write at which d already had its time, by    *)
(* the precise clock, or by the kernel's if t was created.                 *)
NotBehind(t, d) ==
  IF t \in created
  THEN KernelTime[mtime[t]] = mtime[t] /\ KernelTime[mtime[d]] <= mtime[t]
  ELSE mtime[d] <= mtime[t]

(* What the history says can be seen from modification times.              *)
HistoryOK ==
  \A t \in Targets :
    /\ content[t] # "other" => made_from[t] = AllSeenFrom(t)
    /\ content[t] = "current" =>
         mtime[t] # 0 /\ \A d \in AllSeenFrom(t) : NotBehind(t, d)
    /\ content[t] = "outdated" =>
         \E d \in AllSeenFrom(t) : HasFile(d) /\ (mtime[d] = 0 \/ mtime[t] < mtime[d])

(* A file that an earlier process made, and that was not looked at yet, is *)
(* older than the last tick: what is written from now on, or created, is   *)
(* newer.                                                                  *)
OldOK ==
  stage # "exited" =>
    \A t \in Targets \ Attempted : content[t] # "other" => mtime[t] < KernelTime[now]

(* What is built, or will be without another recipe, is what it should be. *)
SoundOK ==
  stage # "exited" =>
    /\ \A t \in built_targets : kind[t] = "file" => mtime[t] # 0
    /\ \A t \in Checked : content[t] # "outdated"

VainOK ==
  \A r \in ToBuild :
    kind[r.tgt] = "file" /\ content[r.tgt] = "current" =>
      \E d \in AllSeenFrom(r.tgt) : ExcusedBy(r.tgt, d)

(* The inductive invariant where names are clear.                          *)
HInv ==
  /\ ClockOK
  /\ HistoryOK
  /\ OldOK
  /\ AttemptsOK
  /\ AllBuilt
  /\ SoundOK
  /\ VainOK

(* Files written at once, by a recipe or from outside: what was made from  *)
(* them before is older than they are now, or they are gone.               *)
LEMMA WritingKeeps ==
  ASSUME DInv, ClockOK, HistoryOK, UNCHANGED <<kind, library, traits>>,
         NEW S \in SUBSET Targets, NEW how \in {"current", "other"}, Written(S, how),
         NEW stamp \in [Targets -> 0..MaxTime],
         mtime' = [t \in Targets |-> IF t \in S THEN stamp[t] ELSE mtime[t]],
         now' \in 0..MaxTime, now <= now', \A d \in S : stamp[d] <= now' /\ HasFile(d),
         how = "current" =>
           now' # 0 /\ \A t \in S : stamp[t] = Stamp(t, now') /\ SeenFrom(t) = AllSeenFrom(t),
         \A t \in Targets : content[t] # "other" =>
           \A d \in AllSeenFrom(t) \cap S : stamp[d] # 0 => mtime[t] < stamp[d]
  PROVE  /\ ClockOK' /\ HistoryOK'
         /\ \A t \in S : content'[t] = how
         /\ \A t \in Targets \ S :
              /\ mtime'[t] = mtime[t] /\ (t \in created' <=> t \in created)
              /\ content'[t] # "other" => content[t] # "other"
              /\ content'[t] = "current" =>
                   content[t] = "current" /\ AllSeenFrom(t) \cap S = {}
              /\ content'[t] = "outdated" =>
                   content[t] = "outdated" \/ AllSeenFrom(t) \cap S # {}
<1>1. /\ mtime \in [Targets -> 0..MaxTime] /\ now \in 0..MaxTime /\ MaxTime \in Nat
      /\ content \in [Targets -> Contents] /\ created \subseteq Targets
      /\ \A t : AllSeenFrom(t) \subseteq Targets /\ AllSeenFrom(t)' = AllSeenFrom(t)
      /\ \A t : HasFile(t)' <=> HasFile(t)
  BY AllSeenIsClosed, MeaningOfAllStays, BoundsAssumption
     DEF DInv, LoopPart, LoopOK, TypeOK, AroundOK, HasFile
<1>2. \A t \in Targets :
        /\ content'[t] = IF t \in S THEN how
                         ELSE IF content[t] = "current" /\ made_from[t] \cap S # {}
                         THEN "outdated" ELSE content[t]
        /\ made_from'[t] = IF t \notin S THEN made_from[t]
                           ELSE IF how = "other" THEN {} ELSE SeenFrom(t)
        /\ mtime'[t] = IF t \in S THEN stamp[t] ELSE mtime[t]
        /\ t \in created' <=> IF t \in S THEN mtime[t] = 0 ELSE t \in created
  BY DEF Written
<1>3. \A t \in Targets : mtime'[t] \in 0..MaxTime /\ mtime'[t] <= now'
  BY <1>1, <1>2 DEF ClockOK
<1>4. ASSUME NEW t \in S
      PROVE  /\ content'[t] # "other" => made_from'[t] = AllSeenFrom(t)
             /\ content'[t] = "current" =>
                  mtime'[t] # 0 /\ \A d \in AllSeenFrom(t) : NotBehind(t, d)'
             /\ content'[t] # "outdated"
  <2>1. CASE how = "other"
    BY <1>2, <2>1
  <2>2. CASE how = "current"
    <3>1. /\ content'[t] = "current" /\ made_from'[t] = AllSeenFrom(t)
          /\ mtime'[t] = Stamp(t, now') /\ now' # 0 /\ (t \in created' <=> mtime[t] = 0)
      BY <1>2, <2>2
    <3>2. CASE mtime[t] = 0
      <4>1. t \in created' /\ mtime'[t] = KernelTime[now']
        BY <3>1, <3>2 DEF Stamp
      <4>2. mtime'[t] # 0 /\ KernelTime[mtime'[t]] = mtime'[t]
        BY <3>1, <4>1, ClockAssumption
      <4>3. \A d \in AllSeenFrom(t) : KernelTime[mtime'[d]] <= mtime'[t]
        BY <1>1, <1>3, <4>1, ClockAssumption
      <4> QED
        BY <3>1, <4>1, <4>2, <4>3 DEF NotBehind
    <3>3. CASE mtime[t] # 0
      <4>1. t \notin created' /\ mtime'[t] = now'
        BY <3>1, <3>3 DEF Stamp
      <4>2. \A d \in AllSeenFrom(t) : mtime'[d] <= mtime'[t]
        BY <1>1, <1>3, <4>1
      <4> QED
        BY <3>1, <4>1, <4>2 DEF NotBehind
    <3> QED
      BY <3>2, <3>3
  <2> QED
    BY <2>1, <2>2
<1>5. ASSUME NEW t \in Targets \ S
      PROVE  /\ mtime'[t] = mtime[t]
             /\ content'[t] # "other" => content[t] # "other" /\ made_from'[t] = AllSeenFrom(t)
             /\ content'[t] = "current" =>
                  content[t] = "current" /\ AllSeenFrom(t) \cap S = {}
             /\ content'[t] = "outdated" =>
                  content[t] = "outdated" \/ AllSeenFrom(t) \cap S # {}
  BY <1>2 DEF HistoryOK
<1>6. ASSUME NEW t \in Targets \ S, content'[t] = "current"
      PROVE  mtime'[t] # 0 /\ \A d \in AllSeenFrom(t) : NotBehind(t, d)'
  <2>1. /\ mtime'[t] = mtime[t] /\ (t \in created' <=> t \in created)
        /\ \A d \in AllSeenFrom(t) : mtime'[d] = mtime[d]
    BY <1>1, <1>2, <1>5, <1>6
  <2>2. mtime[t] # 0 /\ \A d \in AllSeenFrom(t) : NotBehind(t, d)
    BY <1>5, <1>6 DEF HistoryOK
  <2> QED
    BY <2>1, <2>2 DEF NotBehind
<1>7. ASSUME NEW t \in Targets \ S, content'[t] = "outdated"
      PROVE  \E d \in AllSeenFrom(t) :
               HasFile(d) /\ (mtime'[d] = 0 \/ mtime'[t] < mtime'[d])
  <2>1. CASE AllSeenFrom(t) \cap S # {}
    <3>1. PICK d \in AllSeenFrom(t) : d \in S
      BY <2>1
    <3>2. stamp[d] # 0 => mtime[t] < stamp[d]
      BY <1>5, <1>7, <3>1
    <3> QED
      BY <1>2, <1>5, <3>1, <3>2
  <2>2. CASE AllSeenFrom(t) \cap S = {}
    <3>1. PICK d \in AllSeenFrom(t) : HasFile(d) /\ (mtime[d] = 0 \/ mtime[t] < mtime[d])
      BY <1>5, <1>7, <2>2 DEF HistoryOK
    <3> QED
      BY <1>1, <1>2, <1>5, <2>2, <3>1
  <2> QED
    BY <2>1, <2>2
<1>8. HistoryOK'
  BY <1>1, <1>4, <1>5, <1>6, <1>7 DEF HistoryOK
<1>9. ClockOK'
  BY <1>3 DEF ClockOK
<1> QED
  BY <1>2, <1>5, <1>8, <1>9

(* One recipe of t: its file is written, or its maker is forgotten.        *)
LEMMA EffectKeeps ==
  ASSUME DInv, ClockOK, HistoryOK, UNCHANGED <<kind, library, traits>>,
         NEW t \in Targets, NEW effect \in EffectsOn(t), NEW how \in {"current", "other"},
         Effect(t, effect, how),
         IF effect \in {"touches", "spoils"}
         THEN \E time \in WriteTimes : Write(t, time)
         ELSE UNCHANGED files,
         how = "current" => SeenFrom(t) = AllSeenFrom(t),
         \A u \in Targets : t \in AllSeenFrom(u) /\ content[u] # "other" =>
                             mtime[u] < KernelTime[now]
  PROVE  /\ ClockOK' /\ HistoryOK' /\ now <= now'
         /\ \A u \in Targets \ {t} :
              /\ mtime'[u] = mtime[u] /\ (u \in created' <=> u \in created)
              /\ content'[u] # "other" => content[u] # "other"
              /\ content'[u] = "current" =>
                   content[u] = "current" /\ (t \in AllSeenFrom(u) => mtime'[t] = mtime[t])
              /\ content'[u] = "outdated" => content[u] = "outdated" \/ t \in AllSeenFrom(u)
         /\ effect \in {"touches", "nothing"} => content'[t] # "outdated"
         /\ how = "other" /\ content'[t] # "other" =>
              content'[t] = content[t] /\ mtime'[t] = mtime[t]
<1>1. /\ mtime \in [Targets -> 0..MaxTime] /\ now \in 0..MaxTime /\ MaxTime \in Nat
      /\ content \in [Targets -> Contents] /\ made_from \in [Targets -> SUBSET Targets]
      /\ effect \in Effects
      /\ \A u : AllSeenFrom(u)' = AllSeenFrom(u) /\ (HasFile(u)' <=> HasFile(u))
  BY MeaningOfAllStays, BoundsAssumption
     DEF DInv, LoopPart, LoopOK, TypeOK, AroundOK, HasFile, EffectsOn, Effects
<1>2. ASSUME effect \in {"touches", "spoils"}, NEW h \in {"current", "other"},
             Written({t}, h), h = "current" => how = "current"
      PROVE  /\ ClockOK' /\ HistoryOK' /\ now <= now' /\ content'[t] = h
             /\ \A u \in Targets \ {t} :
                  /\ mtime'[u] = mtime[u] /\ (u \in created' <=> u \in created)
                  /\ content'[u] # "other" => content[u] # "other"
                  /\ content'[u] = "current" =>
                       content[u] = "current" /\ t \notin AllSeenFrom(u)
                  /\ content'[u] = "outdated" => content[u] = "outdated" \/ t \in AllSeenFrom(u)
  <2>1. PICK time \in WriteTimes : Write(t, time)
    BY <1>2
  <2> DEFINE stamp == [u \in Targets |-> Stamp(u, time)]
  <2>2. /\ now' = time /\ now' \in 0..MaxTime /\ now' # 0 /\ now <= now'
        /\ \A u \in Targets : /\ Stamp(u, time) \in 0..MaxTime /\ Stamp(u, time) <= now'
                            /\ KernelTime[now] <= Stamp(u, time)
    BY <1>1, <2>1, StampIsLate DEF Write
  <2>3. /\ stamp \in [Targets -> 0..MaxTime]
        /\ \A u \in Targets : stamp[u] = Stamp(u, now')
    BY <2>2
  <2>4. mtime' = [u \in Targets |-> IF u \in {t} THEN stamp[u] ELSE mtime[u]]
    BY <1>1, <2>1, <2>2, <2>3 DEF Write
  <2>5. kind[t] = "file"
    BY <1>2 DEF EffectsOn
  <2>6. \A d \in {t} : stamp[d] <= now' /\ HasFile(d)
    BY <2>2, <2>3, <2>5 DEF HasFile
  <2> HIDE DEF stamp
  <2>7. ASSUME NEW u \in Targets, content[u] # "other", NEW d \in AllSeenFrom(u) \cap {t}
        PROVE  mtime[u] < stamp[d]
    <3>1. mtime[u] < KernelTime[now] /\ KernelTime[now] <= stamp[d]
      BY <2>2, <2>3, <2>7
    <3>2. mtime[u] \in Nat /\ KernelTime[now] \in Nat /\ stamp[d] \in Nat
      BY <1>1, <2>3, ClockAssumption
    <3> QED
      BY <3>1, <3>2
  <2>8. {t} \in SUBSET Targets
    OBVIOUS
  <2>9. /\ ClockOK' /\ HistoryOK' /\ \A u \in {t} : content'[u] = h
        /\ \A u \in Targets \ {t} :
              /\ mtime'[u] = mtime[u] /\ (u \in created' <=> u \in created)
              /\ content'[u] # "other" => content[u] # "other"
              /\ content'[u] = "current" =>
                   content[u] = "current" /\ AllSeenFrom(u) \cap {t} = {}
              /\ content'[u] = "outdated" =>
                   content[u] = "outdated" \/ AllSeenFrom(u) \cap {t} # {}
    BY <1>2, <2>2, <2>3, <2>4, <2>6, <2>7, <2>8, WritingKeeps
  <2> QED
    BY <2>2, <2>9
<1>3. CASE effect = "touches"
  BY <1>2, <1>3 DEF Effect
<1>4. CASE effect = "spoils"
  BY <1>2, <1>4 DEF Effect
<1>5. CASE effect = "throws"
  BY <1>1, <1>5 DEF Effect, history, files, ClockOK, HistoryOK, NotBehind
<1>6. CASE effect = "nothing"
  <2>1. /\ UNCHANGED files
        /\ content' = [content EXCEPT ![t] = "other"]
        /\ made_from' = [made_from EXCEPT ![t] = {}]
        /\ created' = created
    BY <1>6 DEF Effect
  <2>2. content'[t] = "other" /\ \A u \in Targets \ {t} : content'[u] = content[u] /\ made_from'[u] = made_from[u]
    BY <1>1, <2>1
  <2>3. ClockOK' /\ HistoryOK'
    BY <1>1, <2>1, <2>2 DEF files, ClockOK, HistoryOK, NotBehind
  <2> QED
    BY <1>1, <1>6, <2>1, <2>2, <2>3 DEF files
<1> QED
  BY <1>1, <1>3, <1>4, <1>5, <1>6 DEF Effects

-----------------------------------------------------------------------------
(* The actions, and what the files have been through.                      *)

(* The libraries, and what they say, are never written.                    *)
LEMMA DescriptionsStay ==
  ASSUME [DriverNext]_allvars
  PROVE  UNCHANGED <<kind, library, traits>>
<1>1. CASE UNCHANGED allvars
  BY <1>1 DEF allvars, vars, graph, driver, installed
<1>2. CASE ProcessStep
  <2>1. CASE \/ \E R \in SUBSET Targets : RequestBuild(R)
             \/ BuildStep
    <3>1. Next /\ UNCHANGED driver
      BY <2>1 DEF RequestBuild, BuildStep, ClientCall, Next
    <3> QED
      BY <3>1, GraphStays DEF graph, driver, installed
  <2>2. CASE \E t \in Targets : ListTarget(t)
    BY <2>2 DEF ListTarget, graph, installed
  <2>3. CASE ProcessLibrary \/ ResolveAll
    BY <2>3 DEF ProcessLibrary, ResolveAll, ProcessProject, ResolveDepsForAll, Resolve, given
  <2>4. CASE StopWorkers
    BY <2>4 DEF StopWorkers, graph, installed
  <2>5. CASE OpenLibrary \/ Construct \/ Refuse \/ SkipLibrary \/ ThrowVersion \/ EndLoading
    BY <2>5 DEF OpenLibrary, Construct, Refuse, SkipLibrary, ThrowVersion, EndLoading,
                vars, graph, installed
  <2>6. CASE \/ RequestUnknown \/ BuildEnds \/ ListingEnds \/ DestroyTargets \/ Joined
             \/ CloseLibraries \/ Exit
    BY <2>6 DEF RequestUnknown, BuildEnds, ListingEnds, DestroyTargets, Joined,
                CloseLibraries, Exit, vars, graph, installed
  <2> QED
    BY <1>2, <2>1, <2>2, <2>3, <2>4, <2>5, <2>6 DEF ProcessStep
<1>3. CASE \/ \E r \in queued : DriverStartRecipe(r)
           \/ \E r \in running : DriverRecipe(r)
  BY <1>3 DEF DriverStartRecipe, DriverRecipe, StartRecipe, FinishRecipe, driver, graph,
              installed
<1>4. CASE Kill \/ Restart \/ \E t \in Targets : \E time \in {0} \cup NextTick : Edit(t, time)
  BY <1>4 DEF Kill, Restart, Edit, graph, installed
<1> QED
  BY <1>1, <1>2, <1>3, <1>4 DEF DriverNext

(* The kernel's clock does not go back.                                    *)
LEMMA TicksGoOn ==
  ASSUME now \in 0..MaxTime, now' \in 0..MaxTime, now <= now'
  PROVE  \A m \in Nat : m < KernelTime[now] => m < KernelTime[now']
<1>1. KernelTime[now] <= KernelTime[now']
  BY ClockAssumption
<1>2. KernelTime[now] \in Nat /\ KernelTime[now'] \in Nat
  BY ClockAssumption, BoundsAssumption
<1> QED
  BY <1>1, <1>2

(* It passes `now` only together with the precise one.                     *)
LEMMA NextTickIsLater ==
  ASSUME now \in 0..MaxTime, NEW time \in NextTick
  PROVE  /\ time \in 0..MaxTime /\ now < time
         /\ KernelTime[time] \in 0..MaxTime /\ now < KernelTime[time]
<1>1. MaxTime \in Nat
  BY BoundsAssumption
<1>2. time \in 0..MaxTime /\ now < KernelTime[time]
  BY <1>1 DEF NextTick
<1>3. KernelTime[time] \in 0..MaxTime /\ KernelTime[time] <= time
  BY <1>2, ClockAssumption
<1> QED
  BY <1>1, <1>2, <1>3

(* What was made stays so while no file is written and the clock goes on.  *)
LEMMA UnwrittenStays ==
  ASSUME DInv, ClockOK, HistoryOK,
         UNCHANGED <<kind, library, traits, mtime, history>>, now' \in Nat, now <= now'
  PROVE  ClockOK' /\ HistoryOK'
<1>1. \A t : AllSeenFrom(t)' = AllSeenFrom(t) /\ (HasFile(t)' <=> HasFile(t))
  BY MeaningOfAllStays DEF HasFile
<1>2. mtime \in [Targets -> 0..MaxTime] /\ now \in 0..MaxTime /\ MaxTime \in Nat
  BY BoundsAssumption DEF DInv, LoopPart, LoopOK, TypeOK
<1> QED
  BY <1>1, <1>2 DEF ClockOK, HistoryOK, NotBehind, history

(* A loop just made has decided nothing.                                   *)
LEMMA FreshHInv ==
  ASSUME LoopInit, ClockOK, HistoryOK,
         stage # "exited" =>
           \A t \in Targets : content[t] # "other" => mtime[t] < KernelTime[now]
  PROVE  HInv
<1>1. ToBuild = {} /\ built_targets = {}
  BY DEF LoopInit, Sched!Init, ToBuild
<1> QED
  BY <1>1, FreshAttempts DEF HInv, OldOK, SoundOK, VainOK

(* FreshHInv in the next state of a step.                                  *)
LEMMA FreshHInvNext ==
  (/\ LoopInit /\ ClockOK /\ HistoryOK
   /\ stage # "exited" =>
        \A t \in Targets : content[t] # "other" => mtime[t] < KernelTime[now]
   => HInv)'
BY FreshHInv, PTL

(* What the loop has attempted, checked and left to build is in memory.    *)
LEMMA AttemptsStay ==
  ASSUME UNCHANGED memory
  PROVE  /\ AttemptsOK' <=> AttemptsOK
         /\ AllBuilt' <=> AllBuilt
         /\ Attempted' = Attempted /\ Checked' = Checked /\ ToBuild' = ToBuild
<1> USE DEF memory, graph, queues, locals, call
<1>1. /\ UpToDate' = UpToDate /\ Live' = Live /\ Started' = Started
      /\ \A t : DepsOf(t)' = DepsOf(t)
  BY DEF UpToDate, Live, Started, Handled, DepsOf
<1>2. Below(requested)' = Below(requested)
  BY <1>1 DEF Below
<1> QED
  BY <1>1, <1>2 DEF AttemptsOK, AllBuilt, Attempted, Checked, ToBuild

(* A step that leaves the loop and the files alone.                        *)
LEMMA QuietHInvStays ==
  ASSUME DInv, HInv, UNCHANGED <<memory, files, history, library, traits>>,
         stage = "exited" => stage' = "exited"
  PROVE  HInv'
<1>1. UNCHANGED <<kind, mtime, now, built_targets>> /\ UNCHANGED memory
  BY DEF memory, graph, files
<1>2. now' \in Nat /\ now <= now'
  BY <1>1, BoundsAssumption DEF DInv, LoopPart, LoopOK, TypeOK
<1>3. ClockOK' /\ HistoryOK'
  BY <1>1, <1>2, UnwrittenStays DEF HInv
<1>4. AttemptsOK' /\ AllBuilt' /\ Attempted' = Attempted /\ Checked' = Checked /\ ToBuild' = ToBuild
  BY <1>1, AttemptsStay DEF HInv
<1>5. \A t : AllSeenFrom(t)' = AllSeenFrom(t)
  BY <1>1, MeaningOfAllStays
<1>6. OldOK' /\ SoundOK'
  BY <1>1, <1>4 DEF HInv, OldOK, SoundOK, history
<1>7. VainOK'
  BY <1>1, <1>4, <1>5 DEF HInv, VainOK, ExcusedBy, history
<1> QED
  BY <1>3, <1>4, <1>6, <1>7 DEF HInv

(* Up to the targets, and on the way out of process().                     *)
LEMMA LoadingAndLeavingKeepHInv ==
  ASSUME DInv, HInv,
         \/ OpenLibrary \/ Construct \/ Refuse
         \/ SkipLibrary \/ ThrowVersion \/ ProcessLibrary \/ ResolveAll \/ EndLoading
         \/ RequestUnknown \/ BuildEnds \/ ListingEnds
         \/ DestroyTargets \/ StopWorkers \/ Joined \/ CloseLibraries \/ Exit
         \/ UNCHANGED allvars
  PROVE  HInv'
<1>1. CASE OpenLibrary \/ ProcessLibrary \/ ResolveAll
  <2>1. /\ UNCHANGED <<kind, library, traits, files, history>> /\ LoopInit
        /\ UNCHANGED <<status, already_built, built_targets, queues, locals, call, attempts,
                       sched>>
        /\ stage # "exited"
    <3>1. CASE OpenLibrary
      BY <3>1 DEF OpenLibrary, vars, graph, installed, DInv, StageOK
    <3>2. CASE ProcessLibrary \/ ResolveAll
      BY <3>2 DEF ProcessLibrary, ResolveAll, ProcessProject, ResolveDepsForAll, Resolve,
                  given, Loading, DInv, StageOK
    <3> QED
      BY <1>1, <3>1, <3>2
  <2>2. LoopInit'
    BY <2>1, LoopInitStays
  <2>3. /\ UNCHANGED <<mtime, now>> /\ now' \in Nat /\ now <= now'
    BY <2>1, BoundsAssumption DEF files, DInv, LoopPart, LoopOK, TypeOK
  <2>4. ClockOK' /\ HistoryOK'
    BY <2>1, <2>3, UnwrittenStays DEF HInv
  <2>5. \A t \in Targets : content'[t] # "other" => mtime'[t] < KernelTime[now']
    <3>1. Attempted = {}
      BY <2>1, FreshAttempts
    <3> QED
      BY <2>1, <2>3, <3>1 DEF HInv, OldOK, history
  <2> QED
    BY <2>2, <2>4, <2>5, FreshHInvNext
<1>2. CASE ~(OpenLibrary \/ ProcessLibrary \/ ResolveAll)
  <2>1. CASE Construct \/ Refuse \/ SkipLibrary \/ ThrowVersion \/ EndLoading
    BY <2>1, QuietHInvStays
       DEF Construct, Refuse, SkipLibrary, ThrowVersion, EndLoading, Throw, Loading, vars,
           sched, memory, installed, leaving
  <2>2. CASE RequestUnknown \/ BuildEnds \/ ListingEnds \/ DestroyTargets
    BY <2>2, QuietHInvStays
       DEF RequestUnknown, BuildEnds, ListingEnds, DestroyTargets, Throw, vars, sched,
           memory, installed, leaving
  <2>3. CASE Joined \/ CloseLibraries \/ Exit
    BY <2>3, QuietHInvStays
       DEF Joined, CloseLibraries, Exit, vars, sched, memory, installed
  <2>4. CASE StopWorkers
    BY <2>4, QuietHInvStays DEF StopWorkers, Sched!Close, memory, installed
  <2>5. CASE UNCHANGED allvars
    BY <2>5, QuietHInvStays DEF allvars, vars, sched, memory, driver, installed, leaving
  <2> QED
    BY <1>2, <2>1, <2>2, <2>3, <2>4, <2>5
<1> QED
  BY <1>1, <1>2

(* The listing calls recipes of its own, of a loop that is not used.       *)
LEMMA ListingKeepsHInv ==
  ASSUME DInv, HInv, NEW t \in Targets, ListTarget(t)
  PROVE  HInv'
<1> USE DEF ListTarget
<1>1. PICK effect \in EffectsOn(t) :
        /\ IF effect \in {"touches", "spoils"}
           THEN \E time \in WriteTimes : Write(t, time)
           ELSE UNCHANGED files
        /\ Effect(t, effect, "other")
  OBVIOUS
<1>2. LoopInit /\ stage # "exited" /\ UNCHANGED <<kind, library, traits>>
  BY DEF DInv, StageOK, graph, installed
<1>3. LoopInit'
  BY <1>2, LoopInitStays
<1>4. \A u \in Targets : content[u] # "other" => mtime[u] < KernelTime[now]
  BY <1>2, FreshAttempts DEF HInv, OldOK
<1> HIDE DEF ListTarget
<1>5. /\ ClockOK' /\ HistoryOK' /\ now <= now'
      /\ \A u \in Targets \ {t} :
           mtime'[u] = mtime[u] /\ (content'[u] # "other" => content[u] # "other")
      /\ content'[t] # "other" => content'[t] = content[t] /\ mtime'[t] = mtime[t]
  BY <1>1, <1>2, <1>4, EffectKeeps DEF HInv
<1>6. now \in 0..MaxTime /\ now' \in 0..MaxTime /\ \A u \in Targets : mtime[u] \in Nat
  <2>1. DInv'
    BY ListTargetKeeps
  <2> QED
    BY <2>1, BoundsAssumption DEF DInv, LoopPart, LoopOK, TypeOK
<1>7. \A u \in Targets : content'[u] # "other" => mtime'[u] < KernelTime[now']
  BY <1>4, <1>5, <1>6, TicksGoOn
<1> QED
  BY <1>3, <1>5, <1>7, FreshHInvNext

(* What was attempted sees only what is built.                             *)
LEMMA AttemptedSeeBuilt ==
  ASSUME DInv, Installed!Unambiguous, AttemptsOK
  PROVE  /\ \A t \in Attempted : SeenFrom(t) = AllSeenFrom(t)
         /\ stage # "exited" =>
              \A t \in Attempted, u \in Started : u \notin AllSeenFrom(t)
<1>1. ASSUME NEW t \in Attempted
      PROVE  SeenFrom(t) = AllSeenFrom(t) /\ AllSeenFrom(t) \subseteq built_targets
  BY SeenAsMeant DEF AttemptsOK
<1>2. Started \cap built_targets = {}
  BY DEF DInv, LoopPart, LoopOK, OneState
<1> QED
  BY <1>1, <1>2

(* A decision, over the files of any earlier process, is right: what is    *)
(* found up to date is not outdated, what is made of what is there is not  *)
(* built without need.                                                     *)
LEMMA DecidesOverHistory ==
  ASSUME DInv, Installed!Unambiguous, HInv, stage # "exited",
         NEW t \in Targets, Decides(t)
  PROVE  /\ ~NeedsBuild(t) => content[t] # "outdated"
         /\ NeedsBuild(t) /\ kind[t] = "file" /\ content[t] = "current" =>
              \E d \in AllSeenFrom(t) : ExcusedBy(t, d)
<1>1. IInv /\ FinalTell
  BY ClearNamesAgree DEF SInv
<1>2. NeedsBuild(t) <=> Stale(t)
  BY <1>1, DecidesRight DEF Decides
<1>3. SeenFrom(t) = AllSeenFrom(t)
  BY SeenAsMeant DEF Decides, HInv
<1>4. mtime \in [Targets -> 0..MaxTime] /\ AllSeenFrom(t) \subseteq Targets
  BY AllSeenIsClosed DEF DInv, LoopPart, LoopOK, TypeOK
<1>5. ASSUME content[t] = "outdated"
      PROVE  Stale(t)
  <2>1. PICK d \in AllSeenFrom(t) : HasFile(d) /\ (mtime[d] = 0 \/ mtime[t] < mtime[d])
    BY <1>5 DEF HInv, HistoryOK
  <2>2. mtime[d] > mtime[t] \/ mtime[d] = 0
    BY <1>4, <2>1
  <2> QED
    BY <1>3, <2>1, <2>2 DEF Stale
<1>6. ASSUME Stale(t), kind[t] = "file", content[t] = "current"
      PROVE  \E d \in AllSeenFrom(t) : ExcusedBy(t, d)
  <2>1. mtime[t] # 0 /\ \A d \in AllSeenFrom(t) : NotBehind(t, d)
    BY <1>6 DEF HInv, HistoryOK
  <2>2. PICK d \in AllSeenFrom(t) : kind[d] = "phony" \/ mtime[d] = 0 \/ mtime[d] > mtime[t]
    BY <1>3, <1>6, <2>1 DEF Stale, HasFile
  <2>3. CASE mtime[d] > mtime[t]
    <3>1. /\ mtime[t] \in 0..MaxTime /\ mtime[d] \in 0..MaxTime
          /\ mtime[t] < mtime[d] /\ NotBehind(t, d)
      BY <1>4, <2>1, <2>3, BoundsAssumption
    <3>2. /\ t \in created /\ KernelTime[mtime[t]] = mtime[t]
          /\ KernelTime[mtime[d]] <= mtime[t]
      BY <3>1, BoundsAssumption DEF NotBehind
    <3>3. KernelTime[mtime[t]] <= KernelTime[mtime[d]] /\ KernelTime[mtime[d]] \in 0..MaxTime
      BY <3>1, BoundsAssumption, ClockAssumption
    <3>4. mtime[t] = KernelTime[mtime[d]]
      BY <3>1, <3>2, <3>3, BoundsAssumption
    <3> QED
      BY <3>1, <3>2, <3>4 DEF ExcusedBy
  <2> QED
    BY <2>2, <2>3 DEF ExcusedBy
<1> QED
  BY <1>2, <1>5, <1>6

(* The build loop, until a recipe ends.                                    *)
LEMMA BuildingKeepsHInv ==
  ASSUME DInv, Installed!Unambiguous, HInv,
         \/ \E R \in SUBSET Targets : RequestBuild(R)
         \/ BuildStep
         \/ \E r \in queued : DriverStartRecipe(r)
  PROVE  HInv'
<1>1. /\ UNCHANGED <<driver, history>> /\ stage # "exited" /\ Next
      /\ \/ \E R \in SUBSET Targets : BuildTargets(R)
         \/ MainStep
         \/ \E r \in queued : StartRecipe(r)
  BY DEF RequestBuild, BuildStep, DriverStartRecipe, WorkersLive, ClientCall, WorkerStep, Next
<1>2. /\ UNCHANGED <<graph, files>> /\ UNCHANGED <<kind, library, traits, mtime, now>>
      /\ stage' = stage
  BY <1>1, GraphStays, FilesLeftAlone DEF graph, files, driver, installed, leaving
<1>3. IInv /\ OInv /\ SInv
  BY <1>1, ClearNamesAgree
<1>4. AttemptsOK' /\ Attempted \subseteq Attempted' /\ AllBuilt'
  BY <1>1, <1>3, NextKeepsAttempts, NextKeepsAllBuilt, DriverIsCareful DEF HInv
<1>5. ClockOK' /\ HistoryOK'
  <2>1. now' \in Nat /\ now <= now'
    BY <1>2, BoundsAssumption DEF DInv, LoopPart, LoopOK, TypeOK
  <2> QED
    BY <1>1, <1>2, <2>1, UnwrittenStays DEF HInv
<1>6. OldOK'
  BY <1>1, <1>2, <1>4 DEF HInv, OldOK, history
<1>7. \/ Checked' \subseteq Checked /\ ToBuild' \subseteq ToBuild
      \/ \E t \in Targets :
           /\ Decides(t)
           /\ Checked' \subseteq Checked \cup (IF NeedsBuild(t) THEN {} ELSE {t})
           /\ ToBuild' \subseteq ToBuild \cup (IF NeedsBuild(t) THEN {RequestFor(t)} ELSE {})
  <2>1. CASE MainStep
    BY <1>3, <2>1, MainChecks
  <2>2. CASE \E R \in SUBSET Targets : BuildTargets(R)
    BY <2>2 DEF BuildTargets, Checked, ToBuild, UpToDate, queues, sched
  <2>3. CASE \E r \in queued : StartRecipe(r)
    BY <2>3 DEF StartRecipe, Sched!Start, Checked, ToBuild, UpToDate, queues
  <2> QED
    BY <1>1, <2>1, <2>2, <2>3
<1>8. \A t \in Targets : Decides(t) =>
        /\ ~NeedsBuild(t) => content[t] # "outdated"
        /\ NeedsBuild(t) /\ kind[t] = "file" /\ content[t] = "current" =>
             \E d \in AllSeenFrom(t) : ExcusedBy(t, d)
  BY <1>1, DecidesOverHistory
<1>9. SoundOK'
  <2>1. ASSUME NEW t \in built_targets', kind[t] = "file"
        PROVE  mtime[t] # 0
    BY <1>1, <1>3, <2>1, BuiltFileExists DEF HInv, SoundOK
  <2>2. ASSUME NEW t \in Checked'
        PROVE  content[t] # "outdated"
    BY <1>1, <1>7, <1>8 DEF HInv, SoundOK
  <2> QED
    BY <1>1, <1>2, <2>1, <2>2 DEF SoundOK, history
<1>10. VainOK'
  <2>1. ASSUME NEW r \in ToBuild', kind[r.tgt] = "file", content[r.tgt] = "current"
        PROVE  \E d \in AllSeenFrom(r.tgt) : ExcusedBy(r.tgt, d)
    <3>1. CASE r \in ToBuild
      BY <2>1, <3>1 DEF HInv, VainOK
    <3>2. CASE r \notin ToBuild
      <4>1. PICK t \in Targets : Decides(t) /\ NeedsBuild(t) /\ r = RequestFor(t)
        BY <1>7, <3>2
      <4>2. r.tgt = t
        BY <4>1 DEF RequestFor
      <4> QED
        BY <1>8, <2>1, <4>1, <4>2
    <3> QED
      BY <3>1, <3>2
  <2>2. \A t : AllSeenFrom(t)' = AllSeenFrom(t)
    BY <1>2, MeaningOfAllStays
  <2> QED
    BY <1>1, <1>2, <2>1, <2>2 DEF VainOK, ExcusedBy, history
<1> QED
  BY <1>4, <1>5, <1>6, <1>9, <1>10 DEF HInv

(* The end of a recipe: what was made from its file is not under way, and  *)
(* was not looked at.                                                      *)
LEMMA RecipeKeepsHInv ==
  ASSUME DInv, Installed!Unambiguous, HInv, NEW r \in running, DriverRecipe(r)
  PROVE  HInv'
<1>1. PICK effect \in Effects : FinishRecipe(r, effect) /\ Effect(r.tgt, effect, "current")
  BY DEF DriverRecipe
<1>2. /\ UNCHANGED <<driver, graph, built_targets, queues, attempts, requested>>
      /\ UNCHANGED <<kind, library, traits>> /\ stage # "exited" /\ stage' = stage /\ Next
  BY <1>1 DEF DriverRecipe, WorkersLive, driver, installed, leaving, FinishRecipe, call,
              graph, Recipe, WorkerStep, Next
<1>3. /\ IInv /\ OInv /\ r \in Live /\ r.tgt \in Started /\ r.tgt \in Targets
      /\ now \in 0..MaxTime /\ \A u \in Targets : mtime[u] \in Nat
  <2>1. IInv /\ OInv
    BY <1>2, ClearNamesAgree
  <2>2. r \in Live /\ r.tgt \in Started
    BY DEF Started, Live, Handled
  <2>3. TypeOK
    BY DEF DInv, LoopPart, LoopOK
  <2>4. r.tgt \in Targets
    BY <2>3 DEF TypeOK, Sched!TypeOK, Request
  <2>5. now \in 0..MaxTime /\ \A u \in Targets : mtime[u] \in Nat
    BY <2>3, BoundsAssumption DEF TypeOK
  <2> QED
    BY <2>1, <2>2, <2>4, <2>5
<1>4. AttemptsOK' /\ AllBuilt' /\ Attempted' = Attempted
  BY <1>2, <1>3, NextKeepsAttempts, NextKeepsAllBuilt, DriverIsCareful DEF HInv, Attempted
<1>5. r.tgt \in Attempted \ built_targets /\ \A t \in Attempted : r.tgt \notin AllSeenFrom(t)
  BY <1>2, <1>3, AttemptedSeeBuilt DEF HInv, AttemptsOK, IInv, LInv, LoopOK, OneState
<1>6. /\ ClockOK' /\ HistoryOK' /\ now <= now'
      /\ \A u \in Targets \ {r.tgt} :
           /\ mtime'[u] = mtime[u] /\ (u \in created' <=> u \in created)
           /\ content'[u] # "other" => content[u] # "other"
           /\ content'[u] = "current" =>
                /\ content[u] = "current"
                /\ r.tgt \in AllSeenFrom(u) => mtime'[r.tgt] = mtime[r.tgt]
           /\ content'[u] = "outdated" => content[u] = "outdated" \/ r.tgt \in AllSeenFrom(u)
      /\ effect \in {"touches", "nothing"} => content'[r.tgt] # "outdated"
  <2>1. /\ effect \in EffectsOn(r.tgt)
        /\ IF effect \in {"touches", "spoils"}
           THEN \E time \in WriteTimes : Write(r.tgt, time)
           ELSE UNCHANGED files
    BY <1>1 DEF FinishRecipe
  <2>2. SeenFrom(r.tgt) = AllSeenFrom(r.tgt)
    BY <1>5, AttemptedSeeBuilt DEF HInv
  <2>3. \A u \in Targets : r.tgt \in AllSeenFrom(u) /\ content[u] # "other" =>
                            mtime[u] < KernelTime[now]
    BY <1>2, <1>5 DEF HInv, OldOK
  <2> QED
    BY <1>1, <1>2, <1>3, <2>1, <2>2, <2>3, EffectKeeps DEF HInv
<1>7. now' \in 0..MaxTime
  BY <1>2, <1>3, NextKeeps, DriverIsCareful, BoundsAssumption DEF IInv, LInv, LoopOK, TypeOK
<1>8. OldOK'
  BY <1>2, <1>3, <1>4, <1>5, <1>6, <1>7, TicksGoOn DEF HInv, OldOK
<1>9. /\ UNCHANGED <<queued, pending_build_requests>> /\ UpToDate' = UpToDate
      /\ running' = running \ {r} /\ finished' = finished \cup {r}
      /\ failed' = IF effect \in {"touches", "nothing"} THEN failed ELSE failed \cup {r}
  BY <1>1 DEF FinishRecipe, Sched!Finish, queues, UpToDate
<1>10. /\ \A q \in Live : q.tgt = r.tgt => q = r
       /\ r \notin queued \cup pending_build_requests \cup UpToDate
  BY <1>3 DEF IInv, LInv, LoopOK, OneState, OnePlace, Handled
<1>11. SoundOK'
  <2>1. ASSUME NEW t \in built_targets, kind[t] = "file"
        PROVE  mtime'[t] # 0
    <3>1. t \in Targets \ {r.tgt}
      BY <1>3, <1>5 DEF IInv, LInv, LoopOK, TypeOK
    <3> QED
      BY <1>2, <1>6, <2>1, <3>1 DEF HInv, SoundOK
  <2>2. ASSUME NEW t \in Checked'
        PROVE  content'[t] # "outdated"
    <3>1. CASE t = r.tgt
      <4>1. PICK q \in UpToDate \cup ((finished \cup {r}) \ failed') : q.tgt = t
        BY <1>2, <1>5, <1>9, <3>1 DEF Checked
      <4>2. q = r
        BY <1>3, <1>10, <3>1, <4>1 DEF Live, Handled
      <4> QED
        BY <1>6, <1>9, <1>10, <3>1, <4>1, <4>2
    <3>2. CASE t # r.tgt
      <4>1. t \in Checked
        BY <1>2, <1>9, <3>2 DEF Checked
      <4>2. t \in Attempted /\ t \in Targets
        BY <4>1 DEF Checked, HInv, AttemptsOK, Started, Live, Handled, Attempted
      <4> QED
        BY <1>2, <1>5, <1>6, <3>2, <4>1, <4>2 DEF HInv, SoundOK
    <3> QED
      BY <3>1, <3>2
  <2> QED
    BY <1>2, <2>1, <2>2 DEF SoundOK
<1>12. VainOK'
  <2>1. ASSUME NEW q \in ToBuild', kind[q.tgt] = "file", content'[q.tgt] = "current"
        PROVE  \E d \in AllSeenFrom(q.tgt) : ExcusedBy(q.tgt, d)'
    <3>1. q \in ToBuild /\ q # r
      BY <1>9, <1>10 DEF ToBuild
    <3>2. q.tgt # r.tgt /\ q.tgt \in Targets
      BY <1>3, <1>10, <3>1
         DEF ToBuild, Live, Handled, IInv, LInv, LoopOK, TypeOK, Sched!TypeOK, Request
    <3>3. content[q.tgt] = "current" /\ (r.tgt \in AllSeenFrom(q.tgt) => mtime'[r.tgt] = mtime[r.tgt])
      BY <1>6, <2>1, <3>2
    <3>4. PICK d \in AllSeenFrom(q.tgt) : ExcusedBy(q.tgt, d)
      BY <2>1, <3>1, <3>3 DEF HInv, VainOK
    <3>5. d \in Targets
      BY <3>4, AllSeenIsClosed DEF DInv
    <3> QED
      <4>1. mtime'[d] = mtime[d] /\ mtime'[q.tgt] = mtime[q.tgt] /\ kind' = kind
            /\ (q.tgt \in created' <=> q.tgt \in created)
        BY <1>2, <1>6, <3>2, <3>3, <3>4, <3>5
      <4> QED
        BY <3>4, <4>1 DEF ExcusedBy
  <2>2. \A t : AllSeenFrom(t)' = AllSeenFrom(t)
    BY <1>2, MeaningOfAllStays
  <2> QED
    BY <1>2, <2>1, <2>2 DEF VainOK
<1> QED
  BY <1>4, <1>6, <1>8, <1>11, <1>12 DEF HInv

(* Files written around a process that is over.                            *)
LEMMA OutsideKeepsHInv ==
  ASSUME DInv, HInv, UNCHANGED <<memory, library, traits>>, stage' = "exited",
         NEW S \in SUBSET Targets, Written(S, "other"),
         NEW stamp \in [Targets -> 0..MaxTime],
         mtime' = [t \in Targets |-> IF t \in S THEN stamp[t] ELSE mtime[t]],
         now' \in 0..MaxTime, now <= now', \A d \in S : stamp[d] <= now' /\ HasFile(d),
         \A t \in Targets : content[t] # "other" =>
           \A d \in AllSeenFrom(t) \cap S : stamp[d] # 0 => mtime[t] < stamp[d]
  PROVE  HInv'
<1>1. UNCHANGED <<kind, library, traits, built_targets>>
  BY DEF memory, graph
<1>2. /\ ClockOK' /\ HistoryOK'
      /\ \A t \in S : content'[t] = "other"
      /\ \A t \in Targets \ S :
           /\ mtime'[t] = mtime[t] /\ (t \in created' <=> t \in created)
           /\ content'[t] = "current" => content[t] = "current" /\ AllSeenFrom(t) \cap S = {}
  BY <1>1, WritingKeeps DEF HInv
<1>3. AttemptsOK' /\ AllBuilt' /\ ToBuild' = ToBuild
  BY AttemptsStay DEF HInv
<1>4. OldOK' /\ SoundOK'
  BY DEF OldOK, SoundOK
<1>5. ASSUME NEW r \in ToBuild, kind[r.tgt] = "file", content'[r.tgt] = "current"
      PROVE  \E d \in AllSeenFrom(r.tgt) : ExcusedBy(r.tgt, d)'
  <2>1. r.tgt \in Targets \ S /\ AllSeenFrom(r.tgt) \subseteq Targets
    BY <1>2, <1>5, AllSeenIsClosed
       DEF ToBuild, DInv, LoopPart, LoopOK, TypeOK, Sched!TypeOK, Request
  <2>2. PICK d \in AllSeenFrom(r.tgt) : ExcusedBy(r.tgt, d)
    BY <1>2, <1>5, <2>1 DEF HInv, VainOK
  <2>3. d \in Targets \ S
    BY <1>2, <1>5, <2>1, <2>2
  <2> QED
    BY <1>1, <1>2, <2>1, <2>2, <2>3 DEF ExcusedBy
<1>6. VainOK'
  <2>1. \A t : AllSeenFrom(t)' = AllSeenFrom(t)
    BY <1>1, MeaningOfAllStays
  <2> QED
    BY <1>1, <1>3, <1>5, <2>1 DEF VainOK
<1> QED
  BY <1>2, <1>3, <1>4, <1>6 DEF HInv

(* A process is killed, or files are edited between two processes.         *)
LEMMA KillAndEditKeepHInv ==
  ASSUME DInv, Installed!Unambiguous, HInv,
         \/ Kill
         \/ \E t \in Targets : \E time \in {0} \cup NextTick : Edit(t, time)
  PROVE  HInv'
<1>1. /\ mtime \in [Targets -> 0..MaxTime] /\ now \in 0..MaxTime /\ MaxTime \in Nat
      /\ \A u \in Targets : mtime[u] <= now
  BY BoundsAssumption DEF DInv, LoopPart, LoopOK, TypeOK, HInv, ClockOK
<1>2. CASE Kill
  <2> USE <1>2 DEF Kill
  <2>1. PICK S \in SUBSET {r.tgt : r \in {q \in running : "spoils" \in EffectsOn(q.tgt)}} :
             \E time \in WriteTimes :
               /\ mtime' = [t \in Targets |-> IF t \in S THEN Stamp(t, time) ELSE mtime[t]]
               /\ now' = IF S = {} THEN now ELSE time
               /\ Written(S, "other")
    OBVIOUS
  <2>2. PICK time \in WriteTimes :
               /\ mtime' = [t \in Targets |-> IF t \in S THEN Stamp(t, time) ELSE mtime[t]]
               /\ now' = IF S = {} THEN now ELSE time
               /\ Written(S, "other")
    BY <2>1
  <2>3. UNCHANGED <<memory, library, traits>> /\ stage # "exited" /\ stage' = "exited"
    BY DEF memory, sched, installed
  <2> HIDE DEF Kill
  <2> DEFINE stamp == [t \in Targets |-> Stamp(t, time)]
  <2>4. /\ time \in 0..MaxTime /\ now <= time
        /\ \A t \in Targets : /\ Stamp(t, time) \in 0..MaxTime /\ Stamp(t, time) <= time
                            /\ KernelTime[now] <= Stamp(t, time)
    <3>1. time \in 0..MaxTime /\ now <= time
      BY <1>1 DEF WriteTimes
    <3> HIDE DEF WriteTimes
    <3> QED
      BY <1>1, <3>1, StampIsLate
  <2> HIDE DEF WriteTimes
  <2>5. /\ stamp \in [Targets -> 0..MaxTime] /\ now' \in 0..MaxTime /\ now <= now'
        /\ mtime' = [t \in Targets |-> IF t \in S THEN stamp[t] ELSE mtime[t]]
        /\ \A t \in Targets : KernelTime[now] <= stamp[t] /\ (t \in S => stamp[t] <= now')
    BY <1>1, <2>2, <2>4
  <2> HIDE DEF stamp
  <2>6. S \in SUBSET Targets /\ S \subseteq Started /\ \A d \in S : HasFile(d)
    <3>1. ASSUME NEW d \in S
          PROVE  d \in Targets /\ d \in Started /\ HasFile(d)
      <4>1. PICK q \in running : d = q.tgt /\ "spoils" \in EffectsOn(d)
        BY <2>1
      <4>2. d \in Targets
        BY <4>1 DEF DInv, LoopPart, LoopOK, TypeOK, Sched!TypeOK, Request
      <4>3. kind[d] = "file"
        BY <4>1 DEF EffectsOn
      <4> QED
        BY <4>1, <4>2, <4>3 DEF Started, Live, Handled, HasFile
    <3> QED
      BY <3>1
  <2>7. ASSUME NEW u \in Targets, content[u] # "other", NEW d \in AllSeenFrom(u) \cap S
        PROVE  mtime[u] < stamp[d]
    <3>1. u \notin Attempted
      BY <2>3, <2>6, <2>7, AttemptedSeeBuilt DEF HInv
    <3>2. mtime[u] < KernelTime[now] /\ KernelTime[now] <= stamp[d]
      BY <2>3, <2>5, <2>6, <2>7, <3>1 DEF HInv, OldOK
    <3>3. mtime[u] \in Nat /\ KernelTime[now] \in Nat /\ stamp[d] \in Nat
      BY <1>1, <2>5, <2>6, ClockAssumption
    <3> QED
      BY <3>2, <3>3
  <2> QED
    BY <2>2, <2>3, <2>5, <2>6, <2>7, OutsideKeepsHInv
<1>3. ASSUME NEW t \in Targets, NEW time \in {0} \cup NextTick, Edit(t, time)
      PROVE  HInv'
  <2> USE <1>3 DEF Edit
  <2> DEFINE stamp == [u \in Targets |-> time]
  <2>1. /\ mtime' = [u \in Targets |-> IF u \in {t} THEN stamp[u] ELSE mtime[u]]
        /\ now' = IF time > now THEN time ELSE now
        /\ Written({t}, "other") /\ \A d \in {t} : HasFile(d)
    BY <1>1
  <2>2. UNCHANGED <<memory, library, traits>> /\ stage' = "exited"
    BY DEF memory, sched, installed, leaving
  <2> HIDE DEF Edit
  <2>3. time \in 0..MaxTime /\ (time # 0 => now < time)
    BY <1>1, NextTickIsLater
  <2>4. /\ stamp \in [Targets -> 0..MaxTime] /\ now' \in 0..MaxTime /\ now <= now'
        /\ \A u \in Targets : stamp[u] <= now' /\ (stamp[u] # 0 => \A v \in Targets : mtime[v] < stamp[u])
    BY <1>1, <2>1, <2>3
  <2>5. {t} \in SUBSET Targets
    OBVIOUS
  <2> HIDE DEF stamp
  <2> QED
    BY <2>1, <2>2, <2>4, <2>5, OutsideKeepsHInv
<1> QED
  BY <1>2, <1>3

(* The next process starts at a later tick than anything was written.      *)
LEMMA RestartKeepsHInv ==
  ASSUME DInv, HInv, Restart
  PROVE  HInv'
<1> USE DEF Restart
<1>1. UNCHANGED <<kind, library, traits, mtime, history>> /\ now' \in NextTick /\ LoopInit'
  BY DEF installed, LoopInit, Sched!Init
<1>2. now \in 0..MaxTime /\ \A u \in Targets : mtime[u] \in Nat /\ mtime[u] <= now
  BY BoundsAssumption DEF DInv, LoopPart, LoopOK, TypeOK, HInv, ClockOK
<1>3. now' \in Nat /\ now < now' /\ now < KernelTime[now'] /\ KernelTime[now'] \in Nat
  BY <1>1, <1>2, NextTickIsLater, BoundsAssumption
<1>4. ClockOK' /\ HistoryOK'
  BY <1>1, <1>2, <1>3, UnwrittenStays, BoundsAssumption DEF HInv
<1>5. \A t \in Targets : mtime'[t] < KernelTime[now']
  BY <1>1, <1>2, <1>3, BoundsAssumption
<1> QED
  BY <1>1, <1>4, <1>5, FreshHInvNext

(* At first no file was made by a process.                                 *)
LEMMA InitIsFreshHInv ==
  ASSUME DriverInit
  PROVE  HInv
<1>1. LoopInit /\ ClockOK
  BY DEF DriverInit, FilesInit, ClockOK
<1>2. \A t \in Targets : content[t] = "other"
  BY DEF DriverInit
<1> QED
  BY <1>1, <1>2, FreshHInv DEF HistoryOK

(* Every step of the program keeps what the files have been through.       *)
LEMMA DriverKeepsHInv ==
  ASSUME DInv, Installed!Unambiguous, HInv, [DriverNext]_allvars
  PROVE  HInv'
<1>1. CASE ProcessStep
  <2>1. CASE (\E R \in SUBSET Targets : RequestBuild(R)) \/ BuildStep
    BY <2>1, BuildingKeepsHInv
  <2>2. CASE \E t \in Targets : ListTarget(t)
    BY <2>2, ListingKeepsHInv
  <2> QED
    BY <1>1, <2>1, <2>2, LoadingAndLeavingKeepHInv DEF ProcessStep
<1>2. CASE \E r \in queued : DriverStartRecipe(r)
  BY <1>2, BuildingKeepsHInv
<1>3. CASE \E r \in running : DriverRecipe(r)
  BY <1>3, RecipeKeepsHInv
<1>4. CASE \/ Kill
           \/ \E t \in Targets : \E time \in {0} \cup NextTick : Edit(t, time)
  BY <1>4, KillAndEditKeepHInv
<1>5. CASE Restart
  BY <1>5, RestartKeepsHInv
<1>6. CASE UNCHANGED allvars
  BY <1>6, LoadingAndLeavingKeepHInv
<1> QED
  BY <1>1, <1>2, <1>3, <1>4, <1>5, <1>6 DEF DriverNext

(* Over libraries whose names, taken together, are unambiguous, what is    *)
(* known of the files survives every end of a process, every edit between  *)
(* two of them, and the next process, over whichever of the libraries.     *)
THEOREM HistoryInvariant == DriverSafety => [](Installed!Unambiguous => HInv)
<1> DEFINE Told == Installed!Unambiguous => HInv
<1>1. DriverInit => Told
  BY InitIsFreshHInv
<1>2. DInv /\ Told /\ [DriverNext]_allvars => Told'
  BY DescriptionsStay, MeaningOfAllStays, DriverKeepsHInv
<1> QED
  BY <1>1, <1>2, DriverInvariant, PTL DEF DriverSafety

(* "ok" of build_targets, and so of a process, may be relied on: every     *)
(* file asked for is there and made from what the files it needs contain   *)
(* now, whatever earlier processes over these libraries left behind.       *)
THEOREM SuccessIsFresh == DriverSafety => []SuccessMeansFresh
<1>1. ASSUME DInv, Installed!Unambiguous => HInv
      PROVE  SuccessMeansFresh
  <2>1. SUFFICES ASSUME stage \in {"unwinding", "joining"}, outcome = "ok",
                        Installed!Unambiguous,
                        NEW t \in Below(requested), kind[t] = "file"
                 PROVE  mtime[t] # 0 /\ content[t] # "outdated"
    BY DEF SuccessMeansFresh
  <2>2. phase = "client"
    BY <1>1, <2>1 DEF DInv, LoopPart, LoopOK, TypeOK, CallsOK
  <2>3. t \in built_targets /\ t \in Checked
    BY <1>1, <2>1, <2>2 DEF HInv, AllBuilt, Checked
  <2> QED
    BY <1>1, <2>1, <2>3 DEF HInv, SoundOK
<1>2. DInv /\ (Installed!Unambiguous => HInv) => SuccessMeansFresh
  BY <1>1
<1> QED
  BY <1>2, DriverInvariant, HistoryInvariant, PTL

(* "No need to update": the decision of process_target_build lets alone    *)
(* what an earlier process made of the same files.                         *)
THEOREM BuildsNothingInVain == DriverSafety => []NothingBuiltInVain
<1>1. ASSUME DInv, Installed!Unambiguous => HInv
      PROVE  NothingBuiltInVain
  <2>1. SUFFICES ASSUME Installed!Unambiguous, NEW r \in ToBuild,
                        kind[r.tgt] = "file", content[r.tgt] = "current"
                 PROVE  \E d \in SeenFrom(r.tgt) : ExcusedBy(r.tgt, d)
    BY DEF NothingBuiltInVain, ToBuild
  <2>2. SeenFrom(r.tgt) = AllSeenFrom(r.tgt)
    <3>1. r.tgt \in Attempted
      BY <1>1, <2>1 DEF HInv, AttemptsOK, ToBuild, Started, Live, Handled
    <3> QED
      BY <1>1, <2>1, <3>1, AttemptedSeeBuilt DEF HInv
  <2> QED
    BY <1>1, <2>1, <2>2 DEF HInv, VainOK
<1>2. DInv /\ (Installed!Unambiguous => HInv) => NothingBuiltInVain
  BY <1>1
<1> QED
  BY <1>2, DriverInvariant, HistoryInvariant, PTL

-----------------------------------------------------------------------------
(* The promises of the loop, inside of the program.                        *)

(* What a step of the program does to the loop: it may make a new one,     *)
(* leave it alone, or let it go on.  Targets are built only by a loop that *)
(* goes on, or by a new one.                                               *)
LEMMA DriverSteps ==
  ASSUME DInv, [DriverNext]_allvars
  PROVE  /\ LoopInit' \/ UNCHANGED memory \/ (stage # "exited" /\ [Next]_vars)
         /\ stage' = "building" => LoopInit' \/ (stage = "building" /\ [Next]_vars)
         /\ stage = "building" => UNCHANGED memory \/ [Next]_vars
<1>1. CASE \/ Construct \/ Refuse \/ SkipLibrary \/ ThrowVersion \/ EndLoading
           \/ OpenLibrary \/ ProcessLibrary \/ ResolveAll \/ \E t \in Targets : ListTarget(t)
  <2>1. /\ stage \in {"opening", "loading", "resolving", "listing"}
        /\ UNCHANGED <<status, already_built, built_targets, queues, locals, call, attempts,
                       sched>>
    <3>1. CASE Construct \/ Refuse \/ SkipLibrary \/ ThrowVersion \/ EndLoading
      BY <3>1 DEF Construct, Refuse, SkipLibrary, ThrowVersion, EndLoading, Loading, vars
    <3>2. CASE OpenLibrary \/ \E t \in Targets : ListTarget(t)
      BY <3>2 DEF OpenLibrary, ListTarget, vars
    <3>3. CASE ProcessLibrary \/ ResolveAll
      BY <3>3 DEF ProcessLibrary, ResolveAll, ProcessProject, ResolveDepsForAll, Resolve,
                  given, Loading
    <3> QED
      BY <1>1, <3>1, <3>2, <3>3
  <2> QED
    BY <2>1, LoopInitStays DEF DInv, StageOK
<1>2. CASE \/ RequestUnknown \/ BuildEnds \/ ListingEnds
           \/ DestroyTargets \/ StopWorkers \/ Joined \/ CloseLibraries \/ Exit
  <2>1. UNCHANGED memory
    BY <1>2 DEF RequestUnknown, BuildEnds, ListingEnds, DestroyTargets, StopWorkers,
                Sched!Close, Joined, CloseLibraries, Exit, vars, sched, memory
  <2>2. stage' # "building"
    BY <1>2 DEF RequestUnknown, BuildEnds, ListingEnds, DestroyTargets, StopWorkers,
                Joined, CloseLibraries, Exit, Throw, leaving
  <2> QED
    BY <2>1, <2>2
<1>3. CASE \/ \E R \in SUBSET Targets : RequestBuild(R)
           \/ BuildStep
           \/ \E r \in queued : DriverStartRecipe(r)
           \/ \E r \in running : DriverRecipe(r)
  <2>1. stage' = stage /\ stage # "exited"
    BY <1>3 DEF RequestBuild, BuildStep, DriverStartRecipe, DriverRecipe, WorkersLive,
                driver, leaving
  <2>2. Next
    <3>1. CASE \E r \in running : DriverRecipe(r)
      BY <3>1 DEF DriverRecipe, Recipe, WorkerStep, Next
    <3> QED
      BY <1>3, <3>1 DEF RequestBuild, BuildStep, DriverStartRecipe, ClientCall, WorkerStep, Next
  <2> QED
    BY <2>1, <2>2
<1>4. CASE \/ Kill
           \/ \E t \in Targets : \E time \in {0} \cup NextTick : Edit(t, time)
  BY <1>4 DEF Kill, Edit, memory, sched, leaving
<1>5. CASE Restart
  BY <1>5 DEF Restart, LoopInit, Sched!Init
<1>6. CASE UNCHANGED allvars
  BY <1>6 DEF allvars, vars, sched, memory, driver, leaving
<1> QED
  BY <1>1, <1>2, <1>3, <1>4, <1>5, <1>6 DEF DriverNext, ProcessStep

(* The verdict of build_targets is right in every process in which the     *)
(* links agree and no list of dependencies names a target twice: "ok"      *)
(* means that everything needed was built, the other errors that all but   *)
(* what depends on a cycle was.                                            *)
THEOREM DriverVerdictIsRight == DriverSafety => [](NoStaleLink /\ OnceInGraph => EndsRight)
<1> DEFINE Right == GraphOK /\ OnceInGraph => EndsRight
<1>1. DriverInit => Right
  BY DEF DriverInit, LoopInit, EndsRight
<1>2. ASSUME DInv, Right, [DriverNext]_allvars
      PROVE  Right'
  <2>1. CASE LoopInit'
    BY <2>1 DEF LoopInit, EndsRight
  <2>2. CASE UNCHANGED memory
    <3>1. (GraphOK' <=> GraphOK) /\ (OnceInGraph' <=> OnceInGraph) /\ Cyclic' = Cyclic
      BY <2>2, SameGraph, SameNotions DEF memory, graph, OnceInGraph
    <3>2. Below(requested)' = Below(requested)
      BY <2>2, SameNotions DEF memory, graph, call, Below, DepsOf
    <3> QED
      BY <1>2, <2>2, <3>1, <3>2 DEF EndsRight, memory, call
  <2>3. CASE stage # "exited" /\ [Next]_vars
    <3>1. (GraphOK' <=> GraphOK) /\ (OnceInGraph' <=> OnceInGraph)
      BY <2>3, GraphStays, SameGraph DEF graph, OnceInGraph
    <3>2. GraphOK => IInv /\ OInv
      BY <1>2, <2>3 DEF DInv, LoopPart, LInv, IInv
    <3> QED
      BY <1>2, <2>3, <3>1, <3>2, NextKeepsVerdict, DriverIsCareful
  <2> QED
    BY <1>2, <2>1, <2>2, <2>3, DriverSteps
<1>3. DInv /\ Right => (NoStaleLink /\ OnceInGraph => EndsRight)
  BY LinksAgreeUnlessStale DEF DInv
<1> QED
  BY <1>1, <1>2, <1>3, DriverInvariant, PTL DEF DriverSafety

(* What process_targets_builds hands to the scheduler of a process is new  *)
(* to it, and the scheduler still open.                                    *)
THEOREM DriverBatchesAreTaken == DriverSafety => [](stage = "building" => BatchIsTaken)
<1> DEFINE New == stage = "building" => FreshOK
<1> USE DEF FreshOK, Sched!Known, Sched!Ended
<1>1. DriverInit => New
  BY DEF DriverInit
<1>2. ASSUME DInv, New, [DriverNext]_allvars, stage' = "building"
      PROVE  FreshOK'
  <2>1. CASE LoopInit'
    BY <2>1 DEF LoopInit, Handled, Sched!Init
  <2>2. CASE stage = "building" /\ [Next]_vars
    <3>1. LInv
      BY <1>2, <2>2 DEF DInv, LoopPart, LInv
    <3> QED
      BY <1>2, <2>2, <3>1, NextKeepsFresh
  <2> QED
    BY <1>2, <2>1, <2>2, DriverSteps
<1>3. DInv /\ New => (stage = "building" => BatchIsTaken)
  BY DEF BatchIsTaken, DInv, LoopPart, LoopOK, OnePlace, Handled
<1>4. DInv /\ New /\ [DriverNext]_allvars => New'
  BY <1>2
<1> QED
  BY <1>1, <1>3, <1>4, DriverInvariant, PTL DEF DriverSafety

(* While a process builds, a target is handed to the scheduler exactly     *)
(* when it is out of date as its resolved dependencies and the files of    *)
(* the moment have it.                                                     *)
THEOREM DriverDecidesRight ==
  DriverSafety =>
    [][NoStaleLink /\ stage = "building" =>
         \A t \in Targets :
           attempts'[t] # attempts[t] =>
             ((\E r \in pending_build_requests' \ pending_build_requests : r.tgt = t)
                <=> Stale(t))]_allvars
<1>1. ASSUME DInv, [DriverNext]_allvars, NoStaleLink, stage = "building",
             NEW t \in Targets, attempts'[t] # attempts[t]
      PROVE  (\E r \in pending_build_requests' \ pending_build_requests : r.tgt = t)
               <=> Stale(t)
  <2>1. UNCHANGED <<memory, pending_build_requests>> \/ [Next]_vars
    BY <1>1, DriverSteps DEF memory, queues
  <2>2. IInv /\ SInv
    BY <1>1, LinksAgreeUnlessStale DEF DInv, LoopPart, LInv, IInv
  <2> QED
    BY <1>1, <2>1, <2>2, StepDecidesRight DEF memory
<1>2. DInv /\ [DriverNext]_allvars =>
        [NoStaleLink /\ stage = "building" =>
           \A t \in Targets :
             attempts'[t] # attempts[t] =>
               ((\E r \in pending_build_requests' \ pending_build_requests : r.tgt = t)
                  <=> Stale(t))]_allvars
  BY <1>1
<1> QED
  BY <1>2, DriverInvariant, PTL DEF DriverSafety
=============================================================================
