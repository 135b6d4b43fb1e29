---------------------------- MODULE BuildTargets ----------------------------
(***************************************************************************)
(* The build loop, driver/src/processed_targets.cxx, running against a     *)
(* scheduler that keeps the promise of BuildService.                       *)
(*                                                                         *)
(* Dependencies have been resolved as far as they can be: `deps` is what   *)
(* each target needs, in the order and with the repetitions its author     *)
(* wrote, `dep_of` the links back.  The main thread sorts the needed       *)
(* targets into buildable and blocked ones, and for each target it gets    *)
(* back raises the counter of every consumer.  Recipes run meanwhile and   *)
(* change the files the loop looks at.                                     *)
(***************************************************************************)
EXTENDS TargetGraph, TargetStatus

CONSTANTS
  InitialGraphs,    \* what loading may leave, records with a field for
                    \* each variable of the graph
  InitialFiles,     \* modification times the files may have, 0 for missing
  MaxTime,          \* bound on the clock
  KernelTime,       \* what the kernel's clock, which goes by ticks, reads
                    \* when the precise one reads 0, 1, ..., MaxTime
  MaxParallel,      \* worker threads
  RecipeEffects,    \* what a recipe of the user may do
  MaxCalls,         \* bound on the calls of build_targets
  RetriesAfter,     \* outcomes after which the client calls again
  DiscardsFirst     \* whether it calls discard_all_running_tasks before

Outcomes ==
  {"none", "ok",
   "cycle",     \* "Build order of targets contains a cycle ..."
   "idle",      \* "Workers are idle, without any job to complete ..."
   "failed",    \* "Failed to build target ...", or its file is missing after
   "unresolved",  \* "Trying to build target ... with unresolved dependencies"
   "error"}     \* "Internal error: ..." out of a status comparison, "Serious
                \* internal error ..." over a name that finds another target

Effects == {"touches", "nothing", "throws", "spoils"}

ASSUME GraphsAssumption ==
  \A g \in InitialGraphs :
    /\ g.kind \in [Targets -> TargetKinds]
    /\ g.deps \in [Targets -> Seq(Targets)]
    /\ g.dep_of \in [Targets -> SUBSET Targets]
    /\ g.resolved \subseteq Targets /\ g.shadowed \subseteq Targets
(* The kernel's clock shows the time of its last tick.                     *)
ASSUME ClockAssumption ==
  /\ KernelTime \in [0..MaxTime -> 0..MaxTime]
  /\ \A n \in 0..MaxTime : KernelTime[n] <= n /\ (n # 0 => KernelTime[n] # 0)
  /\ \A n \in 0..MaxTime : KernelTime[KernelTime[n]] = KernelTime[n]
  /\ \A m, n \in 0..MaxTime : m <= n => KernelTime[m] <= KernelTime[n]
ASSUME BoundsAssumption ==
  /\ Times \subseteq Int
  /\ MaxTime \in Nat /\ 0..MaxTime \subseteq Times
  /\ InitialFiles \subseteq [Targets -> 0..MaxTime]
  /\ MaxParallel \in Nat \ {0} /\ MaxCalls \in Nat
  /\ RecipeEffects \subseteq Effects
  /\ RetriesAfter \subseteq Outcomes
  /\ DiscardsFirst \in BOOLEAN

(* What the theorems about this module assume of the constants.  The runs  *)
(* that look for bugs leave these assumptions.                             *)

(* What resolution promises of the targets it resolved: both directions of *)
(* a link agree (LinksMirrorDeps of module DepResolution).                 *)
LinksAgree ==
  \A g \in InitialGraphs : \A c \in g.resolved, d \in Targets :
    c \in g.dep_of[d] <=> \E i \in DOMAIN g.deps[c] : g.deps[c][i] = d

(* A client that calls again after a failure discards what is under way,   *)
(* and does not call again after an internal error.                        *)
CarefulClient ==
  MaxCalls > 1 => /\ "error" \notin RetriesAfter
                  /\ "failed" \in RetriesAfter => DiscardsFirst

(* No author names a dependency twice.  Where one does, the counter of     *)
(* built dependencies never reaches the length of the list.                *)
NamedOnce ==
  \A g \in InitialGraphs : \A t \in Targets :
    \A i, j \in DOMAIN g.deps[t] : g.deps[t][i] = g.deps[t][j] => i = j

VARIABLES
  shadowed,                 \* targets whose resolved name finds another one
  mtime, now,               \* the files and the clock of the file system
  status,                   \* abstract_target::status
  already_built,            \* resolved_deps::already_built
  built_targets,
  pending_build_requests,
  up_to_date_targets,
  phase,                    \* where the main thread is
  requested,                \* the argument of the last call
  buildable_targets, blocked_targets,   \* the local to_build
  built_tgt, consumers,     \* the loop over dep_of: its target, NoTarget
                            \* outside of it, and what is left
  outcome,                  \* how the last call ended
  calls, attempts,          \* calls made, build requests made per target
  queued, running, finished, returned, failed, open   \* the scheduler

graph  == <<kind, deps, dep_of, resolved, shadowed>>
files  == <<mtime, now>>
queues == <<pending_build_requests, up_to_date_targets>>
locals == <<buildable_targets, blocked_targets, built_tgt, consumers>>
call   == <<phase, requested, outcome, calls>>
sched  == <<queued, running, finished, returned, failed, open>>
vars   == <<graph, files, status, already_built, built_targets, queues, locals,
            call, attempts, sched>>

(* A build_request, and the build_result it becomes.                       *)
Request == [tgt : Targets, newest_dep_status : Status, attempt : Nat]

Sched == INSTANCE BuildService WITH Requests <- Request

Handled == queued \cup running \cup finished   \* num_handled_targets

-----------------------------------------------------------------------------
(* The graph.                                                              *)

DepsOf(t) == {deps[t][i] : i \in DOMAIN deps[t]}

VisitedAgain(R) ==
  {t \in Targets : \A N \in SUBSET Targets :
     R \subseteq N /\ (\A n \in N : DepsOf(n) \subseteq N) => t \in N}

(* What get_all_dependencies_of visits from R: it does not look below a    *)
(* target that is built.                                                   *)
VisitedFrom(R) ==
  {t \in Targets :
     \A N \in SUBSET Targets :
       /\ R \ built_targets \subseteq N
       /\ \A n \in N : DepsOf(n) \ built_targets \subseteq N
       => t \in N}

AllDepsCounted(t) == already_built[t] = Len(deps[t])

-----------------------------------------------------------------------------
(* Statuses, by the kind of the target.                                    *)

FileStatus(t) == IF mtime[t] = 0 THEN ExplicitlyNeedsUpdate
                                 ELSE FileModTime(mtime[t])

InitialStatus(t) ==   \* initialize_status
  CASE kind[t] \in {"file", "read_only"} -> FileStatus(t)
    [] kind[t] = "phony" -> ExplicitlyNeedsUpdate
    [] kind[t] = "alias" -> TransitivelyNeedsUpdate

UpdatedFilesOnly(t, newest_dep_status) ==
  IF kind[t] = "file" THEN FileModTime(mtime[t]) ELSE status[t]
UpdatedStatus(t, newest_dep_status) ==   \* update_status
  CASE kind[t] = "file" -> FileModTime(mtime[t])
    [] kind[t] = "read_only" -> Merge(status[t], newest_dep_status)
    [] kind[t] = "phony" -> status[t]
    [] kind[t] = "alias" -> newest_dep_status

UpdateThrows(t) == kind[t] = "file" /\ mtime[t] = 0

-----------------------------------------------------------------------------
TypeOK ==
  /\ kind \in [Targets -> TargetKinds]
  /\ deps \in [Targets -> Seq(Targets)]
  /\ dep_of \in [Targets -> SUBSET Targets]
  /\ resolved \subseteq Targets
  /\ shadowed \subseteq Targets
  /\ mtime \in [Targets -> 0..MaxTime]
  /\ now \in 0..MaxTime
  /\ status \in [Targets -> Status]
  /\ already_built \in [Targets -> Nat]
  /\ built_targets \subseteq Targets
  /\ pending_build_requests \subseteq Request
  /\ up_to_date_targets \in Seq(Request)
  /\ phase \in {"client", "discard", "initial", "get", "consumers"}
  /\ requested \subseteq Targets
  /\ buildable_targets \subseteq Targets
  /\ blocked_targets \subseteq Targets
  /\ built_tgt \in Targets \cup {NoTarget}
  /\ consumers \subseteq Targets
  /\ outcome \in Outcomes
  /\ calls \in Nat
  /\ attempts \in [Targets -> Nat]
  /\ Sched!TypeOK

LoopInit ==   \* a processed_targets just made, and its scheduler
  /\ status = [t \in Targets |-> Uninitialized]
  /\ already_built = [t \in Targets |-> 0]
  /\ built_targets = {}
  /\ pending_build_requests = {}
  /\ up_to_date_targets = <<>>
  /\ phase = "client"
  /\ requested = {}
  /\ buildable_targets = {}
  /\ blocked_targets = {}
  /\ built_tgt = NoTarget
  /\ consumers = {}
  /\ outcome = "none"
  /\ calls = 0
  /\ attempts = [t \in Targets |-> 0]
  /\ Sched!Init

FilesInit ==
  /\ mtime \in InitialFiles
  /\ now \in 0..MaxTime
  /\ \A t \in Targets : mtime[t] <= now

Init ==
  /\ \E g \in InitialGraphs :
       /\ kind = g.kind /\ deps = g.deps /\ dep_of = g.dep_of
       /\ resolved = g.resolved /\ shadowed = g.shadowed
  /\ FilesInit
  /\ LoopInit

-----------------------------------------------------------------------------
(* The client of the library.                                              *)

MayCallUndiscarded ==
  phase = "client" /\ calls < MaxCalls /\ outcome \in RetriesAfter \cup {"none"}
MayCall ==
  /\ phase = "client"
  /\ calls < MaxCalls
  /\ outcome \in RetriesAfter \cup {"none"}
  /\ DiscardsFirst => Handled = {}

(* build_targets, up to the sorting of what is needed.  If all of it is    *)
(* built already the call returns at once; over an unresolved target it    *)
(* throws before anything is changed.                                      *)
BuildTargets(R) ==
  /\ MayCall
  /\ requested' = R
  /\ calls' = calls + 1
  /\ LET visited == VisitedFrom(R)
     IN  \/ /\ visited = {}
            /\ outcome' = "ok"
            /\ UNCHANGED <<phase, buildable_targets, blocked_targets>>
         \/ /\ ~(visited \subseteq resolved)
            /\ outcome' = "unresolved"
            /\ UNCHANGED <<phase, buildable_targets, blocked_targets>>
         \/ /\ visited # {} /\ visited \subseteq resolved
            /\ buildable_targets' = {t \in visited : AllDepsCounted(t)}
            /\ blocked_targets' = {t \in visited : ~AllDepsCounted(t)}
            /\ phase' = "initial"
            /\ outcome' = "none"
  /\ UNCHANGED <<graph, files, status, already_built, built_targets, queues,
                 built_tgt, consumers, attempts, sched>>

StartDiscarding ==
  /\ phase = "client"
  /\ Handled # {}
  /\ phase' = "discard"
  /\ UNCHANGED <<graph, files, status, already_built, built_targets, queues,
                 locals, requested, outcome, calls, attempts, sched>>

AlwaysMore(r) == TRUE
MoreToDiscard(r) == Handled # {r}

DiscardResult(r) ==
  /\ phase = "discard"
  /\ Sched!Return(r)
  /\ phase' = IF MoreToDiscard(r) THEN "discard" ELSE "client"
  /\ UNCHANGED <<graph, files, status, already_built, built_targets, queues,
                 locals, requested, outcome, calls, attempts>>

-----------------------------------------------------------------------------
(* process_target_build.                                                   *)

(* The status of a target and those of its dependencies, right after       *)
(* initialize_status.                                                      *)
Prepared(t) == [status EXCEPT ![t] = InitialStatus(t)]

DepStatuses(t) == [i \in DOMAIN deps[t] |-> Prepared(t)[deps[t][i]]]

WorstStatus(t) == WorstDepStatus(InitialStatus(t), DepStatuses(t))

DecisionThrows(t) ==
  \/ WorstDepStatusThrows(InitialStatus(t), DepStatuses(t))
  \/ ComparisonThrows(InitialStatus(t), WorstStatus(t))

RequestFor(t) == [tgt |-> t, newest_dep_status |-> WorstStatus(t),
                  attempt |-> attempts[t]]

NeedsBuildIfMissing(t) == InitialStatus(t).kind # "file_mod_time"
NeedsBuild(t) == NeedsUpdateComparedTo(InitialStatus(t), WorstStatus(t))

ProcessTargetBuild(t) ==
  /\ t \notin shadowed
  /\ ~DecisionThrows(t)
  /\ status' = Prepared(t)
  /\ attempts' = [attempts EXCEPT ![t] = @ + 1]
  /\ IF NeedsBuild(t)
     THEN /\ pending_build_requests' = pending_build_requests \cup {RequestFor(t)}
          /\ UNCHANGED up_to_date_targets
     ELSE /\ up_to_date_targets' = Append(up_to_date_targets, RequestFor(t))
          /\ UNCHANGED pending_build_requests

(* The call ends, by return or by an exception; its locals are gone, what  *)
(* it has put into the members of processed_targets stays.                 *)
EndCall(how) ==
  /\ phase' = "client"
  /\ outcome' = how
  /\ buildable_targets' = {}
  /\ blocked_targets' = {}
  /\ built_tgt' = NoTarget
  /\ consumers' = {}
  /\ UNCHANGED <<requested, calls>>

ProcessTargetBuildThrows(t) ==
  /\ \/ t \in shadowed /\ UNCHANGED status
     \/ t \notin shadowed /\ DecisionThrows(t) /\ status' = Prepared(t)
  /\ EndCall("error")
  /\ UNCHANGED <<attempts, queues>>

(* scheduler_commit_build_requests; schedule_builds ignores an empty batch. *)
Commit ==
  /\ IF pending_build_requests = {} THEN UNCHANGED sched
     ELSE Sched!Schedule(pending_build_requests)
  /\ pending_build_requests' = {}

-----------------------------------------------------------------------------
(* The main thread inside of build_targets_impl.                           *)

(* process_target_builds goes through an unordered set.                    *)
ProcessBuildable(t) ==
  /\ phase = "initial"
  /\ t \in buildable_targets
  /\ \/ /\ ProcessTargetBuild(t)
        /\ buildable_targets' = buildable_targets \ {t}
        /\ UNCHANGED <<call, blocked_targets, built_tgt, consumers>>
     \/ ProcessTargetBuildThrows(t)
  /\ UNCHANGED <<graph, files, already_built, built_targets, sched>>

CommitInitial ==
  /\ phase = "initial"
  /\ buildable_targets = {}
  /\ Commit
  /\ phase' = "get"
  /\ UNCHANGED <<graph, files, status, already_built, built_targets,
                 up_to_date_targets, locals, requested, outcome, calls,
                 attempts>>

(* What get_built_target does with a result, and the entry of the loop     *)
(* over the consumers.                                                     *)
AcceptResult(r) ==
  /\ status' = [status EXCEPT ![r.tgt] = UpdatedStatus(r.tgt, r.newest_dep_status)]
  /\ built_targets' = built_targets \cup {r.tgt}
  /\ built_tgt' = r.tgt
  /\ consumers' = dep_of[r.tgt]
  /\ phase' = "consumers"
  /\ UNCHANGED <<buildable_targets, blocked_targets, requested, outcome, calls>>

(* The last target found up to date is taken first.                        *)
GetUpToDate ==
  /\ phase = "get"
  /\ up_to_date_targets # <<>>
  /\ LET last == up_to_date_targets[Len(up_to_date_targets)]
     IN  IF UpdateThrows(last.tgt)
         THEN EndCall("failed") /\ UNCHANGED <<status, built_targets>>
         ELSE AcceptResult(last)
  /\ up_to_date_targets' =
       SubSeq(up_to_date_targets, 1, Len(up_to_date_targets) - 1)
  /\ UNCHANGED <<graph, files, already_built, pending_build_requests, attempts,
                 sched>>

GetResult(r) ==
  /\ phase = "get"
  /\ up_to_date_targets = <<>>
  /\ Sched!Return(r)
  /\ IF r \in failed \/ UpdateThrows(r.tgt)
     THEN EndCall("failed") /\ UNCHANGED <<status, built_targets>>
     ELSE AcceptResult(r)
  /\ UNCHANGED <<graph, files, already_built, queues, attempts>>

(* get_build_result with nothing handled.                                  *)
GetThrowsIdle ==
  /\ phase = "get"
  /\ up_to_date_targets = <<>>
  /\ Handled = {}
  /\ EndCall("idle")
  /\ UNCHANGED <<graph, files, status, already_built, built_targets, queues,
                 attempts, sched>>

CountDown(c)        == [already_built EXCEPT ![c] = @ - 1]
CountIfBlocked(c)   == IF c \in blocked_targets
                       THEN [already_built EXCEPT ![c] = @ + 1] ELSE already_built
CountUp(c)          == [already_built EXCEPT ![c] = @ + 1]

CompleteTooEarly(c) == already_built[c] + 2 >= Len(deps[c])
CompleteTooLate(c)  == already_built[c] = Len(deps[c])
Complete(c)         == already_built[c] + 1 = Len(deps[c])

AnyConsumer(c)      == TRUE
Awaited(c)          == c \in blocked_targets

(* One round of the loop over dep_of, which is an unordered set.           *)
Consumer(c) ==
  /\ phase = "consumers"
  /\ c \in consumers
  /\ already_built' = CountUp(c)
  /\ \/ /\ ~(Awaited(c) /\ Complete(c))
        /\ consumers' = consumers \ {c}
        /\ UNCHANGED <<status, attempts, queues, call, buildable_targets,
                       blocked_targets, built_tgt>>
     \/ /\ Awaited(c) /\ Complete(c)
        /\ \/ /\ ProcessTargetBuild(c)
              /\ consumers' = consumers \ {c}
              /\ blocked_targets' = blocked_targets \ {c}
              /\ UNCHANGED <<call, buildable_targets, built_tgt>>
           \/ ProcessTargetBuildThrows(c)
  /\ UNCHANGED <<graph, files, built_targets, sched>>

AlwaysOk == "ok"
LoopOutcome == IF blocked_targets = {} THEN "ok" ELSE "cycle"

(* The end of the body of the do-while loop and its condition.             *)
CommitLoop ==
  /\ phase = "consumers"
  /\ consumers = {}
  /\ Commit
  /\ IF up_to_date_targets # <<>> \/ Handled' # {}
     THEN /\ phase' = "get"
          /\ built_tgt' = NoTarget
          /\ UNCHANGED <<requested, outcome, calls, buildable_targets,
                         blocked_targets, consumers>>
     ELSE EndCall(LoopOutcome)
  /\ UNCHANGED <<graph, files, status, already_built, built_targets,
                 up_to_date_targets, attempts>>

-----------------------------------------------------------------------------
(* Recipes, on the worker threads.                                         *)

StartRecipe(r) ==
  /\ Sched!Start(r)
  /\ UNCHANGED <<graph, files, status, already_built, built_targets, queues,
                 locals, call, attempts>>

(* Only a recipe the user wrote can do anything: write its file, leave it  *)
(* alone, throw, or spoil its file, which is to write a part of it and     *)
(* throw.  That of an alias throws if it stands for nothing.               *)
EffectsOn(t) ==
  CASE kind[t] = "alias" /\ deps[t] = <<>> -> {"throws"}
    [] kind[t] = "file" -> RecipeEffects
    [] kind[t] = "phony" -> (RecipeEffects \cap {"throws"}) \cup {"nothing"}
    [] OTHER -> {"nothing"}

(* The clock may or may not have gone on since the last write.             *)
WriteTimes == {now, now + 1} \cap 1..MaxTime

(* The time on the file of t when a recipe writes it at `time`, as         *)
(* touch_file of the integration libraries and fs_proxy::touch do: they    *)
(* create a missing file, which the kernel stamps by its coarse clock, and *)
(* set the time of an existing one by the precise clock.                   *)
Stamp(t, time) == IF mtime[t] = 0 THEN KernelTime[time] ELSE time

Write(t, time) ==
  /\ now' = time
  /\ mtime' = [mtime EXCEPT ![t] = Stamp(t, time)]

FinishRecipe(r, effect) ==
  /\ effect \in EffectsOn(r.tgt)
  /\ Sched!Finish(r, effect \in {"touches", "nothing"})
  /\ IF effect \in {"touches", "spoils"}
     THEN \E time \in WriteTimes : Write(r.tgt, time)
     ELSE UNCHANGED files
  /\ UNCHANGED <<graph, status, already_built, built_targets, queues, locals,
                 call, attempts>>

-----------------------------------------------------------------------------
MainStep ==
  \/ \E t \in Targets : ProcessBuildable(t) \/ Consumer(t)
  \/ CommitInitial
  \/ GetUpToDate
  \/ \E r \in finished : GetResult(r) \/ DiscardResult(r)
  \/ GetThrowsIdle
  \/ CommitLoop

ClientCall ==
  \/ \E R \in SUBSET Targets : BuildTargets(R)
  \/ StartDiscarding

Recipe(r) == \E effect \in Effects : FinishRecipe(r, effect)

WorkerStep ==
  \/ \E r \in queued : StartRecipe(r)
  \/ \E r \in running : Recipe(r)

Resting == phase = "client" /\ ~MayCall /\ Handled = {} /\ UNCHANGED vars

Next == MainStep \/ ClientCall \/ WorkerStep \/ Resting

(* The main thread runs when it can, and the workers keep the fairness of  *)
(* the service: they start what is queued, and every recipe ends.          *)
Fairness ==
  /\ WF_vars(MainStep)
  /\ WF_vars(\E r \in queued : StartRecipe(r))
  /\ WF_vars(\E r \in running : Recipe(r))

Safety == Init /\ [][Next]_vars

Spec == Safety /\ Fairness

-----------------------------------------------------------------------------
(* Reference notions over the graph alone.                                 *)

Below(R) ==   \* R and all it needs, directly or not
  {t \in Targets :
     \A N \in SUBSET Targets :
       R \subseteq N /\ (\A n \in N : DepsOf(n) \subseteq N) => t \in N}

Cyclic ==   \* on a cycle, or needing what is on one
  {t \in Targets :
     \E S \in SUBSET Targets : t \in S /\ \A s \in S : DepsOf(s) \cap S # {}}

(* The targets whose files t is compared with: its dependencies, and what  *)
(* is seen through those that hand on the status of theirs.                *)
SeenFrom(t) ==
  {d \in Targets :
     \A N \in SUBSET Targets :
       /\ DepsOf(t) \subseteq N
       /\ \A n \in N : kind[n] \in {"alias", "read_only"} => DepsOf(n) \subseteq N
       => d \in N}

HasFile(t) == kind[t] \in {"file", "read_only"}

Stale(t) ==
  \/ ~HasFile(t)
  \/ mtime[t] = 0
  \/ \E d \in SeenFrom(t) :
       \/ kind[d] = "phony"
       \/ HasFile(d) /\ (mtime[d] = 0 \/ mtime[d] > mtime[t])

-----------------------------------------------------------------------------
(* Properties.                                                             *)

(* The contract of abstract_target::recipe: when a recipe is handed over   *)
(* or runs, every dependency has been built and has its final status.      *)
DepsBuiltFirst ==
  \A r \in pending_build_requests \cup queued \cup running :
    DepsOf(r.tgt) \subseteq built_targets

(* The same contract: a recipe is called at most once for each target, that *)
(* is, never again once the target is built, neither by a later call nor   *)
(* by one that repeats a call cut short by a failure.                      *)
OncePerTarget ==
  \A r \in pending_build_requests \cup queued \cup running :
    r.tgt \notin built_targets

(* The counter of a resolved target is the number of its dependencies that *)
(* are built, but for those whose loop over their consumers has not come   *)
(* to it yet.  Consecutive calls depend on it: a target built by one call  *)
(* is not counted again by the next.  Only an internal error leaves such a *)
(* loop before its end.                                                    *)
CountersAgree ==
  outcome # "error" => \A c \in resolved :
    already_built[c] =
      Cardinality({d \in DepsOf(c) \cap built_targets :
                     d = built_tgt => c \notin consumers})

(* While the main thread waits for results nothing that could be built is  *)
(* held back: every blocked target lacks a dependency.                     *)
NothingReadyWaits ==
  phase = "get" =>
    \A t \in blocked_targets : ~(DepsOf(t) \subseteq built_targets)

(* A call that is not cut short by a failure builds exactly what can be    *)
(* built of what it was asked for, and reports success exactly when that   *)
(* is everything; a cycle does not keep independent targets from being     *)
(* built.                                                                  *)
EndsRight ==
  phase = "client" /\ outcome \in {"ok", "cycle", "idle"} =>
    /\ Below(requested) \cap built_targets = Below(requested) \ Cyclic
    /\ outcome = "ok" <=> Below(requested) \cap Cyclic = {}

(* The error that speaks of a cycle is reported only if there is one.      *)
CycleErrorMeansCycle ==
  outcome \in {"cycle", "idle"} => Below(requested) \cap Cyclic # {}

(* Also across failures, as long as the client discards before it calls    *)
(* again: no two requests for one target are under way together.           *)
OneRequestAtATime ==
  \A r, q \in pending_build_requests \cup Handled : r.tgt = q.tgt => r = q

(* Nothing is built but what the call needs, though finishing a target     *)
(* visits all of its consumers.                                            *)
NothingUnneeded ==
  \A r \in pending_build_requests \cup Handled : r.tgt \in Below(requested)

(* The build decision is the right one: a target is handed to the          *)
(* scheduler exactly when it has no file, its file is missing, or one of   *)
(* the files it depends on, seen through aliases and read-only files, is   *)
(* missing, phony or newer.                                                *)
DecisionIsRight ==
  [][\A t \in Targets :
       attempts'[t] # attempts[t] =>
         ((\E r \in pending_build_requests' \ pending_build_requests : r.tgt = t)
            <=> Stale(t))]_vars

(* The "internal errors" of target_status are reachable in one way only,   *)
(* an alias of nothing, and the "serious" one through a target that shares *)
(* its name with another.                                                  *)
InternalErrorsExplained ==
  outcome = "error" =>
    \E t \in Below(requested) :
      t \in shadowed \/ (kind[t] = "alias" /\ deps[t] = <<>>)

(* A call of build_targets, and one of discard_all_running_tasks, returns. *)
CallReturns == phase # "client" ~> phase = "client"
=============================================================================
