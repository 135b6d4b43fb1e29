# Verification of build_cxx

TLA+ specifications of `build_cxx`, a build tool whose project descriptions are
C++: targets and their recipes are compiled into shared libraries, and
`build_cxx_driver` loads them, works out what is out of date and runs the
recipes on a pool of threads. The specifications stay beside the code in
`src/build_cxx`; `PROJECT.json` names the lines every definition stands for.

## The system

| component | state | operations | talks to |
|---|---|---|---|
| scheduler (`driver/src/scheduler.cxx`) | priority queue `todo` and FIFO `done`, each with a mutex and a condition variable; `n_handled_targets`, used by the client only; `should_run`; the workers | `schedule_builds`, `get_build_result`, `discard_all_running_tasks`, destructor, worker loop | called by the build loop; calls recipes on its threads |
| build loop (`driver/src/processed_targets.cxx`, from `build_target` on) | `already_built` of each target, `built_targets`, `pending_build_requests`, `up_to_date_targets` | `build_target(s)`, `build_all` | the scheduler, the statuses of targets, the file system |
| loading and resolution (same file, first part) | maps of projects and names, `target_resolved_deps`, `unresolved` | `process_project`, `resolve_deps_for`, `resolve_deps_for_all` | called by `assignment`, its result is the graph of the build loop |
| target status (`common/src/target_status.cxx`, `abstract_target.cxx`) | a kind and a modification time | `merge_with`, `needs_update_compared_to`, `get_worst_dep_status` | the build loop and a comparator |
| kinds of targets (`file_target`, `read_only_file_target`, `phony_target`, `target_alias`) | `status`, the resolved name | `resolve_own_traits`, `initialize_status`, `update_status`, `recipe` | the file system |
| comparators (`build_request_comparators_chain.cxx`) | a chain of at most three | `make_comparators_chain`, `operator()` | the priority queue |
| program (`assignment.cxx`, `main.cxx`) | locals of `process()` | open, load, resolve, list or build, unwind | everything above |
| libraries (`dlopen_scoped`, `project`, client macros) | a handle; a list of targets filled by static initialisers | open, `get_project`, `add_target`, close | opened and closed by `assignment`; hold the code of the recipes |
| `fs_proxy` | none | `file_exists`, `file_last_mod_time` | the file system |
| debug helper, small headers | none | | not modelled |

What is hard: the two condition variables of the scheduler and a counter beside
them that no lock protects; the order in which results arrive while the loop
goes on sorting targets; exceptions, which leave members of
`processed_targets` as they are for the next call; links made by attempts to
resolve that fail halfway; the decision to build, which rests on modification
times alone; several processes, some of them killed, over the same files; and
the destructors during the unwinding of a failed build, while recipes run that
are code of a library. `PROJECT.json` lists these hazards one by one with their
lines.

## The modules

```
BuildService <---implements--- Scheduler <--- SchedulerProofs
     ^ INSTANCE
     |            TargetStatus <--EXTENDS-- ComparatorsChain <--- ComparatorsChainProofs
     |            ^          ^
BuildTargets -----           MCTargetStatus <--- TargetStatusProofs
     ^  |
     |  v
     |  TargetGraph          BuildTargetsProofs <--- BuildOutcomeProofs
     |  ^                    (of BuildTargets)              ^
     |  |                                                   |
     |  DepResolution <--- DepResolutionProofs <---- DriverProofs
     |  ^                                           (of Driver)
Driver  (EXTENDS BuildTargets and DepResolution)
```

`StatusFacts`, which all the proofs but those of Scheduler use, has what they
need of sequences, and the lemmas and theorems about the operators of TargetStatus.

* **BuildService** says what the build loop may rely on: requests are queued,
  started at most once and never by more than `MaxParallel` workers, finished
  with or without success, given back once; after `Close` nothing starts.
* **Scheduler** is the thread pool. A worker's place in its loop is `wpc`, the
  client's place in a method is `main`. Each critical section is one step,
  each notification a step of its own, as the code notifies after unlocking; a
  notification of one wakes any waiting thread or none, and a thread may wake
  for no reason. The history variables `scheduled`, `returned` and `failed`
  are the only additions. A recipe returns or throws.
* **TargetStatus** has the statuses as values and their functions; where the
  code throws, a predicate beside the operator says so.
* **TargetGraph** declares targets, their kinds and links, which the next two
  modules share: DepResolution makes the links, BuildTargets follows them.
* **BuildTargets** is the build loop. It starts from what resolution may leave:
  `deps`, a sequence with the repetitions its author wrote, the set `dep_of`,
  the targets `resolved`, and those `shadowed` by another of the same name. It
  uses the actions of BuildService for the scheduler. The sorting of the needed
  targets, each target processed, each commit, each result and each consumer of
  a result is a step, so that recipes, which change the files and the clock, run
  in between. A recipe writes its file, leaves it alone, throws, or writes a part
  of it and throws. It writes as `touch_file` of the integration libraries and
  `fs_proxy::touch` do, by two clocks: a missing file is created, and stamped with
  the time of the kernel's coarse clock (`KernelTime`), an existing one gets the
  precise time (`Stamp`). A call that ends by an exception loses its locals and keeps
  its members.
* **DepResolution** is loading and resolution. A name is a sequence of parts;
  `ResolvePath` and `InProject` make the names of targets and the three readings
  of a mention as `file_target` and `phony_target` do, without normalising.
* **ComparatorsChain** makes a chain from names, one round of the loop at a
  time, and compares two requests.
* **Driver** is the program. It extends BuildTargets and DepResolution, which
  share the variables of TargetGraph, so that what one leaves is what the
  other starts from: libraries are opened, which fills their lists; each is
  processed, skipped or refused; everything loaded is resolved; then targets are
  built or listed. `stage` is where `process()` is, `thrown` the exception it ends
  by. The destructors run in the order of C++: `processed_targets`, the workers
  told to stop, joined, the libraries closed. A kill may come at any point and
  leave files half written; files are edited and removed between processes; a
  restart keeps nothing but the files. Three history variables, `content`,
  `made_from` and `created`, say of each file whether a recipe called to build it
  wrote it last, from what, whether that was written since, and whether the file
  was missing before.
* **MC...** modules hold the instances, the `.cfg` files the bounds.

Pairs such as `CompleteTooEarly` and `CompleteTooLate` before `Complete` are a
definition of the model and plausible slips in the code it stands for: each
property of a passing run is known to fail when the slip is put in the place of
the definition (`PROJECT.json`, "mutants"). No behaviour uses the slips.

## What is checked

| run | instance | what it shows |
|---|---|---|
| ThreadPool | 3 workers, 3 requests, 2 priorities | no request is lost or repeated, the unlocked count is right, results tell the truth, no wake-up is missed on either condition variable, nobody sleeps when the destructor joins; `get_build_result` and the destructor return; the pool implements BuildService, fairness included |
| TargetStatus | 3 times, up to 3 dependencies | the worst status does not depend on the order of dependencies; the decision to build is what the newest file says |
| BuildGraphs | every graph over 3 files but for their names, chains and diamonds with phony targets, every request, 2 calls, 2 workers | a recipe starts after those it needs and never again once its target is built; the counters are exact; nothing ready is held back; a call ends, with the right verdict; nothing unneeded is built; no two requests for one target are under way, also over a retry after a failure and a discard |
| BuildDecisions | every acyclic graph over 3 targets of the 4 kinds, any ages, one shadowed or unresolved | a target is built exactly when it is stale; internal errors come only from an alias of nothing and from shared names |
| DepResolution | 2 projects, 3 targets, 2 mentions each | the counter is exact, both directions of a link agree, names mean what they should in any order of loading, success means complete |
| Comparators | all lists of up to 4 of 7 names, 8 requests | which lists are accepted; the order is strict, total and the documented one |
| DriverProcess | 1 process, 7 lists of up to 3 of 2 libraries, 3 targets | each project is loaded once and the verdict on versions and dependencies is what the libraries deserve; code of a library is used only while it is open; a recipe waits for what it needs, and shared names never end in an internal error, unless a failed attempt to resolve has left a link; every process ends |
| DriverRuns | 3 processes, each over library A alone or over B and A, 3 targets, a kernel's clock half as fine as the precise one, 1 edit, kill, listing, recipes that write, write nothing, throw or leave half a file | a success leaves no file outdated that was built, whatever came before and whatever the two clocks make of it; what is what its recipe made of current files is built again only if it was created in the very tick in which something it needs was overwritten |

### Disagreements

Four runs end in a violation on purpose.

* **BuildDuplicates**: a target that names one dependency twice is refused with
  the message about a cycle. `deps` is a vector and `dep_of` a set, so
  `already_built` never reaches `deps.size()` (`processed_targets.cxx:318,327`).
* **BuildAfterError**: an alias of nothing makes `process_target_build` throw in
  the middle of a set of targets. Requests already made stay in
  `pending_build_requests`; a later call commits them beside its own, counts the
  target twice, and hands over a consumer whose other dependency is not built.
  This takes a client that calls again on the same object, as the unit tests do
  and `build_cxx_driver` does not.
* **DriverFailure**: when one recipe fails while others run, `process()`
  destroys `processed_targets` before the scheduler has joined its workers
  (`assignment.cxx:61-64`), and the recipes are reading the vectors of
  dependencies that belonged to it. Declaring the two the other way round is
  not possible (one refers to the other); calling
  `discard_all_running_tasks`, or stopping the workers, before leaving is.
* **DriverStaleLink**: an attempt to resolve that stops at a name not found
  forgets `deps` but leaves its `dep_of` links (`processed_targets.cxx:356-364`).
  Two libraries are enough: target `t` of A mentions `x` and `B::lib`; when A is
  loaded alone, `x` is the file `a/x` beside A's description, and `B::lib` is
  unknown. B, described one directory above with paths relative to it, brings
  `B::lib` and a file `x`, which is now the first reading of the mention. The
  counter of `t` is raised by `a/x` as well, and its recipe is handed over
  before `B::lib` is built. The link may
  also make the loop come to a target before it has the status of what it
  depends on, an internal error over a status not initialised, for which five
  targets are needed. OrderedUnlessStale and OnlyEmptyAliasIsInternal are
  therefore stated for graphs without such a link (`NoStaleLink`). Linking only
  after all names were found repairs it.

`README.md:29` says of the second of three equal runs that there is "no need to
update (most probably, but there are some timestamp mismatches so it gets rebuild
even when not necessary ...)", and line 31 of the third that it "should definitely
have everything properly up-to date now". Such mismatches come from the two clocks
that the recipes mix (`tests/integration/03/build.cxx:30-42`, as
`fs_proxy.cxx:47-64` does): if `b` exists but is outdated and `a`, made from it,
does not exist, the first run overwrites `b` at the precise time and then creates
`a`, which the kernel stamps with its last tick, before that. The second run finds
`a` older than `b` and builds it again; `a` exists now, so that it gets the
precise time, and the third run has nothing to do. NothingBuiltInVain says exactly
this (`ExcusedBy`): a file is built again in vain only if it was created, and in
the tick of the kernel's clock in which something it needs was overwritten.
DriverRuns checks it, and that the other direction is safe, SuccessMeansFresh;
both are proved for any two such clocks. It is no disagreement, as the README
admits it, and so no run that ends in a violation. Setting the time of a created
file by the precise clock as well repairs it: with one clock a file is never built
again but over something that has no file to compare with.

Noticed and not made a run of: the comment on `operator()` of the comparators
(`build_request_comparators_chain.hxx:129`) says the opposite of what it
returns, which is what `std::priority_queue` wants; the comments in
`mod_time_compare` (`build_request_comparators_chain.cxx:140,143`) have newer
and older exchanged; an unknown name in the fourth place is reported as too
many comparators (part of AcceptedExactly); the listing calls recipes without
regard to their dependencies (`assignment.cxx:116`); a retry after a failure
calls the recipe of a target whose first result was discarded a second time.

### Bounds, and why they are enough

Three requests against three workers meet both branches of
`schedule_builds` (batch smaller than the pool, and not) and every batch size
at which the number of notifications matters; a fourth would add no new
relation between `todo`, waiting and ready workers. Three targets give every
shape in which one result meets two consumers or one consumer two results,
self-loops and cycles with and without a tail. Two parallel recipes are enough
for any two results to arrive in either order. Times `0..MaxTime` allow missing,
older, equal and newer; the clock may stand still between two writes. In
DriverRuns the kernel's clock ticks every other time (`TicksOfTwo`), so that two
writes may fall into one tick in any order of creating and overwriting. Each process
but the first, and an edit, starts in a new tick; `MaxTime` is 7, which is enough
for a build, an edit, a build of what that made outdated, and a third process that
finds a file current that was built again. The other runs, in which no time is
compared across processes, have `KernelTime` the identity (`OneClock`).
Processes, calls and edits are bounded by `MaxRuns`, `MaxCalls`, `MaxEdits`; a
process sees nothing of the past but files, so that with three of them one can
fail or be killed, the next report success over what it left, and the last find
something to build or nothing. BuildGraphs takes one graph of those that differ
in the names of files only, as nothing in the loop looks at names.
The Driver runs and Comparators switch the deadlock check off: the program, and
the making of a chain, end. BuildTargets has an explicit `Resting` step where the
client has no call left, Scheduler has `Terminated`.

### Fairness

Scheduler: weak fairness of each worker and of the client inside a method, which
is that the operating system runs every runnable thread and that a recipe ends.
Nothing is assumed of the client between calls and nothing of spurious
wake-ups. BuildTargets and Driver: the same for the main thread, and BuildService's
fairness for recipes, which ThreadPool shows the pool provides.

### Assumptions of the models

* BuildTargets alone: complete resolution of unambiguous names, but for the
  shadowed and unresolved targets of BuildDecisions. Driver makes no such
  assumption.
* Only recipes write files while a process runs, each its own, and they write as
  `touch_file` does, by two clocks; files that a kill leaves half written were
  written so too.
* The precise clock never goes back. The kernel's shows the time of its last tick: it
  is never ahead, never goes back, and stands still within a tick
  (`ClockAssumption`). Modification times may go back from one write to the
  next all the same.
* A process and an edit begin in a later tick of the kernel's clock than all that
  was written before (`NextTick`); within a process both clocks may stand still
  between two writes. Ticks are some milliseconds long, and the libraries take
  longer to load.
* SuccessMeansFresh says nothing of files last written by anything but a recipe
  that was called to build them and returned: by an edit, the listing, a recipe
  that threw or was killed, or one that reported success without writing. The
  program cannot tell these from built ones. Both properties of DriverRuns are about
  libraries which, all taken together, say of every mention what it means
  (`Installed!Unambiguous`); a process may be given whichever of them. Otherwise two
  processes could resolve one mention differently, and a file be made from one target
  and looked at as if made from another.
* A library without a project has no targets: `register_target` would not link.
  Its targets are listed in one textual order.
* Names are not empty: `resolve_path` throws over an empty one.
* `n_handled_targets`, `to_notify` and the like are unbounded naturals; the code
  uses `int` for fewer targets than it can hold.
* DepResolution: a project is processed once (the duty `processed_targets.hxx`
  gives the loader, kept by `assignment.cxx`, as LoadVerdict shows). LinksMirrorDeps and
  LoadOrderIrrelevant are stated for unambiguous names; ambiguous ones are in the
  run for the other properties.
* Comparators do not throw, and existence does not change while they compare.

## What is proved

`SchedulerProofs` proves, for any finite set of workers, any finite set of
requests and any priorities:

* `TypeCorrect`: `Spec => []TypeOK`;
* `NoRequestLostOrRepeated`: `Spec => []ExactlyOnce`;
* `CounterIsRight`: `Spec => []Accounting`;
* `SchedulerImplementsService`: `Spec => Service!Safety`, the refinement
  without fairness.

The inductive invariant `IInv` adds to the three what ties them together:
a busy worker holds a request (`HoldersOK`), and the client's place fixes its
counters and the flag (`ClientOK`). `TypeOK` alone is not inductive since the
counter is decremented: it stays a natural number because the result taken is
one of those `Accounting` counts. One lemma for each step that moves a request
(schedule, take, report, return) shows where the request goes and what that does to the three
cardinalities; `NothingMoves` covers every other step. The refinement then maps
schedule, take, recipe, return and shutdown to the steps of the same meaning and
everything else to stuttering. The proofs assume `WorkersAssumption`,
`RequestsAssumption` and `PriorityAssumption` only.

From `IInv`, under the same assumptions, follow the
remaining safety properties that ThreadPool checks:

* `NoMissedWakeupOfWorkers`: `Spec => []NoWorkerSleepsOnWork`. The argument is a
  count: a batch raises the queue by as much as the notifications it owes, a
  notification turns a sleeper into a worker on its way or finds none asleep, a
  take removes one request and one worker on its way, and a worker falls asleep
  only over an empty queue. `NotifyOK` (nothing is owed outside of the loop over
  `notify_one`) makes it inductive.
* `NoMissedWakeupOfClient`: `Spec => []ClientNotForgotten`.
* `NoSleeperIsJoined`: `Spec => []NobodySleepsAtJoin`; it needs of `IInv` that
  the flag is down wherever the destructor is (`ClientOK`), since that is what
  keeps a worker from falling asleep after the last `notify_all`.
* `EveryResultIsTrue`: `Spec => []ResultsAreTrue`, from `OutcomeOK`, which
  follows a request from the queue, where it cannot have failed yet, through the
  worker's fresh `res`, to the slot of the result.

`DepResolutionProofs` proves of DepResolution everything that its run checks,
for any finite sets of projects and targets and any description files, under
`ResolutionAssumption` (a target is registered once, and what it mentions is a
sequence):

* `TypeCorrect`: `ResolutionSpec => []ResolutionTypeOK`, where a name finds only a known target that
  bears it and dependencies are sequences of targets;
* `CounterIsRight`: `ResolutionSpec => []UnresolvedCounts`;
* `LinksMirror`: `ResolutionSpec => []LinksMirrorDeps`; its first half, `LinksComplete`,
  holds of ambiguous names too;
* `LoadingOrderIrrelevant`: `ResolutionSpec => []LoadOrderIrrelevant`;
* `SuccessIsComplete`: `ResolutionSpec => SuccessMeansComplete`, an action property.

The inductive invariant `RInv` adds that the description files stay as they were
given (`GivenOK`) and that only known targets are resolved. A project not loaded
yet adds as many targets as its list is long since none is registered twice
(`NewcomersCounted`); a target is linked to all of what it mentions when every
mention was found (`DeterminedIsRight`). `MInv` adds what names mean. A name is
found under the first target of that name of a project that was processed
(`NamesRight`), and where names are unambiguous that is what it means once
everything is loaded (`FoundIsMeant`): an earlier reading that some project could
still bring would have been brought. Two projects
of one name, `A`, both of which say what `A::x` is, make the order of loading
matter although no two targets share a name; `Unambiguous` excludes
them, and the run has such a world. LinksMirrorDeps is not inductive, since `dep_of` keeps the
links of attempts that failed: `LinksMeant` says that each of them leads to
something that the target means, so that the attempt that succeeds makes it
again.

`StatusFacts` is about the functions that the build decision rests on, for
lists of dependencies of any length. `WorstOutdates`: the status that
`get_worst_dep_status` returns outdates a file exactly if one of the statuses it
has merged does, in any order. `WorstStatusIsHighest`: it is the highest of
those merged (`HighestOf`, by the kinds in the order of the code and then by
time). `WorstDepStatus` is a recursive function; its rounds exist (`RoundsExist`)
and a property of every round is proved by its first counterexample
(`FirstPosition`), which replaces the induction theorems that the provers cannot
instantiate.

`TargetStatusProofs` draws from it the two properties of the run TargetStatus, for
every `MaxDeps` and any times: `MergingFindsWorst`, `Spec => []WorstIsHighest`, and
`DecisionIsOverNewest`, `Spec => []DecisionMeansNewest`. Times need only be integers.

`BuildTargetsProofs` and `BuildOutcomeProofs` prove every safety property that
the runs check of BuildTargets, for any finite set of targets, any graphs, files and
effects of recipes, any number of calls and workers, under the module's own
assumptions and three hypotheses on the constants:

* `LinksAgree`: both directions of a link agree for resolved targets. This is
  what `LinksMirror` proves of the resolution where names are unambiguous;
  DriverStaleLink shows what happens without it.
* `CarefulClient`: a client that calls again after a failure discards first, and
  does not call again after an internal error. `build_cxx_driver` calls once;
  BuildAfterError shows what happens otherwise.
* `NamedOnce`, of two theorems: no list of dependencies has a repetition.
  BuildDuplicates shows what happens otherwise.

TLC evaluates the hypotheses on the instances of the runs (`TheoremsApply` in
MCBuildTargets), so that the theorems speak of what the runs explore. The
specification they are about is `Safety`, `Spec` without fairness.

* `LoopTypeCorrect`, `DependenciesFirst`, `BuiltOnce`, `RequestsAreDistinct`,
  `CountersAreRight`: TypeOK, DepsBuiltFirst, OncePerTarget, OneRequestAtATime and
  CountersAgree, cycles and repetitions included. DepsBuiltFirst
  is not inductive: what hands a recipe over is that `already_built` equals
  `deps.size()`, so `IInv` has that the counter counts the built dependencies
  whose consumers were visited (`CountsOK`), that a graph's links agree, that a
  target waits, is under way or is built, once (`OneState`), in one place
  (`OnePlace`), and, for the calls after the first, what each way to end a call
  leaves behind (`CallsOK`): nothing at all, unless it failed. A list with
  repetitions is longer than the number of its elements, so that its counter
  stays short of its length, which blocks the target and hands nothing over too
  early.
* `BatchesAreTaken`: what the loop hands to the scheduler is new to it, and the
  scheduler open. BuildService asks this of its client and `schedule_builds` tests
  neither, so that without it a step of the code could be missing from the model.
  `FreshOK` follows the number of the attempt that each request carries.
* `OnlyWhatIsNeeded`, `NothingReadyIsKept`, `CallsEndRight`: NothingUnneeded,
  NothingReadyWaits, EndsRight. `OInv` says that what waits or is under way is
  below what was requested, that all of that is accounted for while the call
  runs, that the loop never waits for nothing, and that nothing on or above a
  cycle is ever built. When nothing is under way any more, the blocked targets
  each lack a blocked dependency, so they are such a set as `Cyclic` speaks of.
* `DecisionsAreRight` and `ErrorsAreExplained`: DecisionIsRight, an action
  property, and InternalErrorsExplained. `SInv` relates statuses to files: the final status of a
  built target, and the status that a request under way carries, outdate a file
  exactly if the target does or, where it hands on the status of others, one of
  the files seen through it. A recipe that ends changes one file only, which is
  of no built target and is seen by none.

`LInv` is what `IInv` keeps if the links do not agree: `LoopTypeCorrect`,
`BuiltOnce`, `RequestsAreDistinct` and `BatchesAreTaken` need no more, and nothing of `LinksAgree`.
The second and third invariants do not go through the actions one by one:
`EveryStep` sums them up as six kinds of step (`AnyStep`), for each of which
there is one lemma. CountersAgree is stated of
resolved targets, outside of an internal error: an exception ends a loop over
consumers half way, and the links of a target not resolved may be the leftovers
of a failed attempt.

`ComparatorsChainProofs` proves the four properties of its run for lists of names
of any length and any requests: `ChainTypeCorrect`, `AcceptsExactly`,
`OrderIsTotal`, `OrderIsDocumented`. The invariant says that the chain is the names
looked at so far, that `used_or_blocked` is exactly they and their opposites, and
why the loop stopped. The order is lexicographic; that it is transitive follows
from each comparator being a strict weak order (`WeakOrders`) and the fallback by
name leaving no ties (`NamesAreTotal`).

`DriverProofs` proves of the whole program, from the opening of the first library
to the exit of the last process, for any libraries and lists of them, any files,
any number of workers, processes and edits, with kills at any point and every
exception:

* `DriverTypeCorrect`: `DriverSafety => []DriverTypeOK`;
* `LoadingVerdict`: `DriverSafety => []LoadVerdict`;
* `CodeIsLoaded`: `DriverSafety => []CodeStaysLoaded`;
* `DriverBuildsInOrder`: `DriverSafety => []OrderedUnlessStale`, and
  `UnambiguousBuildInOrder`: over libraries whose names are unambiguous, every
  process satisfies DepsBuiltFirst;
* `DriverBuildsOnce`: `DriverSafety => []OncePerTarget`, stale links or not;
* `InternalErrorIsEmptyAlias`: `DriverSafety => []OnlyEmptyAliasIsInternal`.

They rest on the assumptions the modules state of their constants. `LinksAgree` and
`CarefulClient` are no hypotheses here: the first is what the resolution has
made, the second follows from `process()` calling `build_targets` once. `DriverSafety`
is `DriverSpec` without fairness.

The inductive invariant `DInv` has ten parts. `RInv` and `MInv` are those of the
resolution, kept because every action of Driver is one of DepResolution, a restart, which begins it anew, or
leaves its variables alone; `LoopPart` likewise has the invariants of the build loop, those that need
agreeing links under the condition that links agree (`GraphOK`). `StageOK` and
`OpenedOK` say what each stage of `process()` finds: nothing built before the
stage of building, no recipe running once workers were joined, the lists of
the libraries that are open. `LoadingOK` follows the loop over the handles: what
it has loaded are the first libraries of their projects among those it is through with, no
two of which clash in their versions, and `all_resolved` says whether
everything they mention means something loaded. That last part holds in the stage
`loading` only because a library that is skipped changes nothing, and it is where
the position of a library without a project could have mattered. `NamesOK`
says that names and links lead to targets that are found under their names; the
loop comes to no others (`BuiltAreFindable`), so that two targets of one name in no internal error. TLC finds no part of `DInv` violated
on the instances of DriverProcess, DriverRuns and DriverStaleLink.

The promises of the build loop hold inside of the program too:
`DriverVerdictIsRight`, EndsRight where no link is stale and no target ends up with
one dependency twice (DriverStaleLink and BuildDuplicates show what happens
otherwise); `DriverDecidesRight`, what DecisionIsRight says, of every process
without a stale link; and `DriverBatchesAreTaken`, with stale links or without.
`DriverSteps` is what they rest on: a step of the program makes a new loop, leaves
it alone, or is a step of the loop.

The two properties of several processes, for any number of them, any files, edits and
kills:

* `SuccessIsFresh`: `DriverSafety => []SuccessMeansFresh`;
* `BuildsNothingInVain`: `DriverSafety => []NothingBuiltInVain`.

Neither is inductive: what a process may conclude from modification times depends
on what the processes before it did. `HistoryInvariant` carries `HInv` across every
end of a process, every edit and every restart:

* `HistoryOK` reads the history off the modification times: what is `current` is
  there and no older than anything it sees or, if it was created, in no earlier tick of
  the kernel's clock (`NotBehind`); what is `outdated` sees something newer or
  gone. What a file sees is taken from all libraries together (`AllSeenFrom`), not
  from those that are open: `SeenAsMeant` shows that the two are the same for a
  target that the loop comes to, which is where unambiguous names are needed;
* `OldOK`: a file that this process has not yet decided about was made before the last
  tick of the kernel's clock, so that whatever is written from now on, created or
  overwritten, is strictly newer. This rests on a process starting in a later tick than
  the last write before it (`Restart`), and is why two
  writes at one time within a process do no harm: the second is of a file whose
  dependents were not decided yet;
* `AttemptsOK` (in BuildOutcomeProofs): a decision was made only over built
  dependencies, so that no recipe under way writes what an earlier decision looked at;
* `ClockOK`, no file is newer than the clock; `AllBuilt`, a success has built what
  was asked for; `SoundOK` and `VainOK`, the two properties for what is decided but
  not yet reported or run.

That a decision agrees with the history, `DecidesOverHistory`, is where `DecidesRight` and so
`SInv` come in. Of the clocks the proof uses `ClockAssumption` alone, so that both
theorems hold for one clock and for two; where a decision falls on a current file, the
exception of `ExcusedBy` is what `NotBehind` leaves open. TLC has checked all of `HInv`
on two processes of DriverRuns.

Only model-checked: liveness (CallReturns, GetReturns, DestructorReturns,
EveryRunEnds and the fairness part of the refinement: fairness and ENABLED are
out of the prover's reach). Every safety property of a passing run is stated by
a theorem.

## Not modelled

The debug helper formats text, the small headers hold records and macros.
Options, messages and `verbose` output are left out, and so is
`intermediate_targets`, which the code never uses. Of the libraries, what
`dlclose` does beside making code unusable, and an exception whose type is
defined in a library, are left out; of `fs_proxy`, calls that fail. In the
scheduler a comparator that throws inside of `push` or `pop` is left out, with the
heap itself: the model of a queue is the set of what is in it and an order.
A source edited while a process runs is left out, since modification times cannot
tell it from one edited before.

## Plan

1. Done: Scheduler, its refinement and its proofs; BuildTargets, DepResolution,
   ComparatorsChain, and their composition in Driver, with their runs.
2. Done: proofs of every safety property of BuildTargets, DepResolution and
   ComparatorsChain.
3. Done: proofs for Driver, of every safety property of its runs, over one process
   and over several.
4. A variant of Scheduler in which comparators throw inside of push and pop, to
   state what the client can still rely on.
