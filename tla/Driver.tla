------------------------------- MODULE Driver -------------------------------
(***************************************************************************)
(* The program build_cxx_driver, driver/src/assignment.cxx: one process    *)
(* after another over the same libraries and files.  A process opens the   *)
(* libraries it is given, whose static initialisers list their targets,    *)
(* processes their projects and resolves what they mention (module         *)
(* DepResolution), then either builds the targets it is asked for (module  *)
(* BuildTargets, over the links the resolution has made) or, asked for     *)
(* none, lists them.  It leaves process() by return or by an exception,    *)
(* and destroys its locals on the way out: the processed_targets, the      *)
(* scheduler, the handles of the libraries.  It may be killed at any point.*)
(*                                                                         *)
(* Libraries stay the same from one process to the next, files may be      *)
(* edited or removed between them.                                         *)
(***************************************************************************)
EXTENDS BuildTargets, DepResolution

CONSTANTS
  NoProject,    \* of a library without BUILD_CXX_PROJECT
  Worlds,       \* what the description files may say, see DriverAssumption
  Inputs,       \* lists of libraries a process may be given
  MaxRuns,      \* bound on the processes started
  MaxEdits,     \* bound on the edits between them
  MayBreak,     \* whether a library or a comparator may be refused
  MayBeKilled,  \* whether a process may be killed
  MayList       \* whether it may be asked for no target

(* A library, a file given with --input, has one project or none.          *)
Libraries == Projects

ASSUME DriverAssumption ==
  /\ Inputs \subseteq Seq(Libraries)
  /\ \A w \in Worlds :
       /\ w.kind \in [Targets -> TargetKinds]
       /\ \A l \in Libraries :
            /\ w.content[l].targets \in Seq(Targets)
            /\ w.content[l].project = NoProject => w.content[l].targets = <<>>
            /\ \A i \in DOMAIN w.content[l].targets :
                 w.traits[w.content[l].targets[i]].project = w.content[l].project
       /\ \A l, m \in Libraries :   \* a target is registered once
            \A i \in DOMAIN w.content[l].targets, j \in DOMAIN w.content[m].targets :
              w.content[l].targets[i] = w.content[m].targets[j] => l = m /\ i = j
       /\ \A t \in Targets :
            w.traits[t].raw_deps \in Seq(ElementsOf(w.traits[t].raw_deps))
  /\ MaxRuns \in Nat \ {0} /\ MaxEdits \in Nat
  /\ {MayBreak, MayBeKilled, MayList} \subseteq BOOLEAN
  /\ MaxCalls = 1   \* process() calls build_targets once

VARIABLES
  library,      \* of each library: its targets, project and version
  stage,        \* where process() is
  input_files,
  dl_handles,   \* how many of the input files are open
  next_dlh,     \* the one the loop over the handles has come to
  processed_projects,           \* pairs of a project and its version
  pt_alive,     \* the processed_targets, whose lists of dependencies the
                \* requests in the scheduler point to
  to_list,      \* targets left to list
  thrown,       \* the exception process() ends by, if any
  exit_status,
  runs, edits,
  content,      \* history: what can be said of the file of a target,
  made_from,    \* whose files it was made from,
  created       \* and the targets without a file when it was written

installed == <<library, traits>>
loaded  == <<list, processed, targets_by_resolved_name, unresolved, all_resolved>>
opening == <<input_files, dl_handles>>
loop    == <<next_dlh, processed_projects>>
leaving == <<stage, thrown>>
history == <<content, made_from, created>>
around  == <<exit_status, runs, edits>>
driver  == <<installed, loaded, opening, loop, leaving, pt_alive, to_list, around>>
allvars == <<vars, driver, history>>

Stages ==
  {"opening", "loading", "resolving", "building", "listing",
   "unwinding", "joining", "closing", "main", "exited"}

Exceptions ==
  {"none", "dlopen", "comparator", "version", "unresolved", "unknown",
   "build", "recipe"}

ExitStatuses == {"none", "success", "failure", "killed"}

Contents ==
  {"other",     \* not written by a recipe that was called to build it
   "current",   \* so written, of what the files it needs still contain
   "outdated"}  \* so written, and one of these files was written since

DriverTypeOK ==
  /\ TypeOK
  /\ ResolutionTypeOK
  /\ stage \in Stages
  /\ input_files \in Seq(Libraries)
  /\ dl_handles \in 0..Len(input_files)
  /\ next_dlh \in 1..(Len(input_files) + 1)
  /\ pt_alive \in BOOLEAN
  /\ to_list \subseteq Targets
  /\ thrown \in Exceptions
  /\ exit_status \in ExitStatuses
  /\ runs \in 0..MaxRuns
  /\ edits \in 0..MaxEdits
  /\ content \in [Targets -> Contents]
  /\ made_from \in [Targets -> SUBSET Targets]
  /\ created \subseteq Targets

DriverInit ==
  /\ \E w \in Worlds :
       kind = w.kind /\ traits = w.traits /\ library = w.content
  /\ list = [l \in Libraries |-> <<>>]
  /\ NothingLoaded
  /\ shadowed = {}
  /\ FilesInit
  /\ LoopInit
  /\ stage = "opening"
  /\ input_files \in Inputs
  /\ dl_handles = 0
  /\ next_dlh = 1
  /\ processed_projects = {}
  /\ pt_alive = FALSE
  /\ to_list = {}
  /\ thrown = "none"
  /\ exit_status = "none"
  /\ runs = 1
  /\ edits = 0
  /\ content = [t \in Targets |-> "other"]
  /\ made_from = [t \in Targets |-> {}]
  /\ created = {}

Open == {input_files[i] : i \in 1..dl_handles}

-----------------------------------------------------------------------------
(* process(), up to the targets.                                           *)

Throw(what, where) ==
  /\ thrown' = what
  /\ stage' = where

(* The static initialisers of a library call add_target for each of its    *)
(* targets, when it is opened for the first time.                          *)
Registered(l) == [list EXCEPT ![l] = library[l].targets]

OpenLibrary ==
  /\ stage = "opening"
  /\ dl_handles < Len(input_files)
  /\ dl_handles' = dl_handles + 1
  /\ list' = Registered(input_files[dl_handles'])
  /\ UNCHANGED <<vars, installed, processed, targets_by_resolved_name, unresolved,
                 all_resolved, input_files, loop, leaving, pt_alive, to_list,
                 around, history>>

(* The chain of comparators, the scheduler, the processed_targets.         *)
Construct ==
  /\ stage = "opening"
  /\ dl_handles = Len(input_files)
  /\ pt_alive' = TRUE
  /\ stage' = "loading"
  /\ UNCHANGED <<vars, installed, loaded, opening, loop, thrown, to_list, around, history>>

Refuse ==
  /\ MayBreak
  /\ stage = "opening"
  /\ Throw(IF dl_handles < Len(input_files) THEN "dlopen" ELSE "comparator", "closing")
  /\ UNCHANGED <<vars, installed, loaded, opening, loop, pt_alive, to_list, around, history>>

Loading == stage = "loading" /\ next_dlh <= Len(input_files)

Current == input_files[next_dlh]

HasProject == library[Current].project # NoProject

SameLibraryLoaded == Current \in processed
AlreadyLoaded == \E x \in processed_projects : x[1] = library[Current].project

ThisVersion == <<library[Current].project, library[Current].version>>

SkipLibrary ==
  /\ Loading
  /\ HasProject => AlreadyLoaded /\ ThisVersion \in processed_projects
  /\ next_dlh' = next_dlh + 1
  /\ UNCHANGED <<vars, installed, loaded, opening, processed_projects, leaving,
                 pt_alive, to_list, around, history>>

ThrowVersion ==
  /\ Loading
  /\ HasProject /\ AlreadyLoaded /\ ThisVersion \notin processed_projects
  /\ Throw("version", "unwinding")
  /\ UNCHANGED <<vars, installed, loaded, opening, loop, pt_alive, to_list, around, history>>

ProcessLibrary ==
  /\ Loading
  /\ HasProject /\ ~AlreadyLoaded
  /\ processed_projects' = processed_projects \cup {ThisVersion}
  /\ ProcessProject(Current)
  /\ shadowed' = {t \in Targets : /\ \E p \in processed' : t \in ElementsOf(list[p])
                                  /\ targets_by_resolved_name'[ResolvedName(t)] # t}
  /\ stage' = "resolving"
  /\ UNCHANGED <<kind, files, status, already_built, built_targets, queues, locals,
                 call, attempts, sched, library, opening, next_dlh, thrown,
                 pt_alive, to_list, around, history>>

ResolveAll ==
  /\ stage = "resolving"
  /\ ResolveDepsForAll
  /\ stage' = "loading"
  /\ next_dlh' = next_dlh + 1
  /\ UNCHANGED <<kind, shadowed, files, status, already_built, built_targets,
                 queues, locals, call, attempts, sched, library, opening,
                 processed_projects, thrown, pt_alive, to_list, around, history>>

EndLoading ==
  /\ stage = "loading"
  /\ next_dlh > Len(input_files)
  /\ \/ ~all_resolved /\ Throw("unresolved", "unwinding") /\ UNCHANGED to_list
     \/ all_resolved /\ stage' = "building" /\ UNCHANGED <<to_list, thrown>>
     \/ /\ all_resolved /\ MayList
        /\ stage' = "listing" /\ to_list' = Known /\ UNCHANGED thrown
  /\ UNCHANGED <<vars, installed, loaded, opening, loop, pt_alive, around, history>>

-----------------------------------------------------------------------------
(* The files written, as the history has them.                             *)

Written(S, how) ==
  /\ content' = [t \in Targets |->
                   IF t \in S THEN how
                   ELSE IF content[t] = "current" /\ made_from[t] \cap S # {}
                   THEN "outdated" ELSE content[t]]
  /\ made_from' = [t \in Targets |->
                     IF t \notin S THEN made_from[t]
                     ELSE IF how = "other" THEN {} ELSE SeenFrom(t)]
  /\ created' = (created \ S) \cup {t \in S : mtime[t] = 0}

(* A recipe that leaves its file alone takes the blame for what is in it.  *)
Effect(t, effect, built) ==
  CASE effect = "touches" -> Written({t}, built)
    [] effect = "spoils" -> Written({t}, "other")
    [] effect = "throws" -> UNCHANGED history
    [] effect = "nothing" -> /\ content' = [content EXCEPT ![t] = "other"]
                             /\ made_from' = [made_from EXCEPT ![t] = {}]
                           /\ UNCHANGED created

-----------------------------------------------------------------------------
(* The targets built or listed.                                            *)

(* build_targets after its names were looked up.                           *)
RequestBuild(R) ==
  /\ stage = "building"
  /\ R # {}
  /\ R \subseteq ElementsOf(targets_by_resolved_name)
  /\ BuildTargets(R)
  /\ UNCHANGED <<driver, history>>

RequestUnknown ==
  /\ MayBreak
  /\ stage = "building"
  /\ calls = 0
  /\ Throw("unknown", "unwinding")
  /\ UNCHANGED <<vars, installed, loaded, opening, loop, pt_alive, to_list, around, history>>

BuildStep ==
  /\ stage = "building"
  /\ MainStep
  /\ UNCHANGED <<driver, history>>

BuildEnds ==
  /\ stage = "building"
  /\ phase = "client" /\ calls = 1
  /\ Throw(IF outcome = "ok" THEN "none" ELSE "build", "unwinding")
  /\ UNCHANGED <<vars, installed, loaded, opening, loop, pt_alive, to_list, around, history>>

(* Projects are listed in the order of an unordered map, the targets of    *)
(* each in the order of its list.                                          *)
NextListed(t) ==
  \E p \in processed : \E i \in DOMAIN list[p] :
    /\ t = list[p][i] /\ t \in to_list
    /\ \A j \in 1..(i - 1) : list[p][j] \notin to_list
    /\ \A q \in processed \ {p} :
         ElementsOf(list[q]) \subseteq to_list \/ ElementsOf(list[q]) \cap to_list = {}

(* The listing calls every recipe itself; what is thrown is not caught.    *)
ListTarget(t) ==
  /\ stage = "listing"
  /\ NextListed(t)
  /\ \E effect \in EffectsOn(t) :
       /\ IF effect \in {"throws", "spoils"}
          THEN Throw("recipe", "unwinding") /\ to_list' = {}
          ELSE to_list' = to_list \ {t} /\ UNCHANGED leaving
       /\ IF effect \in {"touches", "spoils"}
          THEN \E time \in WriteTimes : Write(t, time)
          ELSE UNCHANGED files
       /\ Effect(t, effect, "other")
  /\ UNCHANGED <<graph, status, already_built, built_targets, queues, locals,
                 call, attempts, sched, installed, loaded, opening, loop, pt_alive, around>>

ListingEnds ==
  /\ stage = "listing"
  /\ to_list = {}
  /\ stage' = "unwinding"
  /\ UNCHANGED <<vars, installed, loaded, opening, loop, thrown, pt_alive, to_list,
                 around, history>>

-----------------------------------------------------------------------------
(* The destructors, in the reverse order of the declarations.              *)

DestroyTargets ==
  /\ stage = "unwinding"
  /\ pt_alive
  /\ pt_alive' = FALSE
  /\ UNCHANGED <<vars, installed, loaded, opening, loop, leaving, to_list, around, history>>

StopWorkers ==
  /\ stage = "unwinding"
  /\ ~pt_alive
  /\ Sched!Close
  /\ stage' = "joining"
  /\ UNCHANGED <<graph, files, status, already_built, built_targets, queues,
                 locals, call, attempts, installed, loaded, opening, loop, thrown,
                 pt_alive, to_list, around, history>>

AllHandled   == queued \cup running = {}
NobodyJoined == TRUE
AllJoined    == running = {}

Joined ==
  /\ stage = "joining"
  /\ AllJoined
  /\ stage' = "closing"
  /\ UNCHANGED <<vars, installed, loaded, opening, loop, thrown, pt_alive, to_list,
                 around, history>>

CloseLibraries ==
  /\ stage = "closing"
  /\ dl_handles' = 0
  /\ stage' = "main"
  /\ UNCHANGED <<vars, installed, loaded, input_files, loop, thrown, pt_alive,
                 to_list, around, history>>

Exit ==
  /\ stage = "main"
  /\ stage' = "exited"
  /\ exit_status' = IF thrown = "none" THEN "success" ELSE "failure"
  /\ UNCHANGED <<vars, installed, loaded, opening, loop, thrown, pt_alive, to_list,
                 runs, edits, history>>

-----------------------------------------------------------------------------
(* The worker threads.                                                     *)

WorkersLive == stage \in {"building", "unwinding", "joining"}

DriverStartRecipe(r) ==
  /\ WorkersLive
  /\ StartRecipe(r)
  /\ UNCHANGED <<driver, history>>

DriverRecipe(r) ==
  /\ WorkersLive
  /\ \E effect \in Effects :
       FinishRecipe(r, effect) /\ Effect(r.tgt, effect, "current")
  /\ UNCHANGED driver

-----------------------------------------------------------------------------
(* Around the process.                                                     *)

(* Whatever was in memory is gone; a recipe that was running may have      *)
(* written a part of its file.                                             *)
Kill ==
  /\ MayBeKilled
  /\ stage # "exited"
  /\ stage' = "exited"
  /\ exit_status' = "killed"
  /\ \E S \in SUBSET {r.tgt : r \in {q \in running : "spoils" \in EffectsOn(q.tgt)}} :
     \E time \in WriteTimes :
       /\ mtime' = [t \in Targets |-> IF t \in S THEN Stamp(t, time) ELSE mtime[t]]
       /\ now' = IF S = {} THEN now ELSE time
       /\ Written(S, "other")
  /\ UNCHANGED <<graph, status, already_built, built_targets, queues, locals,
                 call, attempts, sched, installed, loaded, opening, loop, thrown,
                 pt_alive, to_list, runs, edits>>

(* The next time that the clocks, the kernel's too, show to be later than  *)
(* everything written so far, if there is one.                             *)
NextTick ==
  {n \in 1..MaxTime : KernelTime[n] > now /\ \A m \in 1..(n - 1) : KernelTime[m] <= now}

(* A file is edited, or removed, which is the time 0.                      *)
Edit(t, time) ==
  /\ stage = "exited"
  /\ edits < MaxEdits
  /\ HasFile(t)
  /\ edits' = edits + 1
  /\ mtime' = [mtime EXCEPT ![t] = time]
  /\ now' = IF time > now THEN time ELSE now
  /\ Written({t}, "other")
  /\ UNCHANGED <<graph, status, already_built, built_targets, queues, locals,
                 call, attempts, sched, installed, loaded, opening, loop, leaving,
                 pt_alive, to_list, exit_status, runs>>

(* A new process, at a later time: only the files and the libraries are as *)
(* they were.                                                              *)
Restart ==
  /\ stage = "exited"
  /\ runs < MaxRuns
  /\ now' \in NextTick
  /\ runs' = runs + 1
  /\ stage' = "opening" /\ thrown' = "none" /\ exit_status' = "none"
  /\ input_files' \in Inputs /\ dl_handles' = 0
  /\ next_dlh' = 1 /\ processed_projects' = {}
  /\ pt_alive' = FALSE /\ to_list' = {}
  /\ list' = [l \in Libraries |-> <<>>]
  /\ processed' = {} /\ targets_by_resolved_name' = <<>>
  /\ resolved' = {} /\ shadowed' = {}
  /\ deps' = [t \in Targets |-> <<>>] /\ dep_of' = [t \in Targets |-> {}]
  /\ unresolved' = 0 /\ all_resolved' = FALSE
  /\ status' = [t \in Targets |-> Uninitialized]
  /\ already_built' = [t \in Targets |-> 0]
  /\ attempts' = [t \in Targets |-> 0]
  /\ built_targets' = {} /\ pending_build_requests' = {} /\ up_to_date_targets' = <<>>
  /\ phase' = "client" /\ requested' = {} /\ outcome' = "none" /\ calls' = 0
  /\ buildable_targets' = {} /\ blocked_targets' = {}
  /\ built_tgt' = NoTarget /\ consumers' = {}
  /\ queued' = {} /\ running' = {} /\ finished' = {} /\ returned' = {}
  /\ failed' = {} /\ open' = TRUE
  /\ UNCHANGED <<kind, mtime, installed, edits, history>>

-----------------------------------------------------------------------------
ProcessStep ==
  \/ OpenLibrary \/ Construct \/ Refuse
  \/ SkipLibrary \/ ThrowVersion \/ ProcessLibrary \/ ResolveAll \/ EndLoading
  \/ \E R \in SUBSET Targets : RequestBuild(R)
  \/ RequestUnknown \/ BuildStep \/ BuildEnds
  \/ \E t \in Targets : ListTarget(t)
  \/ ListingEnds
  \/ DestroyTargets \/ StopWorkers \/ Joined \/ CloseLibraries \/ Exit

DriverNext ==
  \/ ProcessStep
  \/ \E r \in queued : DriverStartRecipe(r)
  \/ \E r \in running : DriverRecipe(r)
  \/ Kill
  \/ \E t \in Targets : \E time \in {0} \cup NextTick : Edit(t, time)
  \/ Restart

DriverSafety == DriverInit /\ [][DriverNext]_allvars

(* The main thread goes on; workers start what is queued as long as they   *)
(* are not told to stop, and every recipe ends.                            *)
DriverSpec ==
  /\ DriverSafety
  /\ WF_allvars(ProcessStep)
  /\ WF_allvars(\E r \in queued : DriverStartRecipe(r))
  /\ WF_allvars(\E r \in running : DriverRecipe(r))

-----------------------------------------------------------------------------
(* Reference notions over the libraries alone.                             *)

WithProject == {l \in ElementsOf(input_files) : library[l].project # NoProject}

VersionsClash ==
  \E l, m \in WithProject :
    library[l].project = library[m].project /\ library[l].version # library[m].version

(* The first library of each project.                                      *)
ToLoad ==
  {l \in WithProject :
     \E i \in DOMAIN input_files :
       /\ input_files[i] = l
       /\ \A j \in 1..(i - 1) : library[input_files[j]].project # library[l].project}

(* Everything mentioned in what is loaded means something loaded.          *)
AllMeant ==
  /\ ToLoad # {}
  /\ \A l \in ToLoad : \A t \in ElementsOf(library[l].targets) :
       \A raw \in ElementsOf(traits[t].raw_deps) : Meant(ToLoad, t, raw) # {}

(* What all libraries say together, whichever of them are open.            *)
Installed == INSTANCE DepResolution WITH list <- [l \in Libraries |-> library[l].targets]

-----------------------------------------------------------------------------
(* Properties.                                                             *)

(* The loop over the libraries loads each project once, and ends with the  *)
(* verdict the libraries deserve, wherever a library without a project, or *)
(* one whose project is loaded already, stands among them.                 *)
LoadVerdict ==
  /\ stage \in {"building", "listing"} =>
       ~VersionsClash /\ AllMeant /\ processed = ToLoad
  /\ thrown = "version" => VersionsClash
  /\ thrown = "unresolved" => ~VersionsClash /\ ~AllMeant

(* The code of a library, its recipes and target objects, is used only     *)
(* while the library is open, also by the workers during an unwinding.     *)
CodeStaysLoaded ==
  LET code == UNION {ElementsOf(library[l].targets) : l \in Open}
  IN  stage # "exited" =>
        /\ \A r \in running : r.tgt \in code
        /\ pt_alive => Known \subseteq code

(* A process builds in order, whatever libraries it is given, as long as   *)
(* no attempt to resolve has left a link that a later one did not confirm. *)
OrderedUnlessStale == NoStaleLink => DepsBuiltFirst

(* The program asks for targets by the names they are found under, and so  *)
(* never comes to one that shares its name with another: without such a    *)
(* link the only internal error it can meet is that over an alias of       *)
(* nothing.                                                                *)
OnlyEmptyAliasIsInternal ==
  NoStaleLink /\ outcome = "error" =>
    \E t \in Below(requested) : kind[t] = "alias" /\ deps[t] = <<>>

(* A process that reports success has left every file it was asked for in  *)
(* place, and made from what the files it needs contain, whatever earlier  *)
(* processes did before they failed or were killed, and whatever was       *)
(* edited since.  Excepted are files that were last written by anything    *)
(* but a recipe called to build them.  Each process may be given other     *)
(* libraries, of which taken together every mention means one target.      *)
SuccessMeansFresh ==
  stage \in {"unwinding", "joining"} /\ outcome = "ok" /\ Installed!Unambiguous =>
    \A t \in Below(requested) :
      kind[t] = "file" => mtime[t] # 0 /\ content[t] # "outdated"

(* What may make the program build t again though its file is what its     *)
(* recipe makes of the files t needs: d has no file to compare with, or    *)
(* the two clocks have put t, which was created, before d, which was       *)
(* overwritten earlier in the same tick of the kernel's clock.             *)
ExcusedBy(t, d) ==
  \/ kind[d] = "phony" \/ mtime[d] = 0
  \/ t \in created /\ mtime[t] < mtime[d] /\ mtime[t] = KernelTime[mtime[d]]

(* README.md:29 says of the second of three equal runs that there is "no   *)
(* need to update (most probably, but there are some timestamp mismatches  *)
(* so it gets rebuild even when not necessary ...)", and of the third that *)
(* it "should definitely have everything properly up-to date now".  It is  *)
(* so: a file that is what its recipe makes of the files it needs is built *)
(* again by a later process only if something it needs has no file, or it  *)
(* was created, and in the very tick of the kernel's clock in which        *)
(* something it needs was overwritten.  Built again it is overwritten, so  *)
(* that it rests from then on.  With one clock (KernelTime[n] = n) nothing *)
(* falls into the second case.                                             *)
NothingBuiltInVain ==
  \A r \in pending_build_requests \cup queued \cup running :
    kind[r.tgt] = "file" /\ content[r.tgt] = "current" /\ Installed!Unambiguous =>
      \E d \in SeenFrom(r.tgt) : ExcusedBy(r.tgt, d)

(* Every process ends, also if a recipe fails while others are queued or   *)
(* running.                                                                *)
EveryRunEnds == stage # "exited" ~> stage = "exited"

(* While a recipe runs, the list of resolved dependencies it was given     *)
(* exists: "all `resolved_deps` are ... resolved".                         *)
RecipesSeeTheirDeps == running # {} => pt_alive
=============================================================================
