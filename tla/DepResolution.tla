--------------------------- MODULE DepResolution ---------------------------
(***************************************************************************)
(* Loading of projects and resolution of dependencies, the first half of   *)
(* driver/src/processed_targets.cxx: names written by the user become the  *)
(* links between targets that module BuildTargets starts from.             *)
(*                                                                         *)
(* A name is a sequence of parts, of which "/" in front of an absolute      *)
(* path and "::" after the name of a project stand for themselves; equal   *)
(* sequences are equal strings.  A path is joined to a directory as it is, *)
(* nothing is normalised.                                                  *)
(*                                                                         *)
(* The static initialisers of the library of a project have made its       *)
(* targets and filled its list.                                            *)
(***************************************************************************)
EXTENDS TargetGraph

CONSTANTS
  Projects,
  Descriptions  \* records [kind, traits, list] the description files may give

ElementsOf(s) == {s[i] : i \in DOMAIN s}

ASSUME ResolutionAssumption ==
  /\ IsFiniteSet(Projects)
  /\ \A w \in Descriptions :
       /\ w.list \in [Projects -> Seq(Targets)]
       /\ \A t \in Targets :
            w.traits[t].raw_deps \in Seq(ElementsOf(w.traits[t].raw_deps))
       /\ \A p, q \in Projects :   \* a target is registered once
            \A i \in DOMAIN w.list[p], j \in DOMAIN w.list[q] :
              w.list[p][i] = w.list[q][j] => p = q /\ i = j

VARIABLES
  traits,                     \* of each target: the name given to it, the
                              \* folder of its description, the name of its
                              \* project, and the raw_deps it mentions
  list,                       \* the targets of each project, first to last
  processed,                  \* projects given to process_project
  targets_by_resolved_name,
  unresolved,                 \* how many known targets are not resolved
  all_resolved                \* what resolve_deps_for_all returned last

given == <<kind, traits, list>>
resolutionVars == <<given, processed, targets_by_resolved_name,
                    resolved, deps, dep_of, unresolved, all_resolved>>

Known == UNION {ElementsOf(list[p]) : p \in processed}

(* file_target::resolve_path and phony_target::resolve_name.               *)
ResolvePath(folder, name) == IF Head(name) = "/" THEN name ELSE folder \o name
InProject(project, name)  == <<project, "::">> \o name

ResolvedName(t) ==   \* resolve_own_traits
  IF kind[t] \in {"file", "read_only"}
  THEN ResolvePath(traits[t].folder, traits[t].name)
  ELSE InProject(traits[t].project, traits[t].name)

(* The names a raw dependency of t may stand for, in the order tried: the  *)
(* name itself, a phony target or an alias of the same project, a file     *)
(* beside the description.                                                 *)
Readings(t, raw) ==
  <<raw, InProject(traits[t].project, raw), ResolvePath(traits[t].folder, raw)>>

ResolutionTypeOK ==
  /\ list \in [Projects -> Seq(Targets)]
  /\ processed \subseteq Projects
  /\ \A n \in DOMAIN targets_by_resolved_name :
       targets_by_resolved_name[n] \in {t \in Known : ResolvedName(t) = n}
  /\ resolved \subseteq Targets
  /\ deps \in [Targets -> Seq(Targets)]
  /\ dep_of \in [Targets -> SUBSET Targets]
  /\ unresolved \in Nat
  /\ all_resolved \in BOOLEAN

NothingLoaded ==
  /\ processed = {}
  /\ targets_by_resolved_name = <<>>
  /\ resolved = {}
  /\ deps = [t \in Targets |-> <<>>]
  /\ dep_of = [t \in Targets |-> {}]
  /\ unresolved = 0
  /\ all_resolved = FALSE

ResolutionInit ==
  /\ \E w \in Descriptions : kind = w.kind /\ traits = w.traits /\ list = w.list
  /\ NothingLoaded

-----------------------------------------------------------------------------
(* emplace keeps the target that has the name already: of the targets that *)
(* share one, the first processed is the one found under it.               *)
Named == DOMAIN targets_by_resolved_name

FirstNamed(ts, n) ==
  ts[CHOOSE i \in DOMAIN ts : /\ ResolvedName(ts[i]) = n
                              /\ \A j \in 1..(i - 1) : ResolvedName(ts[j]) # n]

NamesOf(p) == {ResolvedName(t) : t \in ElementsOf(list[p])}

(* What name n finds after project p was added.                            *)
Assigned(p, n) == IF n \in NamesOf(p) THEN FirstNamed(list[p], n)
                                      ELSE targets_by_resolved_name[n]
Found(p, n)    == IF n \in Named THEN targets_by_resolved_name[n]
                                 ELSE FirstNamed(list[p], n)

CountedOnce(p)    == 1
UnresolvedFrom(p) == Len(list[p])

(* Nothing here keeps a project from being processed twice, which would    *)
(* count its targets twice; that is a duty of the caller.                  *)
ProcessProject(p) ==
  /\ processed' = processed \cup {p}
  /\ targets_by_resolved_name' = [n \in Named \cup NamesOf(p) |-> Found(p, n)]
  /\ unresolved' = unresolved + UnresolvedFrom(p)
  /\ UNCHANGED <<given, resolved, deps, dep_of, all_resolved>>

-----------------------------------------------------------------------------
(* try_to_determine_target: the first of the readings that some target has. *)
Hits(t, raw) == {i \in DOMAIN Readings(t, raw) : Readings(t, raw)[i] \in Named}

LastHit(t, raw) ==
  IF Hits(t, raw) = {} THEN NoTarget
  ELSE targets_by_resolved_name[
         Readings(t, raw)[CHOOSE i \in Hits(t, raw) : \A j \in Hits(t, raw) : i >= j]]
WithoutFiles(t, raw) ==
  IF Hits(t, raw) \ {3} = {} THEN NoTarget
  ELSE targets_by_resolved_name[
         Readings(t, raw)[CHOOSE i \in Hits(t, raw) : \A j \in Hits(t, raw) : i <= j]]
Determine(t, raw) ==
  IF Hits(t, raw) = {} THEN NoTarget
  ELSE targets_by_resolved_name[
         Readings(t, raw)[CHOOSE i \in Hits(t, raw) : \A j \in Hits(t, raw) : i <= j]]

Determined(t) ==
  [i \in DOMAIN traits[t].raw_deps |-> Determine(t, traits[t].raw_deps[i])]

LastIsFound(t) ==
  Determined(t) # <<>> => Determined(t)[Len(Determined(t))] # NoTarget
Resolvable(t) == NoTarget \notin ElementsOf(Determined(t))

(* The targets t is linked to before the first dependency not found ends   *)
(* the attempt; these links stay.                                          *)
LinkedBy(t) ==
  {Determined(t)[i] : i \in {k \in DOMAIN Determined(t) :
                               \A j \in 1..k : Determined(t)[j] # NoTarget}}

(* resolve_deps_for_impl of the targets S, in any order: what one does is  *)
(* not seen by the others.                                                 *)
Backwards(S) ==
  [t \in Targets |-> dep_of[t] \cup (IF t \in S THEN LinkedBy(t) ELSE {})]
Links(S) ==
  [d \in Targets |-> dep_of[d] \cup {t \in S : d \in LinkedBy(t)}]

Resolve(S) ==
  LET found == {t \in S : Resolvable(t)}
  IN  /\ resolved' = resolved \cup found
      /\ deps' = [t \in Targets |-> IF t \in found THEN Determined(t) ELSE deps[t]]
      /\ dep_of' = Links(S)
      /\ unresolved' = unresolved - Cardinality(found)
      /\ UNCHANGED <<given, processed, targets_by_resolved_name>>

(* Nothing changes if t is resolved already.                               *)
ResolveDepsFor(t) ==
  /\ t \in Known \ resolved
  /\ Resolve({t})
  /\ UNCHANGED all_resolved

ResolveDepsForAll ==
  /\ Resolve(IF unresolved = 0 THEN {} ELSE Known \ resolved)
  /\ all_resolved' = (unresolved' = 0)

ResolutionNext ==
  \/ \E p \in Projects \ processed : ProcessProject(p)
  \/ \E t \in Targets : ResolveDepsFor(t)
  \/ ResolveDepsForAll

ResolutionSpec == ResolutionInit /\ [][ResolutionNext]_resolutionVars

-----------------------------------------------------------------------------
(* Reference notions over the description files alone.                     *)

(* What a mention means once the projects P are loaded: the earliest of    *)
(* its readings that a target of P has, and of the targets of that name    *)
(* the one its project lists first.                                        *)
Bearers(P, n) ==
  {x \in UNION {{p} \X DOMAIN list[p] : p \in P} :
     ResolvedName(list[x[1]][x[2]]) = n}

Meant(P, t, raw) ==
  LET m == Readings(t, raw)
  IN  {list[x[1]][x[2]] :
         x \in {y \in UNION {Bearers(P, m[i]) : i \in DOMAIN m} :
                \E i \in DOMAIN m :
                  /\ y \in Bearers(P, m[i])
                  /\ \A j \in 1..(i - 1) : Bearers(P, m[j]) = {}
                  /\ \A z \in Bearers(P, m[i]) : y[2] <= z[2]}}

(* Nobody outside of a project uses the names it uses, nor a name that its *)
(* targets take for one of a phony target of their own project, as another *)
(* project of the same name would; and what a raw name means by itself is  *)
(* never also the name of a neighbour: with this the order of loading      *)
(* cannot matter.                                                          *)
Unambiguous ==
  /\ \A p, q \in Projects : p # q =>
       /\ NamesOf(p) \cap NamesOf(q) = {}
       /\ \A t \in ElementsOf(list[p]) : \A raw \in ElementsOf(traits[t].raw_deps) :
            InProject(traits[t].project, raw) \notin NamesOf(q)
  /\ \A t \in Targets : \A raw \in ElementsOf(traits[t].raw_deps) :
       LET used == {n \in ElementsOf(Readings(t, raw)) : Bearers(Projects, n) # {}}
       IN  raw \in used => used = {raw}

(* No resolved target is linked to what an attempt that failed took for    *)
(* its dependency, and the attempt that succeeded did not.                 *)
NoStaleLink ==
  \A t \in resolved, d \in Targets : t \in dep_of[d] => d \in ElementsOf(deps[t])

-----------------------------------------------------------------------------
(* Properties.                                                             *)

(* The counter that resolve_deps_for_all decides by is the number of       *)
(* targets left to resolve, however loading and attempts, failed ones      *)
(* among them, interleave.                                                 *)
UnresolvedCounts == unresolved = Cardinality(Known \ resolved)

(* What a resolved target needs knows of it, and will raise its counter.   *)
NoLinkMissing ==
  \A t \in resolved : \A d \in ElementsOf(deps[t]) : t \in dep_of[d]

(* The two directions of a link agree, though dep_of keeps the links of    *)
(* failed attempts and deps does not: the build loop looks for what is     *)
(* needed along deps and counts along dep_of.                              *)
LinksMirrorDeps ==
  /\ NoLinkMissing
  /\ Unambiguous => NoStaleLink

(* A target gets the dependencies its author meant, whatever part of the   *)
(* projects was loaded when it was resolved.                               *)
LoadOrderIrrelevant ==
  Unambiguous =>
    \A t \in resolved :
      /\ DOMAIN deps[t] = DOMAIN traits[t].raw_deps
      /\ \A i \in DOMAIN deps[t] :
           Meant(Projects, t, traits[t].raw_deps[i]) = {deps[t][i]}

(* resolve_deps_for_all reports success exactly when every mention of      *)
(* every loaded target means a loaded target.  The driver refuses to build *)
(* otherwise.                                                              *)
SuccessMeansComplete ==
  [][ResolveDepsForAll =>
       (all_resolved' <=>
          \A t \in Known : \A raw \in ElementsOf(traits[t].raw_deps) :
            Meant(processed, t, raw) # {})]_resolutionVars
=============================================================================
