----------------------------- MODULE TargetGraph -----------------------------
(***************************************************************************)
(* Targets, and what driver/src/processed_targets.cxx keeps of each of     *)
(* them, its target_resolved_deps, but for the counter: module             *)
(* DepResolution makes the links, module BuildTargets follows them.        *)
(***************************************************************************)
EXTENDS Integers, Sequences, FiniteSets

CONSTANTS
  Targets,
  NoTarget      \* a null pointer to one

ASSUME TargetsAssumption == IsFiniteSet(Targets) /\ NoTarget \notin Targets

TargetKinds == {"file", "read_only", "phony", "alias"}

VARIABLES
  kind,
  resolved,     \* targets all of whose dependencies were found
  deps,         \* what each needs, in the order and with the repetitions
                \* its author wrote
  dep_of        \* the links back
=============================================================================
