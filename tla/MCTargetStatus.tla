--------------------------- MODULE MCTargetStatus ---------------------------
(***************************************************************************)
(* Every list of up to MaxDeps dependency statuses, built one at a time,   *)
(* under every status of the target itself; what WorstDepStatus and        *)
(* NeedsUpdateComparedTo compute is compared with what they are for.       *)
(***************************************************************************)
EXTENDS TargetStatus, FiniteSets

CONSTANT MaxDeps

VARIABLES own, deps

vars == <<own, deps>>

(* The values the program can hold: only a file has a time that matters.   *)
Values == {Uninitialized, TransitivelyNeedsUpdate, ExplicitlyNeedsUpdate}
            \cup {FileModTime(time) : time \in Times}

Init == own \in Values \ {Uninitialized} /\ deps = <<>>

Next ==
  \/ /\ Len(deps) < MaxDeps
     /\ \E s \in Values : deps' = Append(deps, s)
     /\ UNCHANGED own
  \/ /\ Len(deps) = MaxDeps
     /\ UNCHANGED vars

Spec == Init /\ [][Next]_vars

-----------------------------------------------------------------------------
Level(s) ==   \* the order in which target_status.hxx lists the kinds
  CASE s.kind = "uninitialized" -> 0
    [] s.kind = "transitively_needs_update" -> 1
    [] s.kind = "file_mod_time" -> 2
    [] s.kind = "explicitly_needs_update" -> 3

AllOf == {own} \cup {deps[i] : i \in DOMAIN deps}

FileTimes == {s.mod_time : s \in {x \in AllOf : x.kind = "file_mod_time"}}

(* The result of get_worst_dep_status does not depend on the order of the  *)
(* dependencies: its kind is the highest present, and between files it is  *)
(* the newest.  It throws only over a value nobody has initialized.        *)
WorstIsHighest ==
  IF WorstDepStatusThrows(own, deps)
  THEN Uninitialized \in AllOf
  ELSE LET worst == WorstDepStatus(own, deps)
       IN  /\ \A s \in AllOf : Level(s) <= Level(worst)
           /\ \E s \in AllOf : s.kind = worst.kind
           /\ worst.kind = "file_mod_time" =>
                /\ worst.mod_time \in FileTimes
                /\ \A time \in FileTimes : time <= worst.mod_time

(* Where the whole decision of process_target_build does not throw, a      *)
(* target is left alone exactly when it is a file and nothing it depends   *)
(* on needs an update or is newer.  It can throw over initialized values   *)
(* only when all of them are placeholders.                                 *)
DecisionMeansNewest ==
  Uninitialized \notin AllOf =>
    LET worst == WorstDepStatus(own, deps)
    IN  IF ComparisonThrows(own, worst)
        THEN AllOf = {TransitivelyNeedsUpdate}
        ELSE NeedsUpdateComparedTo(own, worst) <=>
               \/ own.kind # "file_mod_time"
               \/ ExplicitlyNeedsUpdate \in AllOf
               \/ \E time \in FileTimes : time > own.mod_time
=============================================================================
