---------------------------- MODULE TargetStatus ----------------------------
(***************************************************************************)
(* common/src/target_status.cxx and get_worst_dep_status of                *)
(* common/src/abstract_target.cxx: the value by which a target is found up *)
(* to date or not, how values are merged, and how two are compared.        *)
(*                                                                         *)
(* The code throws where a value is not initialized; each operator that    *)
(* can throw has a predicate beside it that says when.                     *)
(***************************************************************************)
EXTENDS Integers, Sequences

CONSTANT Times   \* modification times of files

StatusKinds ==
  {"uninitialized", "transitively_needs_update", "file_mod_time",
   "explicitly_needs_update"}

Status == [kind : StatusKinds, mod_time : Times \cup {0}]

Uninitialized           == [kind |-> "uninitialized", mod_time |-> 0]
TransitivelyNeedsUpdate == [kind |-> "transitively_needs_update", mod_time |-> 0]
ExplicitlyNeedsUpdate   == [kind |-> "explicitly_needs_update", mod_time |-> 0]
FileModTime(time)       == [kind |-> "file_mod_time", mod_time |-> time]

Initialized(s) == s.kind # "uninitialized"

LastGiven(x, y) == y
Later(x, y) == IF x < y THEN y ELSE x

(* lhs.merge_with(rhs); throws unless Initialized(rhs).                    *)
Merge(lhs, rhs) ==
  CASE rhs.kind = "explicitly_needs_update" ->
         [lhs EXCEPT !.kind = "explicitly_needs_update"]
    [] rhs.kind = "file_mod_time" /\ lhs.kind = "file_mod_time" ->
         [lhs EXCEPT !.mod_time = Later(lhs.mod_time, rhs.mod_time)]
    [] rhs.kind = "file_mod_time"
         /\ lhs.kind \in {"uninitialized", "transitively_needs_update"} -> rhs
    [] rhs.kind = "transitively_needs_update" /\ ~Initialized(lhs) ->
         [lhs EXCEPT !.kind = "transitively_needs_update"]
    [] OTHER -> lhs

CertainlyNeedsUpdate(s) == s.kind = "explicitly_needs_update"

(* s.needs_update_compared_to(other) and when it throws.                   *)
ComparisonThrows(s, other) ==
  \/ ~Initialized(s)
  \/ ~Initialized(other)
  \/ other.kind = "transitively_needs_update"

NeedsUpdateIfNotNewer(s, other) ==
  \/ s.kind # "file_mod_time"
  \/ other.kind = "explicitly_needs_update"
  \/ s.mod_time <= other.mod_time
NeedsUpdateComparedTo(s, other) ==
  \/ s.kind # "file_mod_time"
  \/ other.kind = "explicitly_needs_update"
  \/ s.mod_time < other.mod_time

(* get_worst_dep_status of a target with status own and dependencies whose *)
(* statuses are the sequence sts: the loop stops at the first value that   *)
(* certainly needs an update, so that it does not look at, and does not    *)
(* throw because of, the dependencies after it.                            *)
WorstDepStatus(own, sts) ==
  LET worst[i \in 0..Len(sts)] ==
        IF i = 0 THEN own
        ELSE IF CertainlyNeedsUpdate(worst[i - 1]) THEN worst[i - 1]
        ELSE Merge(worst[i - 1], sts[i])
  IN  worst[Len(sts)]

WorstDepStatusThrows(own, sts) ==
  \/ ~Initialized(own)
  \/ \E i \in DOMAIN sts :
       /\ ~Initialized(sts[i])
       /\ ~CertainlyNeedsUpdate(own)
       /\ \A j \in 1..(i - 1) : ~CertainlyNeedsUpdate(sts[j])
=============================================================================
