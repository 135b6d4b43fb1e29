-------------------------- MODULE ComparatorsChain --------------------------
(***************************************************************************)
(* driver/src/build_request_comparators_chain.cxx: how the chain of        *)
(* comparators that orders the scheduler's queue is made from the names    *)
(* given on the command line, and how it compares two build requests.      *)
(*                                                                         *)
(* A request is what a comparator can see of it: the rank of its resolved  *)
(* name, whether it is for a file that exists, and the status of its       *)
(* newest dependency.  The file system is taken not to change meanwhile.   *)
(***************************************************************************)
EXTENDS TargetStatus, FiniteSets

CONSTANTS
  Inputs,     \* lists of names a user may give
  Requests    \* records [name, exists, newest_dep_status]

Comparators ==
  {"name_asc", "name_desc", "exists", "doesnt_exist", "mod_time_asc",
   "mod_time_desc"}

ChainSize == 3   \* of the array comparators_chain

ASSUME InputsAssumption == Inputs \subseteq Seq(STRING)

(* A request is made only after its newest_dep_status was compared with    *)
(* the status of the target, which excludes the other kinds.               *)
ASSUME RequestsAssumption ==
  /\ Times \subseteq Int
  /\ Requests \subseteq [name : Int, exists : BOOLEAN, newest_dep_status : Status]
  /\ \A r \in Requests : r.newest_dep_status.kind \in
                           {"file_mod_time", "explicitly_needs_update"}
  /\ \A r, q \in Requests : r.name = q.name => r = q

VARIABLES
  comparator_names,   \* the argument of make_comparators_chain
  idx,                \* how many of them have been looked at
  res,                \* the chain so far
  used_or_blocked,
  outcome             \* "making", "made", or what was thrown

vars == <<comparator_names, idx, res, used_or_blocked, outcome>>

TypeOK ==
  /\ comparator_names \in Inputs
  /\ idx \in 0..Len(comparator_names)
  /\ res \in Seq(Comparators) /\ Len(res) <= ChainSize
  /\ used_or_blocked \subseteq Comparators
  /\ outcome \in {"making", "made", "blocked", "too_many", "unknown"}

-----------------------------------------------------------------------------
(* Comparison of two requests: negative when lhs goes first.               *)

Sign(lhs_first, rhs_first) == IF lhs_first THEN -1 ELSE IF rhs_first THEN 1 ELSE 0

NameCompare(lhs, rhs) == Sign(lhs.name < rhs.name, rhs.name < lhs.name)

ExistsCompare(lhs, rhs) ==
  Sign(lhs.exists /\ ~rhs.exists, rhs.exists /\ ~lhs.exists)

NewestFirst(x, y) ==
  IF CertainlyNeedsUpdate(x) \/ CertainlyNeedsUpdate(y)
  THEN Sign(~CertainlyNeedsUpdate(x), ~CertainlyNeedsUpdate(y))
  ELSE Sign(NeedsUpdateComparedTo(y, x), NeedsUpdateComparedTo(x, y))
ModTimeCompare(x, y) ==
  IF CertainlyNeedsUpdate(x) /\ CertainlyNeedsUpdate(y) THEN 0
  ELSE IF CertainlyNeedsUpdate(x) \/ CertainlyNeedsUpdate(y)
  THEN Sign(~CertainlyNeedsUpdate(x), ~CertainlyNeedsUpdate(y))
  ELSE Sign(NeedsUpdateComparedTo(x, y), NeedsUpdateComparedTo(y, x))

Compare(c, lhs, rhs) ==
  CASE c = "name_asc"      -> NameCompare(lhs, rhs)
    [] c = "name_desc"     -> NameCompare(rhs, lhs)
    [] c = "exists"        -> ExistsCompare(lhs, rhs)
    [] c = "doesnt_exist"  -> ExistsCompare(rhs, lhs)
    [] c = "mod_time_asc"  -> ModTimeCompare(lhs.newest_dep_status,
                                             rhs.newest_dep_status)
    [] c = "mod_time_desc" -> ModTimeCompare(rhs.newest_dep_status,
                                             lhs.newest_dep_status)

NoFallback(chain)   == chain
WithFallback(chain) == Append(chain, "name_asc")

(* operator(): the std::priority_queue takes rhs first if it holds.        *)
After(chain, lhs, rhs) ==
  LET full == WithFallback(chain)
      deciding == {i \in DOMAIN full : Compare(full[i], lhs, rhs) # 0}
  IN  \E i \in deciding :
        (\A j \in deciding : i <= j) /\ Compare(full[i], lhs, rhs) > 0

-----------------------------------------------------------------------------
(* make_comparators_chain, one round of its loop at a time.                *)

Init ==
  /\ comparator_names \in Inputs
  /\ idx = 0
  /\ res = <<>>
  /\ used_or_blocked = {}
  /\ outcome = "making"

Itself(c) == {c}
Blocks(c) ==
  UNION {g \in {{"name_asc", "name_desc"}, {"exists", "doesnt_exist"},
               {"mod_time_asc", "mod_time_desc"}} : c \in g}

AnyName(c) == TRUE
Known(c)   == c \in Comparators

MoreToAdd == outcome = "making" /\ idx < Len(comparator_names)

Current == comparator_names[idx + 1]

Throw(what) == outcome' = what /\ UNCHANGED <<comparator_names, idx, res, used_or_blocked>>

ThrowBlocked == MoreToAdd /\ Current \in used_or_blocked /\ Throw("blocked")

ThrowTooMany ==
  /\ MoreToAdd
  /\ Current \notin used_or_blocked
  /\ ChainSize <= idx
  /\ Throw("too_many")

ThrowUnknown ==
  /\ MoreToAdd
  /\ Current \notin used_or_blocked
  /\ idx < ChainSize
  /\ ~Known(Current)
  /\ Throw("unknown")

Add ==
  /\ MoreToAdd
  /\ Current \notin used_or_blocked
  /\ idx < ChainSize
  /\ Known(Current)
  /\ res' = Append(res, Current)
  /\ used_or_blocked' = used_or_blocked \cup Blocks(Current)
  /\ idx' = idx + 1
  /\ UNCHANGED <<comparator_names, outcome>>

Made ==
  /\ outcome = "making"
  /\ idx = Len(comparator_names)
  /\ outcome' = "made"
  /\ UNCHANGED <<comparator_names, idx, res, used_or_blocked>>

Next == ThrowBlocked \/ ThrowTooMany \/ ThrowUnknown \/ Add \/ Made

Spec == Init /\ [][Next]_vars

-----------------------------------------------------------------------------
(* Reference: the order that build_request_comparators_chain.hxx documents *)
(* for each name of namespace sort_by.                                     *)

Opposite(c) ==
  CASE c = "name_asc" -> "name_desc"         [] c = "name_desc" -> "name_asc"
    [] c = "exists" -> "doesnt_exist"        [] c = "doesnt_exist" -> "exists"
    [] c = "mod_time_asc" -> "mod_time_desc" [] c = "mod_time_desc" -> "mod_time_asc"

(* "Newer than any real timestamp" if the request certainly needs update.  *)
Older(r, q) ==
  /\ r.newest_dep_status.kind = "file_mod_time"
  /\ \/ q.newest_dep_status.kind = "explicitly_needs_update"
     \/ r.newest_dep_status.mod_time < q.newest_dep_status.mod_time

GoesFirst(c, r, q) ==
  \/ c = "name_asc" /\ r.name < q.name
  \/ c = "name_desc" /\ q.name < r.name
  \/ c = "exists" /\ r.exists /\ ~q.exists
  \/ c = "doesnt_exist" /\ ~r.exists /\ q.exists
  \/ c = "mod_time_asc" /\ Older(r, q)
  \/ c = "mod_time_desc" /\ Older(q, r)

DocumentedFirst(chain, r, q) ==
  \/ \E i \in DOMAIN chain :
       /\ GoesFirst(chain[i], r, q)
       /\ \A j \in 1..(i - 1) : ~GoesFirst(chain[j], r, q) /\ ~GoesFirst(chain[j], q, r)
  \/ /\ \A i \in DOMAIN chain : ~GoesFirst(chain[i], r, q) /\ ~GoesFirst(chain[i], q, r)
     /\ GoesFirst("name_asc", r, q)

-----------------------------------------------------------------------------
(* Properties.                                                             *)

(* A list is accepted exactly when all its names are known and none of     *)
(* them comes twice, or together with its opposite.  The chain of three    *)
(* slots is then never too short: "Too many comparators" is what a user is *)
(* told only of an unknown name, since the check on duplicates stops every *)
(* other list earlier.                                                     *)
AcceptedExactly ==
  LET names == comparator_names
      good  == {i \in DOMAIN names :
                  /\ names[i] \in Comparators
                  /\ \A j \in 1..(i - 1) : names[j] \notin {names[i], Opposite(names[i])}}
  IN  /\ outcome # "making" => (outcome = "made" <=> good = DOMAIN names)
      /\ outcome = "too_many" => Current \notin Comparators

(* The queue's order is a strict total one, as std::priority_queue and the *)
(* predictability of the build ask for, whatever chain was accepted.       *)
StrictTotalOrder ==
  outcome = "made" =>
    /\ \A r, q \in Requests : r # q => (After(res, r, q) <=> ~After(res, q, r))
    /\ \A r \in Requests : ~After(res, r, r)
    /\ \A r, q, s \in Requests :
         After(res, r, q) /\ After(res, q, s) => After(res, r, s)

(* The request taken first is the one the documentation of the chain's     *)
(* names puts first.                                                       *)
DocumentedOrder ==
  outcome = "made" =>
    \A r, q \in Requests : After(res, q, r) <=> DocumentedFirst(res, r, q)
=============================================================================
