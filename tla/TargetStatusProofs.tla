------------------------- MODULE TargetStatusProofs -------------------------
(***************************************************************************)
(* Proofs about module MCTargetStatus: what it checks of lists of up to    *)
(* MaxDeps dependencies holds for every MaxDeps, so for lists of any       *)
(* length, and for any times.                                              *)
(***************************************************************************)
EXTENDS MCTargetStatus, StatusFacts

(* Each value a program can hold is known by its kind, but for the times   *)
(* of files.                                                               *)
LEMMA ValuesByKind ==
  ASSUME NEW s \in Values
  PROVE  /\ s \in Status
         /\ s.kind = "uninitialized" <=> s = Uninitialized
         /\ s.kind = "transitively_needs_update" <=> s = TransitivelyNeedsUpdate
         /\ s.kind = "explicitly_needs_update" <=> s = ExplicitlyNeedsUpdate
         /\ Level(s) = Rank(s)
BY DEF Values, FileModTime, Uninitialized, TransitivelyNeedsUpdate,
       ExplicitlyNeedsUpdate, Level, Rank, Status, StatusKinds

(* What lists are made of.                                                 *)
ListOK == own \in Values \ {Uninitialized} /\ deps \in Seq(Values)

(* Lists grow by such values.                                              *)
THEOREM ListsAreOfValues == Spec => []ListOK
<1>1. Init => ListOK
  BY DEF Init, ListOK
<1>2. ListOK /\ [Next]_vars => ListOK'
  BY DEF ListOK, Next, vars
<1> QED
  BY <1>1, <1>2, PTL DEF Spec

(* The values of a list, and of the target itself, are statuses.           *)
LEMMA ListedValues ==
  ASSUME ListOK
  PROVE  /\ own \in Status /\ own \in AllOf /\ deps \in Seq(Status)
         /\ AllOf \subseteq Values
<1>1. /\ DOMAIN deps = 1..Len(deps)
      /\ \A i \in DOMAIN deps : deps[i] \in Values
  BY DEF ListOK
<1>2. Values \subseteq Status
  BY ValuesByKind
<1> QED
  BY <1>1, <1>2 DEF AllOf, ListOK

(* The status returned is the highest of all.                              *)
LEMMA WorstOfList ==
  ASSUME Times \subseteq Int, ListOK, ~WorstDepStatusThrows(own, deps)
  PROVE  /\ WorstDepStatus(own, deps) \in Status
         /\ HighestOf(WorstDepStatus(own, deps), AllOf)
BY ListedValues, WorstStatusIsHighest, WorstDepStatusType DEF AllOf

(* Merging the values of a list finds the worst.                           *)
LEMMA WorstIsFound ==
  ASSUME Times \subseteq Int, ListOK
  PROVE  WorstIsHighest
<1> DEFINE worst == WorstDepStatus(own, deps)
<1>1. own \in Status /\ own \in AllOf /\ deps \in Seq(Status) /\ AllOf \subseteq Values
  BY ListedValues
<1>2. CASE WorstDepStatusThrows(own, deps)
  <2>1. PICK s \in AllOf : ~Initialized(s)
    BY <1>1, <1>2 DEF WorstDepStatusThrows, AllOf
  <2>2. s = Uninitialized
    BY <1>1, <2>1, ValuesByKind DEF Initialized
  <2> QED
    BY <1>2, <2>1, <2>2 DEF WorstIsHighest
<1>3. CASE ~WorstDepStatusThrows(own, deps)
  <2>1. worst \in Status /\ HighestOf(worst, AllOf)
    BY <1>3, WorstOfList
  <2>2. Level(worst) = Rank(worst) /\ \A s \in AllOf : Level(s) = Rank(s)
    BY <1>1, <2>1, ValuesByKind DEF Level, Rank, Status, StatusKinds
  <2> HIDE DEF worst
  <2>3. \A s \in AllOf : Level(s) <= Level(worst)
    BY <2>1, <2>2 DEF HighestOf
  <2>4. /\ \E s \in AllOf : s.kind = worst.kind
        /\ worst.kind = "file_mod_time" =>
             /\ worst.mod_time \in FileTimes
             /\ \A time \in FileTimes : time <= worst.mod_time
    BY <2>1 DEF HighestOf, FileTimes
  <2> QED
    BY <1>3, <2>3, <2>4 DEF WorstIsHighest, worst
<1> QED
  BY <1>2, <1>3

(* get_worst_dep_status finds the highest kind, and the newest of files,   *)
(* among any number of dependencies in any order; it throws only over a    *)
(* value nobody has initialized.                                           *)
THEOREM MergingFindsWorst ==
  ASSUME Times \subseteq Int
  PROVE  Spec => []WorstIsHighest
<1>1. ListOK => WorstIsHighest
  BY WorstIsFound
<1> QED
  BY <1>1, ListsAreOfValues, PTL

(* The decision over a list that holds only initialized values.            *)
LEMMA NewestDecides ==
  ASSUME Times \subseteq Int, ListOK
  PROVE  DecisionMeansNewest
<1> DEFINE worst == WorstDepStatus(own, deps)
<1> SUFFICES ASSUME Uninitialized \notin AllOf
             PROVE  IF ComparisonThrows(own, worst)
                    THEN AllOf = {TransitivelyNeedsUpdate}
                    ELSE NeedsUpdateComparedTo(own, worst) <=>
                           \/ own.kind # "file_mod_time"
                           \/ ExplicitlyNeedsUpdate \in AllOf
                           \/ \E time \in FileTimes : time > own.mod_time
  BY DEF DecisionMeansNewest
<1>2. own \in Status /\ own \in AllOf /\ deps \in Seq(Status) /\ AllOf \subseteq Values
  BY ListedValues
<1>3. /\ \A s \in AllOf : Initialized(s) /\ s \in Status
      /\ \A s \in AllOf : s.kind = "explicitly_needs_update" <=> s = ExplicitlyNeedsUpdate
      /\ \A s \in AllOf : s.kind = "transitively_needs_update" <=> s = TransitivelyNeedsUpdate
  BY <1>2, ValuesByKind DEF Initialized
<1>4. ~WorstDepStatusThrows(own, deps)
  BY <1>3 DEF WorstDepStatusThrows, AllOf
<1>5. HighestOf(worst, AllOf) /\ worst \in Status
  BY <1>4, WorstOfList
<1>6. \A s \in Status : s.mod_time \in Int
  BY StatusNumbers
<1>7. FileTimes \subseteq Int
  BY <1>3, <1>6 DEF FileTimes
<1>8. /\ worst.kind = "file_mod_time" =>
           worst.mod_time \in FileTimes /\ \A time \in FileTimes : time <= worst.mod_time
      /\ own.kind = "file_mod_time" => own.mod_time \in FileTimes
  BY <1>2, <1>5 DEF HighestOf, FileTimes
<1> HIDE DEF worst
<1>9. PICK s \in AllOf : s.kind = worst.kind
  BY <1>5 DEF HighestOf
<1>10. worst.kind \in {"transitively_needs_update", "file_mod_time", "explicitly_needs_update"}
  BY <1>3, <1>9 DEF Initialized, Status, StatusKinds
<1>11. CASE worst.kind = "transitively_needs_update"
  <2>1. \A x \in AllOf : x = TransitivelyNeedsUpdate
    <3>1. ASSUME NEW x \in AllOf
          PROVE  x.kind = "transitively_needs_update"
      <4>1. Rank(x) <= 1 /\ Initialized(x) /\ x.kind \in StatusKinds
        BY <1>3, <1>5, <1>11 DEF HighestOf, Rank, Status
      <4> QED
        BY <4>1 DEF Rank, StatusKinds, Initialized
    <3> QED
      BY <1>3, <3>1
  <2>2. ComparisonThrows(own, worst)
    BY <1>11 DEF ComparisonThrows
  <2> QED
    BY <1>2, <2>1, <2>2
<1>12. CASE worst.kind = "explicitly_needs_update"
  <2>1. ExplicitlyNeedsUpdate \in AllOf
    BY <1>3, <1>9, <1>12
  <2>2. ~ComparisonThrows(own, worst) /\ NeedsUpdateComparedTo(own, worst)
    BY <1>2, <1>3, <1>12 DEF ComparisonThrows, NeedsUpdateComparedTo, Initialized
  <2> QED
    BY <2>1, <2>2
<1>13. CASE worst.kind = "file_mod_time"
  <2>1. ~ComparisonThrows(own, worst)
    BY <1>2, <1>3, <1>13 DEF ComparisonThrows, Initialized
  <2>2. ExplicitlyNeedsUpdate \notin AllOf
    <3>1. ~(Rank(ExplicitlyNeedsUpdate) <= Rank(worst))
      BY <1>13 DEF Rank, ExplicitlyNeedsUpdate
    <3> QED
      BY <1>5, <3>1 DEF HighestOf
  <2>3. own.mod_time < worst.mod_time <=> \E time \in FileTimes : time > own.mod_time
    BY <1>2, <1>5, <1>6, <1>7, <1>8, <1>13
  <2> QED
    BY <1>13, <2>1, <2>2, <2>3 DEF NeedsUpdateComparedTo
<1> QED
  BY <1>10, <1>11, <1>12, <1>13

(* The whole decision of process_target_build, over values that are        *)
(* initialized, leaves a target alone exactly when it is a file and        *)
(* nothing it depends on needs an update or is newer.                      *)
THEOREM DecisionIsOverNewest ==
  ASSUME Times \subseteq Int
  PROVE  Spec => []DecisionMeansNewest
<1>1. ListOK => DecisionMeansNewest
  BY NewestDecides
<1> QED
  BY <1>1, ListsAreOfValues, PTL
=============================================================================
