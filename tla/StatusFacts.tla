---------------------------- MODULE StatusFacts ----------------------------
(***************************************************************************)
(* Facts that proofs about several modules share: of finite sequences and  *)
(* their positions, and of the operators of TargetStatus, for sequences of *)
(* statuses of any length.                                                 *)
(***************************************************************************)
EXTENDS TargetStatus, FiniteSets, TLAPS, FiniteSetTheorems

(* A set of positions that is not empty has a first.  With it a property   *)
(* of every position is proved by its least counterexample.                *)
LEMMA FirstPosition ==
  ASSUME NEW n \in Nat, NEW I \in SUBSET (1..n), I # {}
  PROVE  \E i \in I : \A j \in 1..(i - 1) : j \notin I
<1> DEFINE R == StrictSubsetOrdering(1..n)
           T == {1..i : i \in I}
<1>1. IsFiniteSet(1..n)
  BY FS_Interval
<1>2. FiniteSubsetsOf(1..n) = SUBSET (1..n)
  BY <1>1, FS_FiniteSubsetsOfFinite
<1>3. IsWellFoundedOn(R, SUBSET (1..n))
  BY <1>2, FS_StrictSubsetOrderingWellFounded
<1>4. T \subseteq SUBSET (1..n) /\ T # {}
  <2>1. ASSUME NEW i \in I
        PROVE  1..i \in SUBSET (1..n)
    OBVIOUS
  <2>2. PICK i \in I : TRUE
    OBVIOUS
  <2>3. 1..i \in T
    OBVIOUS
  <2> QED
    BY <2>1, <2>3
<1>5. PICK x \in T : \A y \in T : ~ (<<y, x>> \in R)
  <2> HIDE DEF R, T
  <2> QED BY <1>3, <1>4, WFMin
<1>6. PICK i \in I : x = 1..i
  OBVIOUS
<1>7. ASSUME NEW j \in 1..(i - 1), j \in I
      PROVE  FALSE
  <2>1. 1..j \in T
    BY <1>7
  <2>2. (1..j) \subseteq (1..i) /\ i \in 1..i /\ i \notin 1..j
    BY <1>7
  <2>3. <<1..j, 1..i>> \in R
    BY <2>1, <2>2, <1>4, <1>6 DEF StrictSubsetOrdering
  <2> QED
    BY <2>1, <2>3, <1>5, <1>6
<1> QED
  BY <1>7

(* The elements of a sequence are at most as many as its length says.      *)
LEMMA ElementsBounded ==
  ASSUME NEW S, NEW s \in Seq(S)
  PROVE  /\ IsFiniteSet(Range(s))
         /\ Cardinality(Range(s)) \in Nat
         /\ Cardinality(Range(s)) <= Len(s)
<1> DEFINE n == Len(s)
           T == Range(s)
<1>1. DOMAIN s = 1..n /\ n \in Nat
  OBVIOUS
<1>2. s \in [1..n -> T] /\ \A x \in T : \E i \in 1..n : s[i] = x
  BY <1>1 DEF Range
<1>3. IsFiniteSet(1..n) /\ Cardinality(1..n) = n
  BY <1>1, FS_Interval
<1> HIDE DEF n, T
<1>4. s \in Surjection(1..n, T)
  BY <1>2 DEF Surjection
<1> QED
  BY <1>3, <1>4, FS_Surjection, FS_CardinalityType DEF n, T

(* A sequence without repetitions has as many elements as it is long.      *)
LEMMA ElementsCounted ==
  ASSUME NEW S, NEW s \in Seq(S), \A i, j \in DOMAIN s : s[i] = s[j] => i = j
  PROVE  Cardinality(Range(s)) = Len(s)
<1> DEFINE n == Len(s)
           T == Range(s)
<1>1. DOMAIN s = 1..n /\ n \in Nat
  OBVIOUS
<1>2. s \in [1..n -> T]
  BY <1>1 DEF Range
<1>3. \A x \in T : \E i \in 1..n : s[i] = x
  BY <1>1 DEF Range
<1>4. \A i, j \in 1..n : s[i] = s[j] => i = j
  BY <1>1
<1> HIDE DEF n, T
<1>5. s \in Injection(1..n, T)
  BY <1>1, <1>2, <1>4 DEF Injection, IsInjective
<1>6. s \in Surjection(1..n, T)
  BY <1>2, <1>3 DEF Surjection
<1>7. ExistsBijection(1..n, T)
  BY <1>5, <1>6 DEF ExistsBijection, Bijection
<1> QED
  BY <1>1, <1>7, FS_CountingElements DEF n, T

-----------------------------------------------------------------------------
(* Merging one status after the other.                                     *)

(* Merging two statuses gives a status.                                    *)
LEMMA MergeType ==
  ASSUME NEW lhs \in Status, NEW rhs \in Status
  PROVE  Merge(lhs, rhs) \in Status
BY DEF Merge, Status, StatusKinds, Later, Initialized

(* One round of the loop of get_worst_dep_status.                          *)
Round(worst, dep_status) ==
  IF CertainlyNeedsUpdate(worst) THEN worst ELSE Merge(worst, dep_status)

(* The rounds of the loop up to the n-th.                                  *)
Rounds(own, sts, n, w) ==
  /\ DOMAIN w = 0..n
  /\ w[0] = own
  /\ \A i \in 1..n : w[i] = Round(w[i - 1], sts[i])
Folded(own, sts, n, w) ==
  w = [i \in 0..n |-> IF i = 0 THEN own
                      ELSE IF CertainlyNeedsUpdate(w[i - 1]) THEN w[i - 1]
                      ELSE Merge(w[i - 1], sts[i])]

(* The loop has a value after every number of rounds.                      *)
LEMMA RoundsExist ==
  ASSUME NEW own, NEW sts, NEW N \in Nat
  PROVE  \E w : Folded(own, sts, N, w)
<1> DEFINE I == {n \in 1..N : ~ \E w : Folded(own, sts, n, w)}
<1>0. Folded(own, sts, 0, [i \in 0..0 |-> own])
  <2> DEFINE z == [i \in 0..0 |-> own]
  <2>1. \A i \in 0..0 : z[i] = IF i = 0 THEN own ELSE Round(z[i - 1], sts[i])
    OBVIOUS
  <2>2. z = [i \in 0..0 |-> IF i = 0 THEN own ELSE Round(z[i - 1], sts[i])]
    BY <2>1
  <2> HIDE DEF z
  <2> QED
    BY <2>2 DEF Folded, Round
<1> SUFFICES ASSUME N # 0, N \in I
             PROVE  FALSE
  BY <1>0
<1>1. PICK n \in I : \A j \in 1..(n - 1) : j \notin I
  <2>1. I \in SUBSET (1..N) /\ I # {}
    OBVIOUS
  <2> HIDE DEF I
  <2> QED
    BY <2>1, FirstPosition
<1>2. n \in 1..N /\ n - 1 \in 0..N
  OBVIOUS
<1>3. \E w : Folded(own, sts, n - 1, w)
  <2>1. CASE n = 1
    BY <1>0, <2>1
  <2>2. CASE n # 1
    <3>1. n - 1 \in 1..N /\ n - 1 \in 1..(n - 1)
      BY <1>2, <2>2
    <3> QED
      BY <1>1, <3>1
  <2> QED
    BY <2>1, <2>2
<1>4. PICK w : Folded(own, sts, n - 1, w)
  BY <1>3
<1> DEFINE v == [i \in 0..n |-> IF i = n THEN Round(w[n - 1], sts[n]) ELSE w[i]]
<1>5. Folded(own, sts, n, v)
  <2>1. w = [i \in 0..(n - 1) |-> IF i = 0 THEN own ELSE Round(w[i - 1], sts[i])]
    BY <1>4 DEF Folded, Round
  <2>2. ASSUME NEW i \in 0..n
        PROVE  v[i] = IF i = 0 THEN own ELSE Round(v[i - 1], sts[i])
    <3>1. CASE i = n
      <4>1. n - 1 \in 0..n /\ n - 1 # n /\ v[n - 1] = w[n - 1]
        BY <1>2
      <4> QED
        BY <1>2, <3>1, <4>1
    <3>2. CASE i # n
      <4>1. i \in 0..(n - 1) /\ v[i] = w[i]
        BY <1>2, <3>2
      <4>2. i # 0 => i - 1 \in 0..n /\ i - 1 # n /\ v[i - 1] = w[i - 1]
        BY <1>2, <3>2
      <4> QED
        BY <2>1, <4>1, <4>2
    <3> QED
      BY <3>1, <3>2
  <2>3. v = [i \in 0..n |-> IF i = 0 THEN own ELSE Round(v[i - 1], sts[i])]
    BY <2>2
  <2> HIDE DEF v
  <2> QED
    BY <2>3 DEF Folded, Round
<1> QED
  BY <1>1, <1>2, <1>5

(* get_worst_dep_status is what the loop has after its last round.         *)
LEMMA WorstIsLastRound ==
  ASSUME NEW own, NEW S, NEW sts \in Seq(S)
  PROVE  \E w : Rounds(own, sts, Len(sts), w) /\ WorstDepStatus(own, sts) = w[Len(sts)]
<1> DEFINE N == Len(sts)
           W == CHOOSE w : Folded(own, sts, N, w)
<1>1. N \in Nat
  OBVIOUS
<1>2. Folded(own, sts, N, W)
  BY <1>1, RoundsExist
<1>3. WorstDepStatus(own, sts) = W[N]
  BY DEF WorstDepStatus, Folded
<1>4. Rounds(own, sts, N, W)
  <2> HIDE DEF W, N
  <2> QED
   BY <1>1, <1>2 DEF Folded, Rounds, Round
<1> QED
  BY <1>3, <1>4

(* Without dependencies it is the status the loop started from.            *)
LEMMA WorstOfNothing ==
  ASSUME NEW own
  PROVE  WorstDepStatus(own, <<>>) = own
<1>1. <<>> \in Seq({}) /\ Len(<<>>) = 0
  OBVIOUS
<1>2. PICK w : Rounds(own, <<>>, 0, w) /\ WorstDepStatus(own, <<>>) = w[0]
  BY <1>1, WorstIsLastRound
<1> QED
  BY <1>2 DEF Rounds

(* What get_worst_dep_status returns is a status.                          *)
THEOREM WorstDepStatusType ==
  ASSUME NEW own \in Status, NEW sts \in Seq(Status)
  PROVE  WorstDepStatus(own, sts) \in Status
<1> DEFINE N == Len(sts)
<1>1. PICK w : Rounds(own, sts, N, w) /\ WorstDepStatus(own, sts) = w[N]
  BY WorstIsLastRound
<1>2. N \in Nat /\ \A i \in 1..N : sts[i] \in Status
  OBVIOUS
<1> DEFINE I == {i \in 1..N : w[i] \notin Status}
<1>3. ASSUME I # {}
      PROVE  FALSE
  <2>1. PICK i \in I : \A j \in 1..(i - 1) : j \notin I
    BY <1>2, <1>3, FirstPosition
  <2>2. w[i - 1] \in Status
    <3>1. CASE i = 1
      BY <1>1, <3>1 DEF Rounds
    <3>2. CASE i # 1
      BY <1>2, <2>1, <3>2
    <3> QED
      BY <3>1, <3>2
  <2>3. w[i] \in Status
    BY <1>1, <1>2, <2>2, MergeType DEF Rounds, Round
  <2> QED
    BY <2>3
<1>4. \A i \in 1..N : w[i] \in Status
  BY <1>3
<1> QED
  BY <1>1, <1>2, <1>4 DEF Rounds

(* A status that says when a target was last up to date, or that it must   *)
(* be built.                                                               *)
Decided(s) == s.kind \in {"file_mod_time", "explicitly_needs_update"}

(* Merging in a status that can be decided by gives one that can.          *)
LEMMA MergeDecides ==
  ASSUME NEW lhs \in Status, NEW rhs \in Status, Decided(rhs)
  PROVE  Decided(Merge(lhs, rhs))
BY DEF Merge, Decided, Status, StatusKinds, Initialized

(* If the dependencies are decided so is what get_worst_dep_status         *)
(* returns, unless there are none and the target itself is not.            *)
THEOREM WorstDepStatusDecided ==
  ASSUME NEW own \in Status, NEW sts \in Seq(Status),
         \A i \in DOMAIN sts : Decided(sts[i]),
         Decided(own) \/ sts # <<>>
  PROVE  Decided(WorstDepStatus(own, sts))
<1> DEFINE N == Len(sts)
<1>1. PICK w : Rounds(own, sts, N, w) /\ WorstDepStatus(own, sts) = w[N]
  BY WorstIsLastRound
<1>2. N \in Nat /\ \A i \in 1..N : sts[i] \in Status /\ Decided(sts[i])
  OBVIOUS
<1> DEFINE I == {i \in 1..N : ~(w[i] \in Status /\ Decided(w[i]))}
<1>3. ASSUME I # {}
      PROVE  FALSE
  <2>1. PICK i \in I : \A j \in 1..(i - 1) : j \notin I
    BY <1>2, <1>3, FirstPosition
  <2>2. w[i - 1] \in Status
    <3>1. CASE i = 1
      BY <1>1, <3>1 DEF Rounds
    <3>2. CASE i # 1
      BY <1>2, <2>1, <3>2
    <3> QED
      BY <3>1, <3>2
  <2>3. w[i] = Round(w[i - 1], sts[i])
    BY <1>1 DEF Rounds
  <2>4. w[i] \in Status /\ Decided(w[i])
    <3>1. CASE CertainlyNeedsUpdate(w[i - 1])
      BY <2>2, <2>3, <3>1 DEF Round, Decided, CertainlyNeedsUpdate
    <3>2. CASE ~CertainlyNeedsUpdate(w[i - 1])
      BY <1>2, <2>2, <2>3, <3>2, MergeType, MergeDecides DEF Round
    <3> QED
      BY <3>1, <3>2
  <2> QED
    BY <2>4
<1>4. \A i \in 1..N : Decided(w[i])
  BY <1>3
<1>5. CASE N = 0
  BY <1>1, <1>5 DEF Rounds
<1>6. CASE N # 0
  BY <1>1, <1>2, <1>4, <1>6
<1> QED
  BY <1>5, <1>6

(* A dependency of this status makes a file of this time out of date.      *)
Outdates(s, time) ==
  CertainlyNeedsUpdate(s) \/ (s.kind = "file_mod_time" /\ time < s.mod_time)

(* A merged status outdates a file exactly if one of the two does.         *)
LEMMA MergeOutdates ==
  ASSUME Times \subseteq Int, NEW time \in Int,
         NEW lhs \in Status, Initialized(lhs), NEW rhs \in Status, Initialized(rhs)
  PROVE  /\ Initialized(Merge(lhs, rhs))
         /\ Outdates(Merge(lhs, rhs), time) <=> Outdates(lhs, time) \/ Outdates(rhs, time)
<1>1. lhs.mod_time \in Times \cup {0} /\ rhs.mod_time \in Times \cup {0}
  BY DEF Status
<1>2. \A x \in Times \cup {0} : x \in Int
  OBVIOUS
<1>3. lhs.mod_time \in Int /\ rhs.mod_time \in Int
  BY <1>1, <1>2
<1> QED
  BY <1>3 DEF Merge, Outdates, CertainlyNeedsUpdate, Status, StatusKinds,
              Initialized, Later

(* What get_worst_dep_status returns makes a file out of date exactly when *)
(* one of the dependencies does, or the status the loop started from: the  *)
(* order of the dependencies and the early end of the loop do not matter.  *)
THEOREM WorstOutdates ==
  ASSUME Times \subseteq Int, NEW time \in Int,
         NEW own \in Status, Initialized(own),
         NEW sts \in Seq(Status), \A i \in DOMAIN sts : Initialized(sts[i])
  PROVE  Outdates(WorstDepStatus(own, sts), time)
           <=> Outdates(own, time) \/ \E i \in DOMAIN sts : Outdates(sts[i], time)
<1> DEFINE N == Len(sts)
<1>1. PICK w : Rounds(own, sts, N, w) /\ WorstDepStatus(own, sts) = w[N]
  BY WorstIsLastRound
<1>2. /\ N \in Nat /\ DOMAIN sts = 1..N
      /\ \A i \in 1..N : sts[i] \in Status /\ Initialized(sts[i])
  OBVIOUS
<1> DEFINE Right(i) ==
             /\ w[i] \in Status /\ Initialized(w[i])
             /\ Outdates(w[i], time)
                  <=> Outdates(own, time) \/ \E j \in 1..i : Outdates(sts[j], time)
           I == {i \in 1..N : ~Right(i)}
<1>3. Right(0)
  BY <1>1 DEF Rounds
<1>4. ASSUME I # {}
      PROVE  FALSE
  <2>1. PICK i \in I : \A j \in 1..(i - 1) : j \notin I
    BY <1>2, <1>4, FirstPosition
  <2>2. i \in 1..N /\ Right(i - 1)
    <3>1. CASE i = 1
      BY <1>3, <3>1
    <3>2. CASE i # 1
      <4>1. i - 1 \in 1..N /\ i - 1 \in 1..(i - 1)
        BY <1>2, <3>2
      <4> QED
        BY <2>1, <4>1
    <3> QED
      BY <3>1, <3>2
  <2>3. w[i] = Round(w[i - 1], sts[i])
    BY <1>1, <2>2 DEF Rounds
  <2>4. (\E j \in 1..i : Outdates(sts[j], time))
          <=> (\E j \in 1..(i - 1) : Outdates(sts[j], time)) \/ Outdates(sts[i], time)
    <3>1. 1..i = 1..(i - 1) \cup {i}
      BY <2>2
    <3> QED
      BY <3>1
  <2>5. Right(i)
    <3>1. CASE CertainlyNeedsUpdate(w[i - 1])
      BY <2>2, <2>3, <2>4, <3>1 DEF Round, Outdates
    <3>2. CASE ~CertainlyNeedsUpdate(w[i - 1])
      <4>1. w[i] = Merge(w[i - 1], sts[i])
        BY <2>3, <3>2 DEF Round
      <4>2. /\ Initialized(w[i]) /\ w[i] \in Status
            /\ Outdates(w[i], time) <=> Outdates(w[i - 1], time) \/ Outdates(sts[i], time)
        <5>1. /\ w[i - 1] \in Status /\ Initialized(w[i - 1])
              /\ sts[i] \in Status /\ Initialized(sts[i])
          BY <1>2, <2>2
        <5>2. /\ Initialized(Merge(w[i - 1], sts[i]))
              /\ Outdates(Merge(w[i - 1], sts[i]), time)
                   <=> Outdates(w[i - 1], time) \/ Outdates(sts[i], time)
          BY <5>1, MergeOutdates
        <5>3. Merge(w[i - 1], sts[i]) \in Status
          BY <5>1, MergeType
        <5> QED
          BY <4>1, <5>2, <5>3
      <4> QED
        BY <2>2, <2>4, <4>2
    <3> QED
      BY <3>1, <3>2
  <2> QED
    BY <2>1, <2>5
<1>5. Right(N)
  BY <1>2, <1>3, <1>4
<1> QED
  BY <1>1, <1>2, <1>5

-----------------------------------------------------------------------------
(* The order of the kinds.                                                 *)
Rank(s) ==
  IF s.kind = "uninitialized" THEN 0
  ELSE IF s.kind = "transitively_needs_update" THEN 1
  ELSE IF s.kind = "file_mod_time" THEN 2 ELSE 3

(* m is what merging the statuses of S should give: the highest kind of    *)
(* them, and of files the newest.                                          *)
HighestOf(m, S) ==
  /\ \A s \in S : Rank(s) <= Rank(m)
  /\ \E s \in S : s.kind = m.kind
  /\ m.kind = "file_mod_time" =>
       /\ \E s \in S : s.kind = "file_mod_time" /\ s.mod_time = m.mod_time
       /\ \A s \in S : s.kind = "file_mod_time" => s.mod_time <= m.mod_time

(* Ranks and times are numbers.                                            *)
LEMMA StatusNumbers ==
  ASSUME Times \subseteq Int
  PROVE  \A s \in Status : Rank(s) \in Int /\ s.mod_time \in Int
<1>1. \A time \in Times \cup {0} : time \in Int
  OBVIOUS
<1>2. \A s \in Status : s.mod_time \in Times \cup {0}
  BY DEF Status
<1>3. \A s \in Status : Rank(s) \in Int
  BY DEF Rank
<1> QED
  BY <1>1, <1>2, <1>3

(* Merging a value in, unless the loop has ended.                          *)
LEMMA MergeIsHighest ==
  ASSUME Times \subseteq Int, NEW x \in Status, NEW y \in Status,
         Initialized(x), Initialized(y), ~CertainlyNeedsUpdate(x)
  PROVE  HighestOf(Merge(x, y), {x, y})
<1>1. x.mod_time \in Int /\ y.mod_time \in Int
  BY StatusNumbers
<1>2. /\ x = [kind |-> x.kind, mod_time |-> x.mod_time] /\ x.kind \in StatusKinds
      /\ y.kind \in StatusKinds
  BY DEF Status
<1> QED
  BY <1>1, <1>2 DEF Merge, HighestOf, Rank, CertainlyNeedsUpdate, StatusKinds, Initialized, Later

(* What is highest of some statuses, and what it gives with one more.      *)
LEMMA HighestOfMore ==
  ASSUME NEW S, NEW x, NEW y, NEW m, HighestOf(x, S),
         Rank(x) \in Int, Rank(y) \in Int, Rank(m) \in Int, \A s \in S : Rank(s) \in Int,
         x.mod_time \in Int, y.mod_time \in Int, m.mod_time \in Int,
         \A s \in S : s.mod_time \in Int,
         \/ HighestOf(m, {x, y})
         \/ CertainlyNeedsUpdate(x) /\ m = x
  PROVE  HighestOf(m, S \cup {y})
<1>1. CASE HighestOf(m, {x, y})
  <2>1. Rank(x) <= Rank(m) /\ Rank(y) <= Rank(m)
    BY <1>1 DEF HighestOf
  <2>2. \A s \in S \cup {y} : Rank(s) <= Rank(m)
    BY <2>1 DEF HighestOf
  <2>3. \E s \in S \cup {y} : s.kind = m.kind
    BY <1>1 DEF HighestOf
  <2>4. ASSUME m.kind = "file_mod_time"
        PROVE  /\ \E s \in S \cup {y} : s.kind = "file_mod_time" /\ s.mod_time = m.mod_time
               /\ \A s \in S \cup {y} : s.kind = "file_mod_time" => s.mod_time <= m.mod_time
    <3>1. /\ x.kind = "file_mod_time" => x.mod_time <= m.mod_time
          /\ y.kind = "file_mod_time" => y.mod_time <= m.mod_time
          /\ \/ x.kind = "file_mod_time" /\ x.mod_time = m.mod_time
             \/ y.kind = "file_mod_time" /\ y.mod_time = m.mod_time
      BY <1>1, <2>4 DEF HighestOf
    <3>2. ASSUME NEW s \in S, s.kind = "file_mod_time"
          PROVE  x.kind = "file_mod_time" /\ s.mod_time <= x.mod_time
      <4>1. Rank(s) = 2 /\ Rank(m) = 2 /\ Rank(s) <= Rank(x) /\ Rank(x) <= 2
        BY <2>1, <2>4, <3>2 DEF Rank, HighestOf
      <4>2. x.kind = "file_mod_time"
        BY <4>1 DEF Rank
      <4> QED
        BY <3>2, <4>2 DEF HighestOf
    <3>3. \A s \in S : s.kind = "file_mod_time" => s.mod_time <= m.mod_time
      BY <3>1, <3>2
    <3>4. x.kind = "file_mod_time" =>
            \E s \in S : s.kind = "file_mod_time" /\ s.mod_time = x.mod_time
      BY DEF HighestOf
    <3> QED
      BY <3>1, <3>3, <3>4
  <2> QED
    BY <2>2, <2>3, <2>4 DEF HighestOf
<1>2. CASE CertainlyNeedsUpdate(x) /\ m = x
  <2>1. Rank(m) = 3 /\ \A s \in S \cup {y} : Rank(s) <= 3
    BY <1>2 DEF Rank, CertainlyNeedsUpdate
  <2> QED
    BY <1>2, <2>1 DEF HighestOf, CertainlyNeedsUpdate
<1> QED
  BY <1>1, <1>2

(* get_worst_dep_status, where it does not throw, finds the highest of the *)
(* values it is given.                                                     *)
THEOREM WorstStatusIsHighest ==
  ASSUME Times \subseteq Int, NEW own \in Status, NEW sts \in Seq(Status),
         ~WorstDepStatusThrows(own, sts)
  PROVE  HighestOf(WorstDepStatus(own, sts), {own} \cup {sts[i] : i \in DOMAIN sts})
<1> DEFINE N == Len(sts)
           Among(i) == {own} \cup {sts[j] : j \in 1..i}
<1>1. PICK w : Rounds(own, sts, N, w) /\ WorstDepStatus(own, sts) = w[N]
  BY WorstIsLastRound
<1>2. N \in Nat /\ DOMAIN sts = 1..N /\ \A i \in 1..N : sts[i] \in Status
  OBVIOUS
<1>3. \A s \in Status : Rank(s) \in Int /\ s.mod_time \in Int
  BY StatusNumbers
<1> DEFINE Right(i) == w[i] \in Status /\ HighestOf(w[i], Among(i))
           I == {i \in 1..N : ~Right(i)}
<1>4. Right(0)
  <2>1. Among(0) = {own}
    OBVIOUS
  <2>2. HighestOf(own, {own})
    BY <1>3 DEF HighestOf
  <2> HIDE DEF Among
  <2> QED
    BY <1>1, <2>1, <2>2 DEF Rounds
<1> HIDE DEF Among
<1>5. ASSUME I # {}
      PROVE  FALSE
  <2>1. PICK i \in I : \A j \in 1..(i - 1) : j \notin I
    <3>1. I \in SUBSET (1..N)
      OBVIOUS
    <3> HIDE DEF I
    <3> QED
      BY <1>2, <1>5, <3>1, FirstPosition
  <2>2. i \in 1..N /\ Right(i - 1)
    <3>1. CASE i = 1
      BY <1>4, <3>1
    <3>2. CASE i # 1
      <4>1. i - 1 \in 1..N /\ i - 1 \in 1..(i - 1)
        BY <1>2, <3>2
      <4> QED
        BY <2>1, <4>1
    <3> QED
      BY <3>1, <3>2
  <2>3. w[i] = Round(w[i - 1], sts[i])
    BY <1>1, <2>2 DEF Rounds
  <2>4. Among(i) = Among(i - 1) \cup {sts[i]} /\ Among(i - 1) \subseteq Status
    <3>1. 1..i = 1..(i - 1) \cup {i} /\ 1..(i - 1) \subseteq 1..N
      BY <1>2, <2>2
    <3> QED
      BY <1>2, <3>1 DEF Among
  <2>5. CASE CertainlyNeedsUpdate(w[i - 1])
    <3>1. w[i] = w[i - 1]
      BY <2>3, <2>5 DEF Round
    <3>2. HighestOf(w[i], Among(i - 1) \cup {sts[i]})
      <4> DEFINE x == w[i - 1]
                 y == sts[i]
                 S == Among(i - 1)
      <4>1. x \in Status /\ y \in Status /\ S \subseteq Status /\ HighestOf(x, S)
            /\ CertainlyNeedsUpdate(x)
        BY <1>2, <2>2, <2>4, <2>5
      <4> HIDE DEF x, y, S
      <4>2. HighestOf(x, S \cup {y})
        BY <1>3, <4>1, HighestOfMore
      <4> QED
        BY <3>1, <4>2 DEF x, y, S
    <3> QED
      BY <2>2, <2>1, <2>4, <3>1, <3>2
  <2>6. CASE ~CertainlyNeedsUpdate(w[i - 1])
    <3> DEFINE x == w[i - 1]
               y == sts[i]
               m == w[i]
               S == Among(i - 1)
    <3>1. /\ x \in Status /\ y \in Status /\ S \subseteq Status /\ HighestOf(x, S)
          /\ ~CertainlyNeedsUpdate(x) /\ m = Merge(x, y)
      BY <1>2, <2>2, <2>3, <2>4, <2>6 DEF Round
    <3>2. \A s \in S : ~CertainlyNeedsUpdate(s)
      <4>1. ASSUME NEW s \in S, CertainlyNeedsUpdate(s)
            PROVE  FALSE
        <5>1. Rank(s) = 3 /\ Rank(s) <= Rank(x)
          BY <3>1, <4>1 DEF CertainlyNeedsUpdate, Rank, HighestOf
        <5>2. Rank(x) < 3
          BY <3>1 DEF CertainlyNeedsUpdate, Rank, Status, StatusKinds
        <5> QED
          BY <1>3, <3>1, <5>1, <5>2
      <4> QED
        BY <4>1
    <3>3. own \in S /\ \A j \in 1..(i - 1) : sts[j] \in S
      BY DEF Among
    <3>4. Initialized(y)
      BY <1>2, <2>2, <3>2, <3>3 DEF WorstDepStatusThrows
    <3>5. Initialized(x)
      <4>1. Initialized(own)
        BY DEF WorstDepStatusThrows
      <4>2. Rank(own) <= Rank(x) /\ Rank(own) > 0
        BY <3>1, <3>3, <4>1 DEF HighestOf, Rank, Initialized
      <4> QED
        BY <1>3, <3>1, <4>2 DEF Rank, Initialized
    <3>6. m \in Status /\ HighestOf(m, {x, y})
      BY <3>1, <3>4, <3>5, MergeIsHighest, MergeType
    <3> HIDE DEF x, y, m, S
    <3>7. HighestOf(m, S \cup {y})
      BY <1>3, <3>1, <3>6, HighestOfMore
    <3> QED
      BY <2>1, <2>4, <3>6, <3>7 DEF x, y, m, S
  <2> QED
    BY <2>5, <2>6
<1>6. Right(N)
  BY <1>2, <1>4, <1>5
<1>7. Among(N) = {own} \cup {sts[i] : i \in DOMAIN sts}
  BY <1>2 DEF Among
<1> QED
  BY <1>1, <1>6, <1>7
=============================================================================
