----------------------- MODULE ComparatorsChainProofs -----------------------
(***************************************************************************)
(* Proofs about module ComparatorsChain, for lists of names of any length  *)
(* and any set of requests.                                                *)
(***************************************************************************)
EXTENDS ComparatorsChain, StatusFacts

Blocking(x, y) == x = y \/ x = Opposite(y)

(* The names looked at so far are the chain; none is blocked by another,   *)
(* and all that they block is remembered.                                  *)
ChainOK ==
  /\ Len(res) = idx
  /\ \A i \in 1..idx : res[i] = comparator_names[i] /\ res[i] \in Comparators
  /\ \A c \in Comparators : c \in used_or_blocked <=> \E i \in 1..idx : Blocking(c, res[i])
  /\ \A i, j \in 1..idx : j < i => ~Blocking(res[j], res[i])

(* What stopped the loop.                                                  *)
EndOK ==
  /\ outcome = "made" => idx = Len(comparator_names)
  /\ outcome \in {"blocked", "too_many", "unknown"} => idx < Len(comparator_names)
  /\ outcome = "blocked" => Current \in used_or_blocked
  /\ outcome = "too_many" => Current \notin used_or_blocked /\ idx = ChainSize
  /\ outcome = "unknown" => Current \notin Comparators

CInv == TypeOK /\ ChainOK /\ EndOK

-----------------------------------------------------------------------------
(* Names and their opposites.                                              *)

(* Every comparator has one opposite.                                      *)
LEMMA OppositeFacts ==
  ASSUME NEW c \in Comparators
  PROVE  Opposite(c) \in Comparators /\ Opposite(c) # c /\ Opposite(Opposite(c)) = c
BY DEF Comparators, Opposite

(* used_or_blocked grows by a name and its opposite.                       *)
LEMMA BlocksBoth ==
  ASSUME NEW c \in Comparators
  PROVE  Blocks(c) = {c, Opposite(c)}
<1> DEFINE A == {"name_asc", "name_desc"}
           B == {"exists", "doesnt_exist"}
           C == {"mod_time_asc", "mod_time_desc"}
<1>1. \A x : x \in Blocks(c) <=> \E g \in {A, B, C} : c \in g /\ x \in g
  BY DEF Blocks
<1>2. \A g \in {A, B, C} : c \in g => g = {c, Opposite(c)}
  BY DEF Opposite
<1>3. \E g \in {A, B, C} : c \in g
  BY DEF Comparators
<1> HIDE DEF A, B, C
<1> QED
  BY <1>1, <1>2, <1>3

(* Three names none of which blocks another block them all.                *)
LEMMA ThreeBlockAll ==
  ASSUME NEW x \in Comparators, NEW y \in Comparators, NEW z \in Comparators,
         ~Blocking(x, y), ~Blocking(x, z), ~Blocking(y, z),
         NEW c \in Comparators
  PROVE  Blocking(c, x) \/ Blocking(c, y) \/ Blocking(c, z)
<1> DEFINE Group(d) == IF d \in {"name_asc", "name_desc"} THEN 1
                       ELSE IF d \in {"exists", "doesnt_exist"} THEN 2 ELSE 3
<1>1. \A d \in Comparators : Group(d) \in {1, 2, 3}
  OBVIOUS
<1>2. \A d, e \in Comparators : Blocking(d, e) <=> Group(d) = Group(e)
  BY DEF Comparators, Blocking, Opposite
<1> HIDE DEF Group
<1> QED
  BY <1>1, <1>2

-----------------------------------------------------------------------------
(* The loop of make_comparators_chain.                                     *)

(* Before the first name the chain is empty.                               *)
LEMMA InitCInv ==
  ASSUME Init
  PROVE  CInv
<1> USE DEF Init
<1>1. comparator_names \in Seq(STRING) /\ Len(comparator_names) \in Nat
  BY InputsAssumption
<1>2. res \in Seq(Comparators) /\ Len(res) = 0 /\ 1..idx = {}
  OBVIOUS
<1>3. TypeOK
  BY <1>1, <1>2 DEF TypeOK, ChainSize
<1> QED
  BY <1>2, <1>3 DEF CInv, ChainOK, EndOK

(* One round of make_comparators_chain.                                    *)
LEMMA AddKeeps ==
  ASSUME CInv, Add
  PROVE  CInv'
<1> USE DEF Add, CInv
<1>1. /\ comparator_names \in Seq(STRING) /\ idx \in Nat
      /\ res \in Seq(Comparators) /\ Current \in Comparators /\ idx < ChainSize
  BY InputsAssumption DEF TypeOK, MoreToAdd, Known
<1>2. /\ res' \in Seq(Comparators) /\ Len(res') = idx + 1
      /\ \A i \in 1..idx : res'[i] = res[i]
      /\ res'[idx + 1] = Current
      /\ 1..idx' = 1..idx \cup {idx + 1}
  BY <1>1 DEF ChainOK
<1>3. used_or_blocked' = used_or_blocked \cup {Current, Opposite(Current)}
  BY <1>1, BlocksBoth
<1>4. TypeOK'
  BY <1>1, <1>2, <1>3, OppositeFacts DEF TypeOK, MoreToAdd, ChainSize
<1>5. ChainOK'
  <2>1. \A i \in 1..idx' : res'[i] = comparator_names'[i] /\ res'[i] \in Comparators
    BY <1>1, <1>2 DEF ChainOK, Current
  <2>2. \A c \in Comparators : c \in used_or_blocked' <=> \E i \in 1..idx' : Blocking(c, res'[i])
    BY <1>1, <1>2, <1>3 DEF ChainOK, Blocking
  <2>3. \A i \in 1..idx : ~Blocking(res[i], Current)
    <3>1. TAKE i \in 1..idx
    <3>2. res[i] \in Comparators /\ ~Blocking(Current, res[i])
      BY <1>1 DEF ChainOK
    <3> QED
      BY <1>1, <3>2, OppositeFacts DEF Blocking
  <2>4. \A i, j \in 1..idx' : j < i => ~Blocking(res'[j], res'[i])
    BY <1>1, <1>2, <2>3 DEF ChainOK
  <2> QED
    BY <1>2, <2>1, <2>2, <2>4 DEF ChainOK
<1>6. EndOK'
  BY DEF EndOK, MoreToAdd
<1> QED
  BY <1>4, <1>5, <1>6

(* Every step keeps the invariant.                                         *)
LEMMA NextKeepsCInv ==
  ASSUME CInv, [Next]_vars
  PROVE  CInv'
<1> USE DEF CInv
<1>1. CASE Add
  BY <1>1, AddKeeps
<1>2. CASE ThrowBlocked \/ ThrowTooMany \/ ThrowUnknown
  <2>1. UNCHANGED <<comparator_names, idx, res, used_or_blocked>> /\ MoreToAdd
    BY <1>2 DEF ThrowBlocked, ThrowTooMany, ThrowUnknown, Throw
  <2>2. idx <= ChainSize
    BY DEF TypeOK, ChainOK
  <2>3. EndOK'
    BY <1>2, <2>1, <2>2 DEF ThrowBlocked, ThrowTooMany, ThrowUnknown, Throw, EndOK,
       MoreToAdd, Current, Known, ChainSize, TypeOK
  <2> QED
    BY <1>2, <2>1, <2>3 DEF ThrowBlocked, ThrowTooMany, ThrowUnknown, Throw, TypeOK,
       ChainOK
<1>3. CASE Made
  BY <1>3 DEF Made, TypeOK, ChainOK, EndOK, Current
<1>4. CASE UNCHANGED vars
  BY <1>4 DEF vars, TypeOK, ChainOK, EndOK, Current
<1> QED
  BY <1>1, <1>2, <1>3, <1>4 DEF Next

(* The inductive invariant, for lists of any length.                       *)
THEOREM ChainInvariant == Spec => []CInv
<1>1. Init => CInv
  BY InitCInv
<1>2. CInv /\ [Next]_vars => CInv'
  BY NextKeepsCInv
<1> QED
  BY <1>1, <1>2, PTL DEF Spec

(* Every variable keeps its type: the array of three slots is never        *)
(* overrun.                                                                *)
THEOREM ChainTypeCorrect == Spec => []TypeOK
<1>1. CInv => TypeOK
  BY DEF CInv
<1> QED
  BY <1>1, ChainInvariant, PTL

(* A list of names is accepted exactly when all are known and none comes   *)
(* twice or with its opposite, and "Too many comparators" is thrown over   *)
(* an unknown name only.                                                   *)
THEOREM AcceptsExactly == Spec => []AcceptedExactly
<1>1. ASSUME CInv
      PROVE  AcceptedExactly
  <2> USE <1>1 DEF CInv
  <2> DEFINE names == comparator_names
             Good(i) == /\ names[i] \in Comparators
                        /\ \A j \in 1..(i - 1) : names[j] \notin {names[i], Opposite(names[i])}
  <2>1. names \in Seq(STRING) /\ DOMAIN names = 1..Len(names) /\ Len(names) \in Nat
        /\ idx \in 0..Len(names)
    BY InputsAssumption DEF TypeOK
  <2>2. \A i \in 1..idx : Good(i)
    <3>1. TAKE i \in 1..idx
    <3>2. \A j \in 1..(i - 1) : ~Blocking(names[j], names[i])
      BY <2>1 DEF ChainOK
    <3> QED
      BY <3>2 DEF ChainOK, Blocking
  <2>3. outcome = "made" => \A i \in DOMAIN names : Good(i)
    BY <2>1, <2>2 DEF EndOK
  <2>4. outcome = "too_many" => Current \notin Comparators
    <3>1. SUFFICES ASSUME outcome = "too_many", Current \in Comparators
                   PROVE  FALSE
      OBVIOUS
    <3>2. idx = 3 /\ Current \notin used_or_blocked
      BY <3>1 DEF EndOK, ChainSize
    <3>3. /\ res[1] \in Comparators /\ res[2] \in Comparators /\ res[3] \in Comparators
          /\ ~Blocking(res[1], res[2]) /\ ~Blocking(res[1], res[3]) /\ ~Blocking(res[2], res[3])
          /\ \A i \in 1..3 : ~Blocking(Current, res[i])
      BY <3>1, <3>2 DEF ChainOK
    <3> QED
      BY <3>1, <3>3, ThreeBlockAll
  <2>5. outcome \in {"blocked", "too_many", "unknown"} =>
          idx + 1 \in DOMAIN names /\ ~Good(idx + 1)
    <3>1. SUFFICES ASSUME outcome \in {"blocked", "too_many", "unknown"}
                   PROVE  idx + 1 \in DOMAIN names /\ ~Good(idx + 1)
      OBVIOUS
    <3>2. idx + 1 \in DOMAIN names
      <4>1. idx < Len(names)
        BY <3>1 DEF EndOK
      <4> QED
        BY <2>1, <4>1
    <3>3. CASE Current \notin Comparators
      BY <3>2, <3>3 DEF Current
    <3>4. CASE Current \in Comparators
      <4>1. Current \in used_or_blocked
        BY <2>4, <3>1, <3>4 DEF EndOK
      <4>2. PICK j \in 1..idx : Blocking(Current, res[j])
        BY <3>4, <4>1 DEF ChainOK
      <4>3. names[j] \in {Current, Opposite(Current)}
        BY <3>4, <4>2, OppositeFacts DEF ChainOK, Blocking
      <4>4. j \in 1..((idx + 1) - 1)
        BY <2>1, <4>2
      <4> QED
        BY <3>2, <4>3, <4>4 DEF Current
    <3> QED
      BY <3>3, <3>4
  <2> HIDE DEF Good
  <2>6. outcome # "making" => (outcome = "made" <=> \A i \in DOMAIN names : Good(i))
    BY <2>3, <2>5 DEF TypeOK
  <2>7. {i \in DOMAIN names : Good(i)} = DOMAIN names <=> \A i \in DOMAIN names : Good(i)
    OBVIOUS
  <2> QED
    BY <2>4, <2>6, <2>7 DEF AcceptedExactly, Good
<1> QED
  BY <1>1, ChainInvariant, PTL

-----------------------------------------------------------------------------
(* How two requests compare.                                               *)

(* A comparator answers with the sign of the order its name stands for.    *)
LEMMA CompareIsGoesFirst ==
  ASSUME NEW c \in Comparators, NEW r \in Requests, NEW q \in Requests
  PROVE  /\ Compare(c, r, q) \in {-1, 0, 1}
         /\ Compare(c, r, q) > 0 <=> GoesFirst(c, q, r)
         /\ Compare(c, r, q) = 0 <=> ~GoesFirst(c, r, q) /\ ~GoesFirst(c, q, r)
<1>1. /\ r.name \in Int /\ q.name \in Int /\ r.exists \in BOOLEAN /\ q.exists \in BOOLEAN
      /\ r.newest_dep_status \in Status /\ q.newest_dep_status \in Status
      /\ r.newest_dep_status.kind \in {"file_mod_time", "explicitly_needs_update"}
      /\ q.newest_dep_status.kind \in {"file_mod_time", "explicitly_needs_update"}
  BY RequestsAssumption
<1>2. /\ r.newest_dep_status.mod_time \in Times \cup {0}
      /\ q.newest_dep_status.mod_time \in Times \cup {0}
  BY <1>1 DEF Status
<1>3. \A x \in Times \cup {0} : x \in Int
  BY RequestsAssumption
<1>4. r.newest_dep_status.mod_time \in Int /\ q.newest_dep_status.mod_time \in Int
  BY <1>2, <1>3
<1>5. CASE c \in {"name_asc", "name_desc"}
  BY <1>1, <1>5 DEF Compare, NameCompare, Sign, GoesFirst
<1>6. CASE c \in {"exists", "doesnt_exist"}
  BY <1>1, <1>6 DEF Compare, ExistsCompare, Sign, GoesFirst
<1>7. CASE c \in {"mod_time_asc", "mod_time_desc"}
  BY <1>1, <1>4, <1>7 DEF Compare, ModTimeCompare, CertainlyNeedsUpdate,
     NeedsUpdateComparedTo, Sign, GoesFirst, Older
<1> QED
  BY <1>5, <1>6, <1>7 DEF Comparators

(* Each of these orders is a strict weak one, and that of names is total.  *)
Tied(c, r, q) == ~GoesFirst(c, r, q) /\ ~GoesFirst(c, q, r)

(* Each comparator is a strict weak order.                                 *)
LEMMA WeakOrders ==
  ASSUME NEW c \in Comparators,
         NEW r \in Requests, NEW q \in Requests, NEW s \in Requests
  PROVE  /\ ~(GoesFirst(c, r, q) /\ GoesFirst(c, q, r))
         /\ GoesFirst(c, r, q) /\ GoesFirst(c, q, s) => GoesFirst(c, r, s)
         /\ GoesFirst(c, r, q) /\ Tied(c, q, s) => GoesFirst(c, r, s)
         /\ Tied(c, r, q) /\ GoesFirst(c, q, s) => GoesFirst(c, r, s)
         /\ Tied(c, r, q) /\ Tied(c, q, s) => Tied(c, r, s)
<1>1. \A x \in {r, q, s} :
        /\ x.name \in Int /\ x.exists \in BOOLEAN /\ x.newest_dep_status \in Status
        /\ x.newest_dep_status.kind \in {"file_mod_time", "explicitly_needs_update"}
  BY RequestsAssumption
<1>2. \A x \in {r, q, s} : x.newest_dep_status.mod_time \in Times \cup {0}
  BY <1>1 DEF Status
<1>3. \A x \in Times \cup {0} : x \in Int
  BY RequestsAssumption
<1>4. \A x \in {r, q, s} : x.newest_dep_status.mod_time \in Int
  BY <1>2, <1>3
<1>5. CASE c \in {"name_asc", "name_desc"}
  BY <1>1, <1>5 DEF GoesFirst, Tied
<1>6. CASE c \in {"exists", "doesnt_exist"}
  BY <1>1, <1>6 DEF GoesFirst, Tied
<1>7. CASE c \in {"mod_time_asc", "mod_time_desc"}
  BY <1>1, <1>4, <1>7 DEF GoesFirst, Older, Tied
<1> QED
  BY <1>5, <1>6, <1>7 DEF Comparators

(* Different requests never tie by name, which the fallback relies on.     *)
LEMMA NamesAreTotal ==
  ASSUME NEW r \in Requests, NEW q \in Requests, r # q
  PROVE  ~Tied("name_asc", r, q)
<1>1. r.name \in Int /\ q.name \in Int /\ r.name # q.name
  BY RequestsAssumption
<1> QED
  BY <1>1 DEF GoesFirst, Tied

-----------------------------------------------------------------------------
(* The chain.                                                              *)

(* The comparators before the i-th of the chain do not tell r from q.      *)
TiedBefore(full, i, r, q) == \A j \in 1..(i - 1) : Tied(full[j], r, q)

(* The queue compares by the first comparator of the chain that does not   *)
(* tie.                                                                    *)
LEMMA AfterMeans ==
  ASSUME NEW chain \in Seq(Comparators), NEW r \in Requests, NEW q \in Requests
  PROVE  LET full == WithFallback(chain)
         IN  After(chain, q, r) <=>
               \E i \in 1..(Len(chain) + 1) :
                 GoesFirst(full[i], r, q) /\ TiedBefore(full, i, r, q)
<1> DEFINE full == WithFallback(chain)
           n    == Len(chain) + 1
           deciding == {i \in DOMAIN full : Compare(full[i], q, r) # 0}
<1>1. /\ n \in Nat /\ full \in Seq(Comparators) /\ DOMAIN full = 1..n
      /\ \A i \in 1..n : full[i] \in Comparators
  <2>1. "name_asc" \in Comparators
    BY DEF Comparators
  <2> QED
    BY <2>1 DEF WithFallback
<1>2. After(chain, q, r) <=>
        \E i \in deciding : /\ \A j \in deciding : i <= j
                            /\ Compare(full[i], q, r) > 0
  BY DEF After
<1> HIDE DEF full, n
<1>3. \A i \in 1..n : /\ Compare(full[i], q, r) # 0 <=> ~Tied(full[i], r, q)
                      /\ Compare(full[i], q, r) > 0 <=> GoesFirst(full[i], r, q)
  BY <1>1, CompareIsGoesFirst DEF Tied
<1>4. \A i \in 1..n : GoesFirst(full[i], r, q) => ~Tied(full[i], r, q)
  BY DEF Tied
<1>5. \A i \in 1..n : (\A j \in deciding : i <= j) <=> TiedBefore(full, i, r, q)
  <2>1. TAKE i \in 1..n
  <2>2. \A j \in 1..n : j \in deciding <=> ~Tied(full[j], r, q)
    BY <1>1, <1>3
  <2>3. deciding \subseteq 1..n
    BY <1>1
  <2>4. 1..(i - 1) = {j \in 1..n : j < i}
    BY <1>1
  <2> HIDE DEF deciding
  <2> QED
    BY <1>1, <2>2, <2>3, <2>4 DEF TiedBefore
<1>6. After(chain, q, r) <=>
        \E i \in 1..n : GoesFirst(full[i], r, q) /\ TiedBefore(full, i, r, q)
  BY <1>1, <1>2, <1>3, <1>4, <1>5
<1> QED
  BY <1>6 DEF full, n

(* The order made of the chain and the fallback is the documented one ...  *)
LEMMA AfterIsDocumented ==
  ASSUME NEW chain \in Seq(Comparators), NEW r \in Requests, NEW q \in Requests
  PROVE  After(chain, q, r) <=> DocumentedFirst(chain, r, q)
<1> DEFINE full == WithFallback(chain)
           n    == Len(chain)
<1>1. /\ n \in Nat /\ DOMAIN chain = 1..n /\ 1..(n + 1) = 1..n \cup {n + 1}
      /\ \A i \in 1..n : full[i] = chain[i]
      /\ full[n + 1] = "name_asc"
      /\ (n + 1) - 1 = n
  BY DEF WithFallback
<1>2. After(chain, q, r) <=>
        \E i \in 1..(n + 1) : GoesFirst(full[i], r, q) /\ TiedBefore(full, i, r, q)
  BY AfterMeans
<1> HIDE DEF full, n
<1>3. \A i \in 1..n :
        GoesFirst(full[i], r, q) /\ TiedBefore(full, i, r, q) <=>
          /\ GoesFirst(chain[i], r, q)
          /\ \A j \in 1..(i - 1) : ~GoesFirst(chain[j], r, q) /\ ~GoesFirst(chain[j], q, r)
  <2>1. TAKE i \in 1..n
  <2>2. \A j \in 1..(i - 1) : j \in 1..n
    BY <1>1
  <2> QED
    BY <1>1, <2>2 DEF TiedBefore, Tied
<1>4. GoesFirst(full[n + 1], r, q) /\ TiedBefore(full, n + 1, r, q) <=>
        /\ \A i \in DOMAIN chain : ~GoesFirst(chain[i], r, q) /\ ~GoesFirst(chain[i], q, r)
        /\ GoesFirst("name_asc", r, q)
  BY <1>1 DEF TiedBefore, Tied
<1> QED
  BY <1>1, <1>2, <1>3, <1>4 DEF DocumentedFirst

(* ... and a strict total order.                                           *)
LEMMA AfterIsTotal ==
  ASSUME NEW chain \in Seq(Comparators), NEW r \in Requests, NEW q \in Requests, r # q
  PROVE  After(chain, r, q) <=> ~After(chain, q, r)
<1> DEFINE full == WithFallback(chain)
           n    == Len(chain) + 1
           D    == {i \in 1..n : ~Tied(full[i], r, q)}
<1>1. /\ n \in Nat /\ n \in 1..n /\ full[n] = "name_asc"
      /\ \A i \in 1..n : full[i] \in Comparators
  BY DEF WithFallback, Comparators
<1>2. /\ After(chain, q, r) <=>
           \E i \in 1..n : GoesFirst(full[i], r, q) /\ TiedBefore(full, i, r, q)
      /\ After(chain, r, q) <=>
           \E i \in 1..n : GoesFirst(full[i], q, r) /\ TiedBefore(full, i, q, r)
  BY AfterMeans
<1> HIDE DEF full, n
<1>3. n \in D
  BY <1>1, NamesAreTotal
<1>4. PICK i \in D : \A j \in 1..(i - 1) : j \notin D
  <2>1. D \in SUBSET (1..n) /\ D # {}
    BY <1>3
  <2> HIDE DEF D
  <2> QED
    BY <1>1, <2>1, FirstPosition
<1>5. i \in 1..n /\ \A j \in 1..(i - 1) : j \in 1..n /\ Tied(full[j], r, q)
  BY <1>1, <1>4
<1>6. \A j \in 1..n : ~Tied(full[j], r, q) /\ TiedBefore(full, j, r, q) => j = i
  <2>1. TAKE j \in 1..n
  <2>2. CASE j < i
    BY <1>5, <2>2
  <2>3. CASE i < j
    <3>1. i \in 1..(j - 1)
      BY <1>5, <2>3
    <3> QED
      BY <1>4, <3>1 DEF TiedBefore
  <2> QED
    BY <1>5, <2>2, <2>3
<1>7. \A j : /\ TiedBefore(full, j, q, r) <=> TiedBefore(full, j, r, q)
             /\ GoesFirst(full[j], r, q) \/ GoesFirst(full[j], q, r) <=> ~Tied(full[j], r, q)
  BY DEF TiedBefore, Tied
<1>8. /\ After(chain, q, r) <=> GoesFirst(full[i], r, q)
      /\ After(chain, r, q) <=> GoesFirst(full[i], q, r)
  BY <1>2, <1>5, <1>6, <1>7 DEF TiedBefore
<1>9. GoesFirst(full[i], r, q) <=> ~GoesFirst(full[i], q, r)
  BY <1>1, <1>4, <1>5, WeakOrders DEF Tied
<1> QED
  BY <1>8, <1>9

(* The order of a chain is transitive, as std::priority_queue needs.       *)
LEMMA AfterIsTransitive ==
  ASSUME NEW chain \in Seq(Comparators),
         NEW r \in Requests, NEW q \in Requests, NEW s \in Requests,
         After(chain, r, q), After(chain, q, s)
  PROVE  After(chain, r, s)
<1> DEFINE full == WithFallback(chain)
           n    == Len(chain) + 1
<1>1. n \in Nat /\ \A i \in 1..n : full[i] \in Comparators
  BY DEF WithFallback, Comparators
<1>2. /\ \E i \in 1..n : GoesFirst(full[i], q, r) /\ TiedBefore(full, i, q, r)
      /\ \E i \in 1..n : GoesFirst(full[i], s, q) /\ TiedBefore(full, i, s, q)
      /\ After(chain, r, s) <=>
           \E i \in 1..n : GoesFirst(full[i], s, r) /\ TiedBefore(full, i, s, r)
  BY AfterMeans
<1> HIDE DEF full, n
<1>3. PICK i \in 1..n : GoesFirst(full[i], q, r) /\ TiedBefore(full, i, q, r)
  BY <1>2
<1>4. PICK j \in 1..n : GoesFirst(full[j], s, q) /\ TiedBefore(full, j, s, q)
  BY <1>2
<1> DEFINE k == IF i < j THEN i ELSE j
<1>5. k \in 1..n /\ \A m \in 1..(k - 1) : m \in 1..(i - 1) /\ m \in 1..(j - 1) /\ m \in 1..n
  BY <1>1
<1>6. TiedBefore(full, k, s, r)
  BY <1>1, <1>3, <1>4, <1>5, WeakOrders DEF TiedBefore
<1>7. GoesFirst(full[k], s, r)
  <2>1. CASE i = j
    BY <1>1, <1>3, <1>4, <2>1, WeakOrders
  <2>2. CASE i < j
    <3>1. i \in 1..(j - 1)
      BY <2>2
    <3>2. Tied(full[i], s, q)
      BY <1>4, <3>1 DEF TiedBefore
    <3> QED
      BY <1>1, <1>3, <2>2, <3>2, WeakOrders
  <2>3. CASE j < i
    <3>1. j \in 1..(i - 1)
      BY <2>3
    <3>2. Tied(full[j], q, r)
      BY <1>3, <3>1 DEF TiedBefore
    <3> QED
      BY <1>1, <1>4, <2>3, <3>2, WeakOrders
  <2> QED
    BY <2>1, <2>2, <2>3
<1> QED
  BY <1>2, <1>5, <1>6, <1>7

(* Whatever chain was accepted, the queue is ordered totally and strictly, *)
(* for any set of requests.                                                *)
THEOREM OrderIsTotal == Spec => []StrictTotalOrder
<1>1. ASSUME CInv
      PROVE  StrictTotalOrder
  <2>1. res \in Seq(Comparators)
    BY <1>1 DEF CInv, TypeOK
  <2>2. \A r \in Requests : ~After(res, r, r)
    <3>1. TAKE r \in Requests
    <3>2. SUFFICES ASSUME After(res, r, r)
                   PROVE  FALSE
      OBVIOUS
    <3>3. PICK i \in 1..(Len(res) + 1) : GoesFirst(WithFallback(res)[i], r, r)
      BY <2>1, <3>2, AfterMeans
    <3>4. WithFallback(res)[i] \in Comparators
      BY <2>1 DEF WithFallback, Comparators
    <3> QED
      BY <3>3, <3>4, WeakOrders
  <2> QED
    BY <2>1, <2>2, AfterIsTotal, AfterIsTransitive DEF StrictTotalOrder
<1> QED
  BY <1>1, ChainInvariant, PTL

(* The request the queue gives out first is the documented one.            *)
THEOREM OrderIsDocumented == Spec => []DocumentedOrder
<1>1. CInv => DocumentedOrder
  BY AfterIsDocumented DEF CInv, TypeOK, DocumentedOrder
<1> QED
  BY <1>1, ChainInvariant, PTL
=============================================================================
