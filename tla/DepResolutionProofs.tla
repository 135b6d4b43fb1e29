------------------------ MODULE DepResolutionProofs ------------------------
(***************************************************************************)
(* Proofs about module DepResolution, for any projects, targets and        *)
(* description files: its type invariant, that the counter unresolved is   *)
(* the number of targets left to resolve, and that no link of a resolved   *)
(* target is missing on the other side.                                    *)
(***************************************************************************)
EXTENDS DepResolution, StatusFacts

(* The description files are as the static initialisers left them.         *)
GivenOK ==
  /\ list \in [Projects -> Seq(Targets)]
  /\ \A p, q \in Projects :
       \A i \in DOMAIN list[p], j \in DOMAIN list[q] :
         list[p][i] = list[q][j] => p = q /\ i = j
  /\ \A t \in Targets :
       traits[t].raw_deps \in Seq(ElementsOf(traits[t].raw_deps))

(* The inductive invariant.  UnresolvedCounts alone is not inductive: that *)
(* a project adds as many targets as it counts needs that none is          *)
(* registered twice, and what a resolved target takes off the counter was  *)
(* counted because it is known.                                            *)
RInv ==
  /\ GivenOK
  /\ ResolutionTypeOK
  /\ resolved \subseteq Known
  /\ UnresolvedCounts
  /\ NoLinkMissing

-----------------------------------------------------------------------------
(* The first target of a name in a list, and its position.                 *)
LEMMA FirstNamedPosition ==
  ASSUME NEW ts \in Seq(Targets), NEW n,
         n \in {ResolvedName(t) : t \in ElementsOf(ts)}
  PROVE  \E k \in 1..Len(ts) :
           /\ FirstNamed(ts, n) = ts[k] /\ ResolvedName(ts[k]) = n
           /\ \A j \in 1..(k - 1) : ResolvedName(ts[j]) # n
<1> DEFINE I == {i \in 1..Len(ts) : ResolvedName(ts[i]) = n}
<1>1. DOMAIN ts = 1..Len(ts) /\ Len(ts) \in Nat
  OBVIOUS
<1>2. I \in SUBSET (1..Len(ts)) /\ I # {}
  BY <1>1 DEF ElementsOf
<1>3. PICK i \in I : \A j \in 1..(i - 1) : j \notin I
  BY <1>1, <1>2, FirstPosition
<1>4. \A j \in 1..(i - 1) : j \in 1..Len(ts)
  BY <1>1
<1>5. \E k \in DOMAIN ts : /\ ResolvedName(ts[k]) = n
                           /\ \A j \in 1..(k - 1) : ResolvedName(ts[j]) # n
  BY <1>1, <1>3, <1>4
<1> QED
  BY <1>1, <1>5 DEF FirstNamed

(* emplace stores a target of the list under its own name.                 *)
LEMMA FirstNamedBearsName ==
  ASSUME NEW ts \in Seq(Targets), NEW n,
         n \in {ResolvedName(t) : t \in ElementsOf(ts)}
  PROVE  /\ FirstNamed(ts, n) \in ElementsOf(ts)
         /\ ResolvedName(FirstNamed(ts, n)) = n
BY FirstNamedPosition DEF ElementsOf

(* What is determined is found under the first reading that finds          *)
(* anything.                                                               *)
LEMMA FirstReading ==
  ASSUME NEW t, NEW raw, Hits(t, raw) # {}
  PROVE  \E i \in {1, 2, 3} :
           /\ i \in Hits(t, raw) /\ Readings(t, raw)[i] \in Named
           /\ \A j \in 1..(i - 1) : Readings(t, raw)[j] \notin Named
           /\ Determine(t, raw) = targets_by_resolved_name[Readings(t, raw)[i]]
<1> DEFINE H == Hits(t, raw)
<1>1. /\ DOMAIN Readings(t, raw) = {1, 2, 3}
      /\ H = {i \in {1, 2, 3} : Readings(t, raw)[i] \in Named}
  BY DEF Hits, Readings
<1>2. \E i \in H : \A j \in H : i <= j
  <2>0. H \subseteq {1, 2, 3} /\ H # {}
    BY <1>1
  <2> HIDE DEF H
  <2>1. CASE 1 \in H
    BY <2>0, <2>1
  <2>2. CASE 1 \notin H /\ 2 \in H
    BY <2>0, <2>2
  <2>3. CASE 1 \notin H /\ 2 \notin H
    <3>1. H = {3}
      BY <2>0, <2>3
    <3> QED
      BY <3>1
  <2> QED
    BY <2>1, <2>2, <2>3
<1> DEFINE i == CHOOSE i \in H : \A j \in H : i <= j
<1>3. i \in H /\ \A j \in H : i <= j
  BY <1>2
<1>4. Determine(t, raw) = targets_by_resolved_name[Readings(t, raw)[i]]
  BY DEF Determine
<1> HIDE DEF i
<1>5. i \in {1, 2, 3} /\ Readings(t, raw)[i] \in Named
  BY <1>1, <1>3
<1>6. ASSUME NEW j \in 1..(i - 1)
      PROVE  Readings(t, raw)[j] \notin Named
  <2>1. j \in {1, 2, 3} /\ ~ (i <= j)
    BY <1>5
  <2> QED
    BY <1>1, <1>3, <2>1
<1> QED
  BY <1>3, <1>4, <1>5, <1>6

(* What a name written by the user is found to be is a known target.       *)
LEMMA DeterminedIsKnown ==
  ASSUME ResolutionTypeOK, NEW t, NEW raw, Determine(t, raw) # NoTarget
  PROVE  Determine(t, raw) \in Known
<1>1. Hits(t, raw) # {}
  BY DEF Determine
<1>2. PICK i \in {1, 2, 3} :
        /\ Readings(t, raw)[i] \in Named
        /\ Determine(t, raw) = targets_by_resolved_name[Readings(t, raw)[i]]
  BY <1>1, FirstReading
<1> QED
  BY <1>2 DEF ResolutionTypeOK, Named

(* Known targets are some of the targets, so there are finitely many.      *)
LEMMA KnownAreTargets ==
  ASSUME GivenOK, ResolutionTypeOK
  PROVE  /\ Known \subseteq Targets
         /\ IsFiniteSet(Known)
         /\ \A p \in Projects : ElementsOf(list[p]) \subseteq Targets
<1>1. \A p \in Projects : ElementsOf(list[p]) \subseteq Targets
  BY DEF GivenOK, ElementsOf
<1>2. Known \subseteq Targets
  BY <1>1 DEF Known, ResolutionTypeOK
<1> QED
  BY <1>1, <1>2, FS_Subset, TargetsAssumption

(* A project that was not loaded brings as many targets as its list is     *)
(* long, and none of those that were.                                      *)
LEMMA NewcomersCounted ==
  ASSUME GivenOK, NEW p \in Projects \ processed, processed \subseteq Projects
  PROVE  /\ Cardinality(ElementsOf(list[p])) = Len(list[p])
         /\ ElementsOf(list[p]) \cap Known = {}
<1>1. list[p] \in Seq(Targets)
  BY DEF GivenOK
<1>2. \A i, j \in DOMAIN list[p] : list[p][i] = list[p][j] => i = j
  BY DEF GivenOK
<1>3. Cardinality(ElementsOf(list[p])) = Len(list[p])
  BY <1>1, <1>2, ElementsCounted DEF ElementsOf, Range
<1>4. ASSUME NEW x \in ElementsOf(list[p]), x \in Known
      PROVE  FALSE
  <2>1. PICK i \in DOMAIN list[p] : x = list[p][i]
    BY DEF ElementsOf
  <2>2. PICK q \in processed : x \in ElementsOf(list[q])
    BY <1>4 DEF Known
  <2>3. PICK j \in DOMAIN list[q] : x = list[q][j]
    BY <2>2 DEF ElementsOf
  <2> QED
    BY <2>1, <2>2, <2>3 DEF GivenOK
<1> QED
  BY <1>3, <1>4

-----------------------------------------------------------------------------
(* What the description files give is as the static initialisers left it.  *)
LEMMA InitGiven ==
  ASSUME ResolutionInit
  PROVE  GivenOK
BY ResolutionAssumption DEF ResolutionInit, GivenOK

(* Before anything is loaded nothing is counted or linked.                 *)
LEMMA FreshRInv ==
  ASSUME GivenOK, NothingLoaded
  PROVE  RInv
<1> USE DEF NothingLoaded
<1>1. Known = {}
  BY DEF Known
<1>2. ResolutionTypeOK
  <2>1. DOMAIN targets_by_resolved_name = {}
    OBVIOUS
  <2>2. deps \in [Targets -> Seq(Targets)]
    OBVIOUS
  <2> QED
    BY <2>1, <2>2 DEF ResolutionTypeOK, GivenOK
<1>3. UnresolvedCounts
  BY <1>1, FS_EmptySet DEF UnresolvedCounts
<1> QED
  BY <1>2, <1>3 DEF RInv, NoLinkMissing

(* The names of targets stay what they are.                                *)
LEMMA GivenStays ==
  ASSUME UNCHANGED given
  PROVE  /\ GivenOK => GivenOK'
         /\ \A t : ResolvedName(t)' = ResolvedName(t)
BY DEF given, GivenOK, ResolvedName, ResolvePath, InProject

(* process_project of a project that was not loaded yet.                   *)
LEMMA ProcessProjectKeeps ==
  ASSUME RInv, NEW p \in Projects \ processed, ProcessProject(p)
  PROVE  RInv'
<1> USE DEF ProcessProject
<1>1. GivenOK' /\ \A t : ResolvedName(t)' = ResolvedName(t)
  BY GivenStays DEF RInv
<1>2. list' = list
  BY DEF given
<1>3. Known' = Known \cup ElementsOf(list[p])
  BY <1>2 DEF Known
<1>4. /\ Cardinality(ElementsOf(list[p])) = Len(list[p])
      /\ ElementsOf(list[p]) \cap Known = {}
  BY NewcomersCounted DEF RInv, ResolutionTypeOK
<1>5. list[p] \in Seq(Targets)
  BY DEF RInv, GivenOK
<1>6. ResolutionTypeOK'
  <2>1. ASSUME NEW n \in Named \cup NamesOf(p)
        PROVE  Found(p, n) \in {t \in Known' : ResolvedName(t)' = n}
    <3>1. CASE n \in Named
      BY <1>1, <1>3, <3>1 DEF Found, RInv, ResolutionTypeOK, Named
    <3>2. CASE n \notin Named
      <4>1. n \in {ResolvedName(t) : t \in ElementsOf(list[p])}
        BY <3>2 DEF NamesOf
      <4> QED
        BY <1>1, <1>3, <1>5, <3>2, <4>1, FirstNamedBearsName DEF Found
    <3> QED
      BY <3>1, <3>2
  <2>2. \A n \in DOMAIN targets_by_resolved_name' :
          targets_by_resolved_name'[n] \in {t \in Known' : ResolvedName(t)' = n}
    BY <2>1
  <2>3. unresolved' \in Nat
    BY <1>5 DEF UnresolvedFrom, RInv, ResolutionTypeOK
  <2> QED
    BY <1>2, <2>2, <2>3 DEF RInv, ResolutionTypeOK
<1>7. UnresolvedCounts'
  <2> DEFINE A == Known \ resolved
             B == ElementsOf(list[p])
  <2>1. IsFiniteSet(A) /\ IsFiniteSet(B)
    BY KnownAreTargets, FS_Subset, TargetsAssumption DEF RInv
  <2>2. Known' \ resolved' = A \cup B /\ A \cap B = {}
    BY <1>3, <1>4 DEF RInv
  <2>3. Cardinality(A) \in Nat /\ Cardinality(B) \in Nat /\ Cardinality({}) = 0
    BY <2>1, FS_CardinalityType, FS_EmptySet
  <2>4. Cardinality(A \cup B) = Cardinality(A) + Cardinality(B)
    <3> HIDE DEF A, B
    <3>1. Cardinality(A \cup B) = Cardinality(A) + Cardinality(B) - Cardinality(A \cap B)
      BY <2>1, FS_Union
    <3>2. Cardinality(A \cap B) = 0
      BY <2>2, <2>3
    <3> QED
      BY <2>3, <3>1, <3>2
  <2> QED
    BY <1>4, <2>2, <2>4 DEF UnresolvedCounts, UnresolvedFrom, RInv
<1> QED
  BY <1>1, <1>3, <1>6, <1>7 DEF RInv, NoLinkMissing

-----------------------------------------------------------------------------
(* What a resolved target depends on is a sequence of known targets, and   *)
(* the target is linked to each of them.                                   *)
LEMMA DeterminedIsRight ==
  ASSUME RInv, NEW t \in Targets, Resolvable(t)
  PROVE  /\ Determined(t) \in Seq(Targets)
         /\ ElementsOf(Determined(t)) = LinkedBy(t)
<1> DEFINE D == Determined(t)
           raws == traits[t].raw_deps
<1>1. DOMAIN D = 1..Len(raws) /\ Len(raws) \in Nat
  <2>1. raws \in Seq(ElementsOf(raws))
    BY DEF RInv, GivenOK
  <2> QED
    BY <2>1 DEF Determined
<1>2. \A i \in DOMAIN D : D[i] # NoTarget
  BY DEF Resolvable, ElementsOf
<1>3. \A i \in DOMAIN D : D[i] \in Known
  BY <1>2, DeterminedIsKnown DEF Determined, RInv
<1>4. D = [i \in 1..Len(raws) |-> D[i]]
  BY <1>1 DEF Determined
<1> HIDE DEF D, raws
<1>5. D \in Seq(Targets)
  <2>1. D \in [1..Len(raws) -> Targets]
    BY <1>1, <1>3, <1>4, KnownAreTargets DEF RInv
  <2> QED
    BY <1>1, <2>1
<1>6. \A i \in DOMAIN D : \A j \in 1..i : D[j] # NoTarget
  BY <1>1, <1>2
<1>7. ElementsOf(D) = LinkedBy(t)
  BY <1>6 DEF ElementsOf, LinkedBy, D
<1> QED
  BY <1>5, <1>7 DEF D

(* resolve_deps_for_impl of any targets left to resolve, whatever of them  *)
(* cannot be resolved.                                                     *)
LEMMA ResolveKeeps ==
  ASSUME RInv, NEW S \in SUBSET (Known \ resolved), Resolve(S),
         all_resolved' \in BOOLEAN
  PROVE  RInv'
<1> DEFINE found == {t \in S : Resolvable(t)}
<1> USE DEF Resolve
<1>1. GivenOK' /\ \A t : ResolvedName(t)' = ResolvedName(t)
  BY GivenStays DEF RInv
<1>2. Known' = Known
  BY DEF Known, given
<1>3. /\ Known \subseteq Targets /\ IsFiniteSet(Known)
      /\ found \subseteq Known \ resolved
  BY KnownAreTargets DEF RInv
<1>4. resolved' \subseteq Known'
  BY <1>2, <1>3 DEF RInv
<1>5. UnresolvedCounts' /\ unresolved' \in Nat
  <2> DEFINE A == Known \ resolved
  <2>1. IsFiniteSet(A) /\ A \cap found = found
    BY <1>3, FS_Subset
  <2>2. /\ IsFiniteSet(A \ found) /\ Cardinality(A \ found) \in Nat
        /\ Cardinality(A \ found) = Cardinality(A) - Cardinality(found)
    <3> HIDE DEF A, found
    <3> QED BY <2>1, FS_Difference, FS_CardinalityType
  <2>3. Known' \ resolved' = A \ found
    BY <1>2
  <2>4. unresolved' = Cardinality(A) - Cardinality(found)
    BY DEF RInv, UnresolvedCounts
  <2> QED
    BY <2>2, <2>3, <2>4 DEF UnresolvedCounts
<1>6. ASSUME NEW t \in found
      PROVE  Determined(t) \in Seq(Targets) /\ ElementsOf(Determined(t)) = LinkedBy(t)
  BY <1>3, DeterminedIsRight
<1>7. deps' \in [Targets -> Seq(Targets)]
  BY <1>6 DEF RInv, ResolutionTypeOK
<1>8. dep_of' \in [Targets -> SUBSET Targets]
  BY <1>3 DEF Links, RInv, ResolutionTypeOK
<1>9. ResolutionTypeOK'
  <2>1. \A n \in DOMAIN targets_by_resolved_name' :
          targets_by_resolved_name'[n] \in {t \in Known' : ResolvedName(t)' = n}
    BY <1>1, <1>2 DEF RInv, ResolutionTypeOK
  <2>2. resolved' \subseteq Targets
    BY <1>2, <1>3, <1>4
  <2> QED
    BY <1>1, <1>5, <1>7, <1>8, <2>1, <2>2 DEF RInv, ResolutionTypeOK, GivenOK
<1>10. NoLinkMissing'
  <2> SUFFICES ASSUME NEW t \in resolved', NEW d \in ElementsOf(deps'[t])
               PROVE  t \in dep_of'[d]
    BY DEF NoLinkMissing, ElementsOf
  <2>1. t \in Targets /\ d \in Targets
    BY <1>7, <1>9 DEF ResolutionTypeOK, ElementsOf
  <2>2. dep_of'[d] = dep_of[d] \cup {u \in S : d \in LinkedBy(u)}
    BY <2>1 DEF Links
  <2>3. CASE t \in found
    BY <1>6, <2>1, <2>2, <2>3
  <2>4. CASE t \notin found
    <3>1. t \in resolved /\ deps'[t] = deps[t]
      BY <2>1, <2>4
    <3> QED
      BY <2>2, <3>1 DEF RInv, NoLinkMissing
  <2> QED
    BY <2>3, <2>4
<1> QED
  BY <1>1, <1>4, <1>5, <1>9, <1>10 DEF RInv

-----------------------------------------------------------------------------
(* A stuttering step.                                                      *)
LEMMA StutteringKeepsResolution == RInv /\ UNCHANGED resolutionVars => RInv'
<1> SUFFICES ASSUME RInv, UNCHANGED resolutionVars
             PROVE  RInv'
  OBVIOUS
<1> USE DEF resolutionVars, RInv
<1>1. GivenOK' /\ \A t : ResolvedName(t)' = ResolvedName(t)
  BY GivenStays
<1>2. Known' = Known
  BY DEF Known, given
<1>3. ResolutionTypeOK'
  BY <1>1, <1>2 DEF ResolutionTypeOK, given
<1>4. UnresolvedCounts' /\ NoLinkMissing'
  BY <1>2 DEF UnresolvedCounts, NoLinkMissing
<1> QED
  BY <1>1, <1>2, <1>3, <1>4

(* resolve_deps_for_all, too, tries only what is known and not resolved.   *)
LEMMA AllAreTried ==
  ASSUME ResolveDepsForAll
  PROVE  /\ \E S \in SUBSET (Known \ resolved) : Resolve(S)
         /\ all_resolved' \in BOOLEAN
<1> DEFINE S == IF unresolved = 0 THEN {} ELSE Known \ resolved
<1>1. S \in SUBSET (Known \ resolved) /\ Resolve(S)
  BY DEF ResolveDepsForAll
<1>2. all_resolved' \in BOOLEAN
  BY DEF ResolveDepsForAll
<1> HIDE DEF S
<1> QED
  BY <1>1, <1>2

(* Every step keeps the invariant.                                         *)
LEMMA ResolutionKeeps ==
  ASSUME RInv, [ResolutionNext]_resolutionVars
  PROVE  RInv'
<1>1. CASE UNCHANGED resolutionVars
  BY <1>1, StutteringKeepsResolution
<1>2. CASE \E p \in Projects \ processed : ProcessProject(p)
  BY <1>2, ProcessProjectKeeps
<1>3. CASE \E t \in Targets : ResolveDepsFor(t)
  <2> PICK t \in Targets : ResolveDepsFor(t)
    BY <1>3
  <2> QED
    BY ResolveKeeps DEF ResolveDepsFor, RInv, ResolutionTypeOK
<1>4. CASE ResolveDepsForAll
  BY <1>4, AllAreTried, ResolveKeeps
<1> QED
  BY <1>1, <1>2, <1>3, <1>4 DEF ResolutionNext

(* The strengthened invariant holds of every reachable state, whatever the *)
(* order in which projects are loaded and targets resolved.                *)
THEOREM ResolutionInvariant == ResolutionSpec => []RInv
<1>1. ResolutionInit => RInv
  BY InitGiven, FreshRInv DEF ResolutionInit
<1>2. RInv /\ [ResolutionNext]_resolutionVars => RInv'
  BY ResolutionKeeps
<1> QED
  BY <1>1, <1>2, PTL DEF ResolutionSpec

(* Variables keep their types: a dependency found is always a target that  *)
(* is known, under the name it was asked for.                              *)
THEOREM TypeCorrect == ResolutionSpec => []ResolutionTypeOK
BY ResolutionInvariant, PTL DEF RInv

(* unresolved is the number of known targets that are not resolved.        *)
THEOREM CounterIsRight == ResolutionSpec => []UnresolvedCounts
BY ResolutionInvariant, PTL DEF RInv

(* Whatever a resolved target depends on is linked back to it.             *)
THEOREM LinksComplete == ResolutionSpec => []NoLinkMissing
BY ResolutionInvariant, PTL DEF RInv

-----------------------------------------------------------------------------
(* What names mean.                                                        *)

(* A name finds the first target of that name in the list of a project     *)
(* that was processed, and every name of such a project finds something.   *)
NamesRight ==
  /\ \A p \in processed : NamesOf(p) \subseteq Named
  /\ \A n \in Named : \E p \in processed :
       n \in NamesOf(p) /\ targets_by_resolved_name[n] = FirstNamed(list[p], n)

(* Every mention of a resolved target finds something, and what was found  *)
(* when it was resolved is what its author meant.                          *)
ResolvedFound ==
  \A t \in resolved : \A raw \in ElementsOf(traits[t].raw_deps) : Hits(t, raw) # {}

(* A link, though an attempt that failed has made it, leads from something *)
(* that its target mentions.                                               *)
LinksMeant ==
  Unambiguous =>
    \A t, d \in Targets : t \in dep_of[d] =>
      \E raw \in ElementsOf(traits[t].raw_deps) : Meant(Projects, t, raw) = {d}

(* The second inductive invariant.  LoadOrderIrrelevant needs that a name  *)
(* is found under the project that bears it, LinksMirrorDeps that links of *)
(* failed attempts mean what the links of successful ones do.              *)
MInv ==
  /\ NamesRight
  /\ ResolvedFound
  /\ LoadOrderIrrelevant
  /\ LinksMeant

(* What the description files mean does not change.                        *)
LEMMA MeaningStays ==
  ASSUME UNCHANGED given
  PROVE  /\ \A ts, n : FirstNamed(ts, n)' = FirstNamed(ts, n)
         /\ \A p : NamesOf(p)' = NamesOf(p)
         /\ \A t, raw : Readings(t, raw)' = Readings(t, raw)
         /\ \A P, n : Bearers(P, n)' = Bearers(P, n)
         /\ \A P, t, raw : Meant(P, t, raw)' = Meant(P, t, raw)
         /\ Unambiguous' = Unambiguous
<1>1. kind' = kind /\ traits' = traits /\ list' = list
  BY DEF given
<1>2. \A ts, n : FirstNamed(ts, n)' = FirstNamed(ts, n)
  BY <1>1 DEF FirstNamed, ResolvedName, ResolvePath, InProject
<1>3. \A p : NamesOf(p)' = NamesOf(p)
  BY <1>1 DEF NamesOf, ElementsOf, ResolvedName, ResolvePath, InProject
<1>4. \A t, raw : Readings(t, raw)' = Readings(t, raw)
  BY <1>1 DEF Readings, ResolvePath, InProject
<1>5. \A P, n : Bearers(P, n)' = Bearers(P, n)
  BY <1>1 DEF Bearers, ResolvedName, ResolvePath, InProject
<1>6. \A P, t, raw : Meant(P, t, raw)' = Meant(P, t, raw)
  BY <1>1 DEF Meant, Bearers, Readings, ResolvedName, ResolvePath, InProject
<1>7. Unambiguous' = Unambiguous
  BY <1>1 DEF Unambiguous, NamesOf, ElementsOf, Bearers, Readings, ResolvedName,
              ResolvePath, InProject
<1> QED
  BY <1>2, <1>3, <1>4, <1>5, <1>6, <1>7

(* A name has a bearer exactly if a project has it.                        *)
LEMMA BearersAreNames ==
  ASSUME NEW P, NEW n
  PROVE  /\ \A p \in P : n \in NamesOf(p) <=> \E j \in DOMAIN list[p] : <<p, j>> \in Bearers(P, n)
         /\ Bearers(P, n) # {} <=> \E p \in P : n \in NamesOf(p)
         /\ \A x \in Bearers(P, n) : /\ x = <<x[1], x[2]>> /\ x[1] \in P
                                     /\ x[2] \in DOMAIN list[x[1]]
                                     /\ ResolvedName(list[x[1]][x[2]]) = n
                                     /\ n \in NamesOf(x[1])
<1>1. ASSUME NEW x \in Bearers(P, n)
      PROVE  /\ x = <<x[1], x[2]>> /\ x[1] \in P /\ x[2] \in DOMAIN list[x[1]]
             /\ ResolvedName(list[x[1]][x[2]]) = n /\ n \in NamesOf(x[1])
  <2>1. PICK p \in P : x \in {p} \X DOMAIN list[p]
    BY DEF Bearers
  <2>2. x = <<x[1], x[2]>> /\ x[1] = p /\ x[2] \in DOMAIN list[p]
    BY <2>1
  <2>3. ResolvedName(list[x[1]][x[2]]) = n
    BY DEF Bearers
  <2> QED
    BY <2>2, <2>3 DEF NamesOf, ElementsOf
<1>2. ASSUME NEW p \in P, n \in NamesOf(p)
      PROVE  \E j \in DOMAIN list[p] : <<p, j>> \in Bearers(P, n)
  <2>1. PICK j \in DOMAIN list[p] : ResolvedName(list[p][j]) = n
    BY <1>2 DEF NamesOf, ElementsOf
  <2>2. <<p, j>> \in UNION {{q} \X DOMAIN list[q] : q \in P}
    OBVIOUS
  <2> QED
    BY <2>1, <2>2 DEF Bearers
<1>3. ASSUME NEW p \in P, NEW j \in DOMAIN list[p], <<p, j>> \in Bearers(P, n)
      PROVE  n \in NamesOf(p)
  BY <1>1, <1>3
<1> QED
  BY <1>1, <1>2, <1>3

(* Hits and Determine agree about what is not found.                       *)
LEMMA FoundOrNot ==
  ASSUME ResolutionTypeOK, GivenOK, NEW t, NEW raw
  PROVE  Determine(t, raw) = NoTarget <=> Hits(t, raw) = {}
<1>1. ASSUME Hits(t, raw) # {}
      PROVE  Determine(t, raw) # NoTarget
  <2>1. PICK i \in {1, 2, 3} :
          /\ Readings(t, raw)[i] \in Named
          /\ Determine(t, raw) = targets_by_resolved_name[Readings(t, raw)[i]]
    BY <1>1, FirstReading
  <2>2. Determine(t, raw) \in Known
    BY <2>1 DEF ResolutionTypeOK, Named
  <2> QED
    BY <2>2, KnownAreTargets, TargetsAssumption
<1>2. ASSUME Hits(t, raw) = {}
      PROVE  Determine(t, raw) = NoTarget
  BY <1>2 DEF Determine
<1> QED
  BY <1>1, <1>2

(* Once anything is found for a mention, it is what the author meant.      *)
LEMMA FoundIsMeant ==
  ASSUME GivenOK, ResolutionTypeOK, NamesRight, Unambiguous,
         NEW t \in Known, NEW raw \in ElementsOf(traits[t].raw_deps),
         Hits(t, raw) # {}
  PROVE  Meant(Projects, t, raw) = {Determine(t, raw)}
<1> DEFINE m == Readings(t, raw)
           B(n) == Bearers(Projects, n)
<1>1. PICK i \in {1, 2, 3} :
        /\ m[i] \in Named
        /\ \A j \in 1..(i - 1) : m[j] \notin Named
        /\ Determine(t, raw) = targets_by_resolved_name[m[i]]
  BY FirstReading
<1>2. /\ DOMAIN m = {1, 2, 3} /\ m[1] = raw /\ m[2] = InProject(traits[t].project, raw)
      /\ \A j \in {1, 2, 3} : m[j] \in ElementsOf(m)
  BY DEF Readings, ElementsOf
<1>3. t \in Targets /\ \E p \in processed : t \in ElementsOf(list[p])
  BY KnownAreTargets DEF Known
<1>4. processed \subseteq Projects
  BY DEF ResolutionTypeOK
<1>5. PICK p \in processed :
        m[i] \in NamesOf(p) /\ targets_by_resolved_name[m[i]] = FirstNamed(list[p], m[i])
  BY <1>1 DEF NamesRight
<1>6. p \in Projects /\ list[p] \in Seq(Targets)
  BY <1>4 DEF GivenOK
<1>7. PICK k \in 1..Len(list[p]) :
        /\ Determine(t, raw) = list[p][k] /\ ResolvedName(list[p][k]) = m[i]
        /\ \A j \in 1..(k - 1) : ResolvedName(list[p][j]) # m[i]
  BY <1>1, <1>5, <1>6, FirstNamedPosition DEF NamesOf
<1>8. DOMAIN list[p] = 1..Len(list[p]) /\ Len(list[p]) \in Nat /\ k \in DOMAIN list[p]
  BY <1>6
<1> HIDE DEF m
<1>9. <<p, k>> \in B(m[i]) /\ B(m[i]) # {}
  <2>1. <<p, k>> \in UNION {{q} \X DOMAIN list[q] : q \in Projects}
    BY <1>6, <1>8
  <2> QED
    BY <1>7, <2>1 DEF Bearers
<1>10. ASSUME NEW y \in B(m[i])
       PROVE  /\ y[1] = p /\ y = <<p, y[2]>> /\ y[2] \in 1..Len(list[p]) /\ k <= y[2]
  <2>1. /\ y = <<y[1], y[2]>> /\ y[1] \in Projects
        /\ y[2] \in DOMAIN list[y[1]] /\ ResolvedName(list[y[1]][y[2]]) = m[i]
        /\ m[i] \in NamesOf(y[1])
    BY BearersAreNames
  <2>2. y[1] = p
    BY <1>5, <1>6, <2>1 DEF Unambiguous
  <2>3. y[2] \in 1..Len(list[p]) /\ ResolvedName(list[p][y[2]]) = m[i]
    BY <1>8, <2>1, <2>2
  <2>4. y[2] \notin 1..(k - 1)
    BY <1>7, <2>3
  <2>5. k <= y[2]
    BY <1>8, <2>3, <2>4
  <2> QED
    BY <2>1, <2>2, <2>3, <2>5
<1>11. ASSUME NEW j \in 1..(i - 1)
       PROVE  B(m[j]) = {}
  <2> SUFFICES ASSUME B(m[j]) # {}
               PROVE  FALSE
    OBVIOUS
  <2>0. m[j] \notin Named /\ j \in {1, 2}
    BY <1>1
  <2>1. CASE j = 1
    <3>1. /\ raw \in {n \in ElementsOf(m) : B(n) # {}}
          /\ m[i] \in {n \in ElementsOf(m) : B(n) # {}}
      BY <1>2, <1>9, <2>1
    <3>2. m[i] = raw
      BY <1>3, <3>1 DEF Unambiguous, m
    <3> QED
      BY <1>1, <1>2, <2>0, <2>1, <3>2
  <2>2. CASE j = 2
    <3>1. PICK q \in Projects : InProject(traits[t].project, raw) \in NamesOf(q)
      BY <1>2, <2>2, BearersAreNames
    <3>2. PICK o \in processed : t \in ElementsOf(list[o])
      BY <1>3
    <3>3. q = o
      BY <1>4, <3>1, <3>2 DEF Unambiguous
    <3> QED
      BY <1>2, <2>0, <2>2, <3>1, <3>2, <3>3 DEF NamesRight
  <2> QED
    BY <2>0, <2>1, <2>2
<1>12. ASSUME NEW y, NEW h \in DOMAIN m, y \in B(m[h]),
              \A j \in 1..(h - 1) : B(m[j]) = {},
              \A z \in B(m[h]) : y[2] <= z[2]
       PROVE  y = <<p, k>>
  <2>1. h = i
    <3> HIDE DEF B
    <3>0. i \in {1, 2, 3} /\ h \in {1, 2, 3}
      BY <1>2
    <3>1. h \notin 1..(i - 1)
      BY <1>11, <1>12
    <3>2. i \notin 1..(h - 1)
      BY <1>9, <1>12
    <3> QED
      BY <3>0, <3>1, <3>2
  <2>2. y[1] = p /\ y = <<p, y[2]>> /\ y[2] \in 1..Len(list[p]) /\ k <= y[2]
    BY <1>10, <1>12, <2>1
  <2>3. y[2] <= <<p, k>>[2]
    BY <1>9, <1>12, <2>1
  <2>4. y[2] = k
    BY <1>8, <2>2, <2>3
  <2> QED
    BY <2>2, <2>4
<1> DEFINE Y == {y \in UNION {B(m[h]) : h \in DOMAIN m} :
                   \E h \in DOMAIN m : /\ y \in B(m[h])
                                       /\ \A j \in 1..(h - 1) : B(m[j]) = {}
                                       /\ \A z \in B(m[h]) : y[2] <= z[2]}
<1>13. <<p, k>> \in Y
  <2>1. i \in DOMAIN m
    BY <1>2
  <2>2. \A z \in B(m[i]) : <<p, k>>[2] <= z[2]
    BY <1>10
  <2> HIDE DEF B
  <2> QED
    BY <1>9, <1>11, <2>1, <2>2
<1>14. Y = {<<p, k>>}
  <2> HIDE DEF B
  <2> QED
    BY <1>12, <1>13
<1>15. Meant(Projects, t, raw) = {list[x[1]][x[2]] : x \in Y}
  BY DEF Meant, m
<1> HIDE DEF Y
<1> QED
  BY <1>7, <1>14, <1>15

-----------------------------------------------------------------------------
(* Before anything is loaded there is nothing to mean.                     *)
LEMMA FreshMInv ==
  ASSUME NothingLoaded
  PROVE  MInv
BY DEF NothingLoaded, MInv, NamesRight, ResolvedFound, LoadOrderIrrelevant,
       LinksMeant, Named

(* What a resolved target mentions is still what its author meant.         *)
LEMMA MeantStays ==
  ASSUME UNCHANGED <<given, resolved, deps, dep_of>>, LoadOrderIrrelevant, LinksMeant
  PROVE  LoadOrderIrrelevant' /\ LinksMeant'
<1>1. traits' = traits
  BY DEF given
<1>2. /\ \A t, raw : Meant(Projects, t, raw)' = Meant(Projects, t, raw)
      /\ Unambiguous' = Unambiguous
  BY MeaningStays
<1>3. LoadOrderIrrelevant'
  BY <1>1, <1>2 DEF LoadOrderIrrelevant
<1>4. LinksMeant'
  BY <1>1, <1>2 DEF LinksMeant, ElementsOf
<1> QED
  BY <1>3, <1>4

(* process_project adds names and takes none away.                         *)
LEMMA ProcessProjectKeepsMeaning ==
  ASSUME RInv, MInv, NEW p \in Projects \ processed, ProcessProject(p)
  PROVE  MInv'
<1> USE DEF ProcessProject
<1>1. /\ \A q : NamesOf(q)' = NamesOf(q)
      /\ \A ts, n : FirstNamed(ts, n)' = FirstNamed(ts, n)
      /\ \A t, raw : Readings(t, raw)' = Readings(t, raw)
      /\ list' = list /\ traits' = traits
  BY MeaningStays DEF given
<1>2. Named' = Named \cup NamesOf(p)
  BY DEF Named
<1>3. NamesRight'
  <2>1. \A q \in processed' : NamesOf(q)' \subseteq Named'
    BY <1>1, <1>2 DEF MInv, NamesRight
  <2>2. ASSUME NEW n \in Named'
        PROVE  \E q \in processed' :
                 n \in NamesOf(q)' /\ targets_by_resolved_name'[n] = FirstNamed(list[q], n)
    <3>1. targets_by_resolved_name'[n] = Found(p, n)
      BY <1>2, <2>2
    <3>2. CASE n \in Named
      <4>1. PICK q \in processed :
              n \in NamesOf(q) /\ targets_by_resolved_name[n] = FirstNamed(list[q], n)
        BY <3>2 DEF MInv, NamesRight
      <4> QED
        BY <1>1, <3>1, <3>2, <4>1 DEF Found
    <3>3. CASE n \notin Named
      BY <1>1, <1>2, <2>2, <3>1, <3>3 DEF Found
    <3> QED
      BY <3>2, <3>3
  <2>3. \A q, n : FirstNamed(list[q], n)' = FirstNamed(list[q], n)
    BY <1>1 DEF FirstNamed, ResolvedName, ResolvePath, InProject, given
  <2> QED
    BY <2>1, <2>2, <2>3 DEF NamesRight
<1>4. ResolvedFound'
  <2>1. ASSUME NEW t, NEW raw, Hits(t, raw) # {}
        PROVE  Hits(t, raw)' # {}
    BY <1>1, <1>2, <2>1 DEF Hits
  <2> QED
    BY <1>1, <2>1 DEF ResolvedFound, MInv, ElementsOf
<1>5. LoadOrderIrrelevant' /\ LinksMeant'
  BY MeantStays DEF MInv
<1> QED
  BY <1>3, <1>4, <1>5 DEF MInv

(* resolve_deps_for_impl finds what the author meant, for attempts that    *)
(* fail halfway too.                                                       *)
LEMMA ResolveKeepsMeaning ==
  ASSUME RInv, MInv, NEW S \in SUBSET (Known \ resolved), Resolve(S)
  PROVE  MInv'
<1> DEFINE found == {t \in S : Resolvable(t)}
<1> USE DEF Resolve
<1>1. /\ \A q : NamesOf(q)' = NamesOf(q)
      /\ \A t, raw : Readings(t, raw)' = Readings(t, raw)
      /\ \A t, raw : Meant(Projects, t, raw)' = Meant(Projects, t, raw)
      /\ Unambiguous' = Unambiguous
      /\ list' = list /\ traits' = traits /\ Named' = Named
  BY MeaningStays DEF given, Named
<1>2. ResolutionTypeOK /\ GivenOK /\ Known \subseteq Targets
  BY KnownAreTargets DEF RInv
<1>3. NamesRight'
  <2>1. \A q, n : FirstNamed(list[q], n)' = FirstNamed(list[q], n)
    BY <1>1 DEF FirstNamed, ResolvedName, ResolvePath, InProject, given
  <2> QED
    BY <1>1, <2>1 DEF NamesRight, MInv
<1>4. \A t, raw : Hits(t, raw)' = Hits(t, raw)
  BY <1>1 DEF Hits
<1>5. ASSUME NEW t \in S, NEW i \in DOMAIN Determined(t), Determined(t)[i] # NoTarget
      PROVE  /\ traits[t].raw_deps[i] \in ElementsOf(traits[t].raw_deps)
             /\ Hits(t, traits[t].raw_deps[i]) # {}
             /\ Unambiguous =>
                  Meant(Projects, t, traits[t].raw_deps[i]) = {Determined(t)[i]}
  <2>1. /\ i \in DOMAIN traits[t].raw_deps
        /\ Determined(t)[i] = Determine(t, traits[t].raw_deps[i])
    BY DEF Determined
  <2>2. traits[t].raw_deps[i] \in ElementsOf(traits[t].raw_deps)
    BY <2>1 DEF ElementsOf
  <2>3. Hits(t, traits[t].raw_deps[i]) # {}
    BY <1>2, <1>5, <2>1, FoundOrNot
  <2>4. t \in Known
    OBVIOUS
  <2> QED
    BY <1>2, <2>1, <2>2, <2>3, <2>4, FoundIsMeant DEF MInv
<1>6. ASSUME NEW t \in found
      PROVE  /\ DOMAIN Determined(t) = DOMAIN traits[t].raw_deps
             /\ \A i \in DOMAIN Determined(t) : Determined(t)[i] # NoTarget
  BY DEF Determined, Resolvable, ElementsOf
<1>7. ResolvedFound'
  <2> SUFFICES ASSUME NEW t \in resolved', NEW raw \in ElementsOf(traits[t].raw_deps)
               PROVE  Hits(t, raw) # {}
    BY <1>1, <1>4 DEF ResolvedFound, ElementsOf
  <2>1. CASE t \in resolved
    BY <2>1 DEF MInv, ResolvedFound
  <2>2. CASE t \in found
    <3>1. PICK i \in DOMAIN traits[t].raw_deps : raw = traits[t].raw_deps[i]
      BY DEF ElementsOf
    <3> QED
      BY <1>5, <1>6, <2>2, <3>1
  <2> QED
    BY <2>1, <2>2
<1>8. LoadOrderIrrelevant'
  <2> SUFFICES ASSUME Unambiguous, NEW t \in resolved'
               PROVE  /\ DOMAIN deps'[t] = DOMAIN traits[t].raw_deps
                      /\ \A i \in DOMAIN deps'[t] :
                           Meant(Projects, t, traits[t].raw_deps[i]) = {deps'[t][i]}
    BY <1>1 DEF LoadOrderIrrelevant
  <2>1. t \in Targets
    BY <1>2 DEF ResolutionTypeOK
  <2>2. CASE t \in found
    <3>1. deps'[t] = Determined(t)
      BY <2>1, <2>2
    <3> QED
      BY <1>5, <1>6, <2>2, <3>1
  <2>3. CASE t \notin found
    <3>1. t \in resolved /\ deps'[t] = deps[t]
      BY <2>1, <2>3
    <3> QED
      BY <3>1 DEF MInv, LoadOrderIrrelevant
  <2> QED
    BY <2>2, <2>3
<1>9. LinksMeant'
  <2> SUFFICES ASSUME Unambiguous, NEW t \in Targets, NEW d \in Targets, t \in dep_of'[d]
               PROVE  \E raw \in ElementsOf(traits[t].raw_deps) :
                        Meant(Projects, t, raw) = {d}
    BY <1>1 DEF LinksMeant, ElementsOf
  <2>1. t \in dep_of[d] \/ (t \in S /\ d \in LinkedBy(t))
    BY DEF Links
  <2>2. CASE t \in dep_of[d]
    BY <2>2 DEF MInv, LinksMeant
  <2>3. CASE t \in S /\ d \in LinkedBy(t)
    <3>1. PICK i \in DOMAIN Determined(t) :
            d = Determined(t)[i] /\ \A j \in 1..i : Determined(t)[j] # NoTarget
      BY <2>3 DEF LinkedBy
    <3>2. Determined(t)[i] # NoTarget
      BY <3>1, TargetsAssumption
    <3> QED
      BY <1>5, <2>3, <3>1, <3>2
  <2> QED
    BY <2>1, <2>2, <2>3
<1> QED
  BY <1>3, <1>7, <1>8, <1>9 DEF MInv

(* A stuttering step.                                                      *)
LEMMA StutteringKeepsMeaning ==
  ASSUME MInv, UNCHANGED resolutionVars
  PROVE  MInv'
<1> USE DEF resolutionVars
<1>1. /\ \A q : NamesOf(q)' = NamesOf(q)
      /\ \A t, raw : Readings(t, raw)' = Readings(t, raw)
      /\ list' = list /\ traits' = traits /\ Named' = Named
  BY MeaningStays DEF given, Named
<1>2. \A q, n : FirstNamed(list[q], n)' = FirstNamed(list[q], n)
  BY DEF FirstNamed, ResolvedName, ResolvePath, InProject, given
<1>3. NamesRight'
  BY <1>1, <1>2 DEF NamesRight, MInv
<1>4. ResolvedFound'
  BY <1>1 DEF ResolvedFound, MInv, ElementsOf, Hits
<1>5. LoadOrderIrrelevant' /\ LinksMeant'
  BY MeantStays DEF MInv
<1> QED
  BY <1>3, <1>4, <1>5 DEF MInv

(* Every step keeps what names mean.                                       *)
LEMMA ResolutionKeepsMeaning ==
  ASSUME RInv, MInv, [ResolutionNext]_resolutionVars
  PROVE  MInv'
<1>1. CASE UNCHANGED resolutionVars
  BY <1>1, StutteringKeepsMeaning
<1>2. CASE \E p \in Projects \ processed : ProcessProject(p)
  BY <1>2, ProcessProjectKeepsMeaning
<1>3. CASE \E t \in Targets : ResolveDepsFor(t)
  <2> PICK t \in Targets : ResolveDepsFor(t)
    BY <1>3
  <2> QED
    BY ResolveKeepsMeaning DEF ResolveDepsFor
<1>4. CASE ResolveDepsForAll
  BY <1>4, AllAreTried, ResolveKeepsMeaning
<1> QED
  BY <1>1, <1>2, <1>3, <1>4 DEF ResolutionNext

(* What names mean is kept by any order of loading and resolving.          *)
THEOREM MeaningInvariant == ResolutionSpec => [](RInv /\ MInv)
<1>1. ResolutionInit => MInv
  BY FreshMInv DEF ResolutionInit
<1>2. RInv /\ MInv /\ [ResolutionNext]_resolutionVars => MInv'
  BY ResolutionKeepsMeaning
<1> QED
  BY <1>1, <1>2, ResolutionInvariant, PTL DEF ResolutionSpec

(* Where names are unambiguous a resolved target depends on what its       *)
(* author meant, whatever was loaded when it was resolved.                 *)
THEOREM LoadingOrderIrrelevant == ResolutionSpec => []LoadOrderIrrelevant
<1>1. MInv => LoadOrderIrrelevant
  BY DEF MInv
<1> QED
  BY <1>1, MeaningInvariant, PTL

(* With unambiguous names the links of attempts that failed are links that *)
(* the attempt that succeeds makes.                                        *)
LEMMA MirroredIfMeant ==
  ASSUME RInv, MInv
  PROVE  LinksMirrorDeps
<1>1. NoLinkMissing
  BY DEF RInv
<1>2. ASSUME Unambiguous, NEW t \in resolved, NEW d \in Targets, t \in dep_of[d]
      PROVE  d \in ElementsOf(deps[t])
  <2>1. t \in Targets
    BY DEF RInv, ResolutionTypeOK
  <2>2. PICK raw \in ElementsOf(traits[t].raw_deps) : Meant(Projects, t, raw) = {d}
    BY <1>2, <2>1 DEF MInv, LinksMeant
  <2>3. PICK i \in DOMAIN traits[t].raw_deps : raw = traits[t].raw_deps[i]
    BY DEF ElementsOf
  <2>4. i \in DOMAIN deps[t] /\ {d} = {deps[t][i]}
    BY <1>2, <2>2, <2>3 DEF MInv, LoadOrderIrrelevant
  <2> QED
    BY <2>4 DEF ElementsOf
<1> QED
  BY <1>1, <1>2 DEF LinksMirrorDeps, NoStaleLink

(* The two directions of a link agree, although dep_of keeps the links of  *)
(* attempts that failed.                                                   *)
THEOREM LinksMirror == ResolutionSpec => []LinksMirrorDeps
<1>1. RInv /\ MInv => LinksMirrorDeps
  BY MirroredIfMeant
<1> QED
  BY <1>1, MeaningInvariant, PTL

-----------------------------------------------------------------------------
(* A set of positions of lists that is not empty has one at a least index. *)
LEMMA LeastIndex ==
  ASSUME NEW B, B # {}, \A x \in B : x[2] \in Nat \ {0}
  PROVE  \E y \in B : \A z \in B : y[2] <= z[2]
<1>1. PICK x \in B : TRUE
  OBVIOUS
<1> DEFINE n == x[2]
           I == {k \in 1..n : \E z \in B : z[2] = k}
<1>2. n \in Nat /\ I \in SUBSET (1..n) /\ n \in I
  OBVIOUS
<1>3. PICK k \in I : \A j \in 1..(k - 1) : j \notin I
  <2> HIDE DEF n, I
  <2> QED
    BY <1>2, FirstPosition
<1>4. PICK y \in B : y[2] = k
  OBVIOUS
<1>5. ASSUME NEW z \in B
      PROVE  k <= z[2]
  <2> SUFFICES ASSUME z[2] < k
               PROVE  FALSE
    BY <1>2
  <2>1. z[2] \in 1..(k - 1) /\ z[2] \in I
    BY <1>2
  <2> QED
    BY <1>3, <2>1
<1> QED
  BY <1>4, <1>5

(* A mention finds something among the loaded targets exactly if it means  *)
(* something there.                                                        *)
LEMMA FoundIffMeansSomething ==
  ASSUME GivenOK, ResolutionTypeOK, NamesRight, NEW t, NEW raw
  PROVE  Hits(t, raw) # {} <=> Meant(processed, t, raw) # {}
<1> DEFINE m == Readings(t, raw)
           B(n) == Bearers(processed, n)
           Y == {y \in UNION {B(m[h]) : h \in DOMAIN m} :
                   \E h \in DOMAIN m : /\ y \in B(m[h])
                                       /\ \A j \in 1..(h - 1) : B(m[j]) = {}
                                       /\ \A z \in B(m[h]) : y[2] <= z[2]}
<1>1. DOMAIN m = {1, 2, 3}
  BY DEF Readings
<1>2. \A n : n \in Named <=> B(n) # {}
  BY BearersAreNames DEF NamesRight
<1>3. Meant(processed, t, raw) = {list[x[1]][x[2]] : x \in Y}
  BY DEF Meant
<1>4. ASSUME Hits(t, raw) # {}
      PROVE  Y # {}
  <2>1. PICK i \in {1, 2, 3} : m[i] \in Named /\ \A j \in 1..(i - 1) : m[j] \notin Named
    BY <1>4, FirstReading
  <2>2. \A x \in B(m[i]) : x[2] \in Nat \ {0}
    <3>1. ASSUME NEW x \in B(m[i])
          PROVE  x[2] \in Nat \ {0}
      <4>1. x[1] \in Projects /\ x[2] \in DOMAIN list[x[1]]
        BY BearersAreNames DEF ResolutionTypeOK
      <4>2. list[x[1]] \in Seq(Targets)
        BY <4>1 DEF GivenOK
      <4> QED
        BY <4>1, <4>2
    <3> QED
      BY <3>1
  <2> HIDE DEF m, B
  <2>3. B(m[i]) # {} /\ \A j \in 1..(i - 1) : B(m[j]) = {}
    BY <1>2, <2>1
  <2>4. PICK y \in B(m[i]) : \A z \in B(m[i]) : y[2] <= z[2]
    BY <2>2, <2>3, LeastIndex
  <2>5. y \in Y
    BY <1>1, <2>1, <2>3, <2>4
  <2> QED
    BY <2>5
<1>5. ASSUME Y # {}
      PROVE  Hits(t, raw) # {}
  <2>1. PICK h \in DOMAIN m : B(m[h]) # {}
    BY <1>5
  <2>2. h \in Hits(t, raw)
    BY <1>2, <2>1 DEF Hits
  <2> QED
    BY <2>2
<1> HIDE DEF Y
<1> QED
  BY <1>3, <1>4, <1>5

(* A target can be resolved if each of its mentions finds something.       *)
LEMMA ResolvableIfFound ==
  ASSUME GivenOK, ResolutionTypeOK, NEW t
  PROVE  Resolvable(t) <=> \A raw \in ElementsOf(traits[t].raw_deps) : Hits(t, raw) # {}
<1>1. \A raw : Determine(t, raw) = NoTarget <=> Hits(t, raw) = {}
  BY FoundOrNot
<1> QED
  BY <1>1 DEF Resolvable, Determined, ElementsOf

(* A whole attempt succeeds if every mention of every loaded target means  *)
(* a loaded target.                                                        *)
LEMMA VerdictIsRight ==
  ASSUME RInv, MInv, RInv', ResolveDepsForAll
  PROVE  all_resolved' <=> \A t \in Known : \A raw \in ElementsOf(traits[t].raw_deps) :
                             Meant(processed, t, raw) # {}
<1> DEFINE AllMean == \A t \in Known : \A raw \in ElementsOf(traits[t].raw_deps) :
                        Meant(processed, t, raw) # {}
<1> DEFINE S == IF unresolved = 0 THEN {} ELSE Known \ resolved
           Left == Known' \ resolved'
<1>1. /\ Resolve(S) /\ all_resolved' = (unresolved' = 0)
      /\ Known' = Known
  BY DEF ResolveDepsForAll, Resolve, Known, given
<1>2. GivenOK /\ ResolutionTypeOK /\ NamesRight /\ IsFiniteSet(Known)
  BY KnownAreTargets DEF RInv, MInv
<1>3. AllMean <=> \A t \in Known : Resolvable(t)
  BY <1>2, ResolvableIfFound, FoundIffMeansSomething
<1>4. \A t \in resolved : t \in Known /\ Resolvable(t)
  BY <1>2, ResolvableIfFound DEF RInv, MInv, ResolvedFound
<1>5. S = Known \ resolved
  <2>1. CASE unresolved = 0
    <3>1. Cardinality(Known \ resolved) = 0 /\ IsFiniteSet(Known \ resolved)
      BY <1>2, <2>1, FS_Subset DEF RInv, UnresolvedCounts
    <3>2. Known \ resolved = {}
      BY <3>1, FS_EmptySet
    <3> QED
      BY <2>1, <3>2
  <2> QED
    BY <2>1
<1>6. resolved' = resolved \cup {t \in Known \ resolved : Resolvable(t)}
  BY <1>1, <1>5 DEF Resolve
<1>7. Left = {} <=> \A t \in Known : Resolvable(t)
  BY <1>1, <1>4, <1>6
<1>8. unresolved' = 0 <=> Left = {}
  <2>1. IsFiniteSet(Left) /\ unresolved' = Cardinality(Left)
    BY <1>1, <1>2, FS_Subset DEF RInv, UnresolvedCounts
  <2> HIDE DEF Left
  <2> QED
    BY <2>1, FS_EmptySet
<1> QED
  BY <1>1, <1>3, <1>7, <1>8

(* resolve_deps_for_all reports success exactly when every mention of      *)
(* every loaded target means a loaded target.                              *)
THEOREM SuccessIsComplete == ResolutionSpec => SuccessMeansComplete
<1>1. RInv /\ MInv /\ RInv' /\ [ResolutionNext]_resolutionVars =>
        [ResolveDepsForAll =>
           (all_resolved' <=>
              \A t \in Known : \A raw \in ElementsOf(traits[t].raw_deps) :
                Meant(processed, t, raw) # {})]_resolutionVars
  BY VerdictIsRight
<1> QED
  BY <1>1, MeaningInvariant, PTL DEF ResolutionSpec, SuccessMeansComplete
=============================================================================
