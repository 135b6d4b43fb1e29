--------------------------- MODULE MCBuildTargets ---------------------------
(* Instances of BuildTargets for TLC.                                      *)
EXTENDS BuildTargets, TLC

CONSTANTS a, b, c, d4

(* The graph that complete resolution of unique names makes of lists of    *)
(* dependencies.                                                           *)
Graph(k, ds) ==
  [kind |-> k, deps |-> ds, resolved |-> Targets, shadowed |-> {},
   dep_of |-> [t \in Targets |-> {s \in Targets : t \in {ds[s][i] : i \in DOMAIN ds[s]}}]]

(* Every way to depend on some of three targets, in one fixed order.       *)
DepLists == {<<>>, <<a>>, <<b>>, <<c>>, <<a, b>>, <<a, c>>, <<b, c>>, <<a, b, c>>}

AllFiles == [t \in Targets |-> "file"]

(* Every graph over three files, cycles and self-loops included, but for   *)
(* the names of the files: of the graphs that differ in them alone, the    *)
(* one whose edges come first.                                             *)
Weight(ds, p) ==
  LET edge(i, j) == IF \E k \in DOMAIN ds[p[i]] : ds[p[i]][k] = p[j] THEN 1 ELSE 0
  IN  edge(1, 1) + 2 * edge(2, 2) + 4 * edge(3, 3) + 8 * edge(2, 1) + 16 * edge(3, 1)
      + 32 * edge(3, 2) + 64 * edge(1, 2) + 128 * edge(1, 3) + 256 * edge(2, 3)

Orders == {<<a, b, c>>, <<a, c, b>>, <<b, a, c>>, <<b, c, a>>, <<c, a, b>>, <<c, b, a>>}

FileGraphs ==
  {Graph(AllFiles, ds) : ds \in
     {x \in [Targets -> DepLists] :
        \A p \in Orders : Weight(x, <<a, b, c>>) <= Weight(x, p)}}

(* A chain, a diamond without its top, and independent targets, with       *)
(* phony targets among them.                                               *)
PhonyGraphs ==
  {Graph(k, a :> <<>> @@ b :> x @@ c :> y) :
     k \in [Targets -> {"file", "phony"}] \ {AllFiles},
     x \in {<<>>, <<a>>}, y \in {<<a>>, <<b>>, <<a, b>>}}

LoopGraphs == FileGraphs \cup PhonyGraphs

(* What resolution may leave when it ends early, and two files of a name.  *)
(* (c needs b and a, b needs a.)                                           *)
OddGraphs ==
  LET g == Graph(AllFiles, a :> <<>> @@ b :> <<a>> @@ c :> <<b, a>>)
  IN  {[g EXCEPT !.shadowed = {t}] : t \in Targets}
      \cup {[g EXCEPT !.resolved = {a, c}, !.deps = [@ EXCEPT ![b] = <<>>]]}

(* Every acyclic graph over three targets of any kind: a before b before c. *)
KindGraphs ==
  OddGraphs \cup
  {Graph(k, a :> <<>> @@ b :> x @@ c :> y) :
     k \in [Targets -> TargetKinds],
     x \in {<<>>, <<a>>}, y \in {<<a>>, <<b>>, <<a, b>>}}

(* The same dependency named twice.                                        *)
DuplicateGraphs == {Graph(AllFiles, a :> <<>> @@ b :> <<a>> @@ c :> <<a, b, a>>)}

(* An alias of nothing beside two files and a file that needs both.        *)
EmptyAliasGraphs ==
  {Graph(d4 :> "alias" @@ AllFiles,
         a :> <<>> @@ b :> <<>> @@ c :> <<a, b>> @@ d4 :> <<>>)}

NoFiles == {[t \in Targets |-> 0]}
AnyFiles == [Targets -> 0..MaxTime]

MCTimes == 0..MaxTime
OneClock == [n \in 0..MaxTime |-> n]

(* The theorems about BuildTargets speak of these instances, but for the   *)
(* ones that name a dependency twice or call again after an error.         *)
ASSUME TheoremsApply ==
  /\ LinksAgree
  /\ NamedOnce \/ InitialGraphs = DuplicateGraphs
  /\ "error" \notin RetriesAfter => CarefulClient
=============================================================================
