------------------------- MODULE MCComparatorsChain -------------------------
(* Every list of up to four names, one of them unknown, over requests that *)
(* agree and differ in everything a comparator looks at.                   *)
EXTENDS ComparatorsChain, TLC

MCInputs == UNION {[1..n -> Comparators \cup {"unknown"}] : n \in 0..4}

Looks == {[exists |-> e, newest |-> s] :
            e \in BOOLEAN,
            s \in {FileModTime(1), FileModTime(2), ExplicitlyNeedsUpdate}}

(* Names are given to the looks in an order of no consequence, and a       *)
(* second time for two of them.                                            *)
Order == CHOOSE f \in [1..6 -> Looks] : {f[i] : i \in 1..6} = Looks

MCRequests ==
  {[name |-> n, exists |-> Order[n].exists, newest_dep_status |-> Order[n].newest] :
     n \in 1..6}
  \cup {[name |-> n + 6, exists |-> Order[n].exists,
         newest_dep_status |-> Order[n].newest] : n \in {1, 4}}
=============================================================================
