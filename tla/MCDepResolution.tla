-------------------------- MODULE MCDepResolution --------------------------
(* An instance of DepResolution for TLC: project A lists two targets that  *)
(* may share a name, project B one, and each may name those of the other;  *)
(* the file of B may be one that A knows too.                              *)
EXTENDS DepResolution, TLC

CONSTANTS t1, t2, t3

InA(name, mentions) ==
  [name |-> name, folder |-> <<"/", "A">>, project |-> "A", raw_deps |-> mentions]
InB(name, mentions) ==
  [name |-> name, folder |-> <<"/", "B">>, project |-> "B", raw_deps |-> mentions]

MentionsInA == {<<"x">>, <<"B", "::", "z">>}
MentionsInB == {<<"A", "::", "x">>, <<"z">>, <<"/", "A", "x">>}

UpTo(n, S) == UNION {[1..k -> S] : k \in 0..n}

MCDescriptions ==
  [list : {"A" :> <<t1, t2>> @@ "B" :> <<t3>>},
   kind : {t1 :> k1 @@ t2 :> k2 @@ t3 :> "file" : k1, k2 \in {"file", "phony"}},
   traits : {t1 :> InA(<<"x">>, d1) @@ t2 :> InA(<<"x">>, d2) @@ t3 :> InB(n, d3) :
               n \in {<<"z">>, <<"/", "A", "x">>},
               d1 \in UpTo(2, MentionsInA), d2 \in UpTo(1, MentionsInA),
               d3 \in UpTo(2, MentionsInB)}]
  \cup
  [list : {"A" :> <<t1, t2>> @@ "B" :> <<t3>>},
   kind : {t1 :> k1 @@ t2 :> k2 @@ t3 :> "alias" : k1, k2 \in {"file", "phony"}},
   traits : {t1 :> InA(<<"x">>, d1) @@ t2 :> InA(<<"x">>, d2) @@ t3 :> InB(<<"z">>, d3) :
               d1 \in UpTo(2, MentionsInA), d2 \in UpTo(1, MentionsInA),
               d3 \in UpTo(2, MentionsInB)}]
  \cup
  [list : {"A" :> <<t1, t2>> @@ "B" :> <<t3>>},   \* two projects called "A"
   kind : {t1 :> "file" @@ t2 :> "file" @@ t3 :> "phony"},
   traits : {t1 :> InA(<<"x">>, <<>>) @@ t2 :> InA(<<"y">>, <<<<"x">>>>)
             @@ t3 :> [InB(<<"x">>, <<>>) EXCEPT !.project = "A"]}]
=============================================================================
