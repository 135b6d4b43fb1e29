------------------------------ MODULE MCDriver ------------------------------
(* Instances of Driver for TLC.                                            *)
EXTENDS Driver, TLC

CONSTANTS a, b, c, d4

MCTimes == 0..MaxTime
NoFiles == {[t \in Targets |-> 0]}

(* The kernel's clock as good as the precise one, or half as fine.         *)
OneClock == [n \in 0..MaxTime |-> n]
TicksOfTwo == [n \in 0..MaxTime |-> IF n % 2 = 0 /\ n # 0 THEN n - 1 ELSE n]

Library(ts, p, v) == [targets |-> ts, project |-> p, version |-> v]

Traits(where, p, n, mentions) ==
  [name |-> n, folder |-> where, project |-> p, raw_deps |-> mentions]

-----------------------------------------------------------------------------
(* One process: library A has the project A, with a file a and a target b  *)
(* of any kind that has a recipe or hands on; library B, with the file c,  *)
(* may have another project, the same, another version of it, or none, and *)
(* the files b and c may be one.                                           *)
InA(n, mentions) == Traits(<<"/", "A">>, "A", n, mentions)
InB(p, n, mentions) == Traits(<<"/", "B">>, p, n, mentions)

X   == <<"x">>
Lib == <<"/", "lib">>

Bs == {Library(<<c>>, "A", 1), Library(<<c>>, "A", 2), Library(<<c>>, "B", 1),
       Library(<<>>, NoProject, 1)}

TargetBs == {<<"file", X>>, <<"file", Lib>>, <<"phony", X>>, <<"alias", X>>}

TwoWorlds ==
  UNION {
    [kind : {a :> "file" @@ b :> as[1] @@ c :> "file"},
     traits : {a :> InA(<<"a">>, x) @@ b :> InA(as[2], <<>>) @@ c :> InB(lb.project, n, y) :
                 n \in {<<"z">>, Lib},
                 x \in {<<>>, <<X>>, <<Lib>>, << <<"/", "B", "z">>, X >>},
                 y \in {<<>>, << <<"/", "A", "a">> >>}},
     content : {"A" :> Library(<<a, b>>, "A", 1) @@ "B" :> lb}] :
       as \in TargetBs, lb \in Bs}

TwoInputs ==
  {<<>>, <<"A">>, <<"B">>, <<"A", "B">>, <<"B", "A">>, <<"A", "A">>, <<"A", "B", "A">>}

-----------------------------------------------------------------------------
(* Several processes, each over library A alone or over B and A.  Of B, c  *)
(* needs b, which needs the file a of A, and maybe a itself; or c and b    *)
(* need a alike.  b may be an alias, of a source then, and c phony then.   *)
RunWorlds ==
  UNION {
    LET aFile == IF k = "file" THEN "file" ELSE "read_only"
        mention == IF k = "alias" THEN <<"B", "::", "b">> ELSE <<"b">>
        source == <<"/", "A", "a">>
        tops == IF k = "file" THEN {"file"} ELSE {"file", "phony"}
    IN  [kind : {a :> aFile @@ b :> k @@ c :> l : l \in tops},
         traits : {a :> InA(<<"a">>, <<>>) @@ b :> InB("B", <<"b">>, <<source>>)
                   @@ c :> InB("B", <<"c">>, x) :
                     x \in {<<mention>>, <<source>>, <<source, mention>>}},
         content : {"A" :> Library(<<a>>, "A", 1) @@ "B" :> Library(<<c, b>>, "B", 1)}] :
      k \in {"file", "alias"}}

RunInputs == {<<"A">>, <<"B", "A">>}
OneInput == {<<"A">>}
SourceEdited == {a :> 2 @@ b :> 1 @@ c :> 0}

(* Two files made from nothing.                                            *)
IndependentFiles ==
  {[kind |-> a :> "file" @@ b :> "file",
    traits |-> a :> InA(<<"a">>, <<>>) @@ b :> InA(<<"b">>, <<>>),
    content |-> "A" :> Library(<<a, b>>, "A", 1)]}

-----------------------------------------------------------------------------
(* The description of A stands in the folder a, that of B above it.  The   *)
(* phony target a needs "x" and "B::lib".  A has the file a/x, which is b; *)
(* B has the file x, which is c, and the phony target lib, which is d4.    *)
LinkWorlds ==
  {[kind |-> a :> "phony" @@ b :> "file" @@ c :> "file" @@ d4 :> "phony",
    traits |-> a :> Traits(<<"a">>, "A", <<"t">>, <<X, <<"B", "::", "lib">> >>)
               @@ b :> Traits(<<"a">>, "A", X, <<>>)
               @@ c :> Traits(<<>>, "B", X, <<>>)
               @@ d4 :> Traits(<<>>, "B", <<"lib">>, <<>>),
    content |-> "A" :> Library(<<a, b>>, "A", 1) @@ "B" :> Library(<<c, d4>>, "B", 1)]}
LinkInputs == {<<"A", "B">>}
=============================================================================
