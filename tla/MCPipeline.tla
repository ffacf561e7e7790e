----------------------------- MODULE MCPipeline -----------------------------
(* Instances of Pipeline for TLC: two requests in a ring of two ranks,     *)
(* where one thing breaks before the second is made, and one in a ring of  *)
(* three, where nothing does.                                              *)
EXTENDS Pipeline, TLC

TwoThenOne == 1 :> 2 @@ 2 :> 1
OneThenNone == 1 :> 1 @@ 2 :> 0
Three == 0..2
EdgesAndResult == {Edge(0), Edge(1), Result}

=============================================================================
