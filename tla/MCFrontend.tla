----------------------------- MODULE MCFrontend -----------------------------
(* Instances of Frontend for TLC: without a limit, two connections to an   *)
(* engine that serves; with one, four to an engine that is not ready, which *)
(* a request learns behind the limiter.                                    *)
EXTENDS Frontend, TLC

SomeSetups ==
    [limit : {0}, locked : {TRUE}, ready : {TRUE}, tokenizer : BOOLEAN]
        \cup [limit : {1}, locked : {FALSE}, ready : {FALSE}, tokenizer : {FALSE}]
TwoOrFour == 0 :> 2 @@ 1 :> 4
TwoOrNone == 0 :> 2 @@ 1 :> 0
OneClient == [r \in Requests |-> "client"]

\* Bodies in which at most two fields are not as they should be.
Fine == [json |-> "ok", messages |-> "ok", tools |-> "ok", prompt |-> "ok",
         max_tokens |-> 1, sampling |-> "ok", stop |-> "ok"]
Values(f) ==
    CASE f = "max_tokens" -> {None, -1, 0, Cap, Cap + 1, Odd}
      [] f \in {"messages", "sampling"} -> {"bad", Odd}
      [] OTHER -> {"bad"}
Changed(body) == UNION {{[body EXCEPT ![f] = v] : v \in Values(f)} : f \in DOMAIN Fine}
SomeBodies == {Fine} \cup Changed(Fine) \cup UNION {Changed(body) : body \in Changed(Fine)}

OneAndThree == <<1, 3>>
AnyRequest == Permutations(Requests)

=============================================================================
