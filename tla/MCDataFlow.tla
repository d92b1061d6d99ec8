------------------------------ MODULE MCDataFlow ------------------------------
(* A source, sums and displays: with two sums the source can reach the       *)
(* second by two ways; with two displays, the sum before them may be frozen.    *)
EXTENDS DataFlow, TLC

TwoSums ==
  [kind |-> (0 :> "source") @@ (1 :> "sum") @@ (2 :> "sum") @@ (3 :> "display"),
   freezable |-> {}]
TwoDisplays ==
  [kind |-> (0 :> "source") @@ (1 :> "sum") @@ (2 :> "display") @@ (3 :> "display"),
   freezable |-> {1}]
BothSetups == {TwoSums, TwoDisplays}
=============================================================================
