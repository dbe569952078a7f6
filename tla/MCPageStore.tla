------------------------------ MODULE MCPageStore ------------------------------
(* Model values and bounds for checking PageStore with TLC. *)
EXTENDS PageStore

CONSTANTS a1, a2

TwoShards == {0, 1}
TwoAddrs == {a1, a2}

==============================================================================
