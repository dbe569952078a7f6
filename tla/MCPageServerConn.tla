-------------------------- MODULE MCPageServerConn --------------------------
(* Bounds for checking PageServerConn with TLC. *)
EXTENDS PageServerConn

TwoShards == {0, 1}

=============================================================================
