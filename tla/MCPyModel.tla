----------------------------- MODULE MCPyModel -----------------------------
(* A small instance of PyModel: MCEngine's options and requests. *)
EXTENDS PyModel, TLC

MCPadded(n) == n
OneOption == {[flash |-> "unset", mm |-> TRUE]}
TwoRequests == {[op |-> "predict", views |-> 1, n |-> 1, says |-> "a", pre |-> FALSE],
                [op |-> "encode", views |-> 1, n |-> 0, says |-> "b", pre |-> FALSE]}
=============================================================================
