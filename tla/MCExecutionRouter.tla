--------------------------- MODULE MCExecutionRouter ---------------------------
(***************************************************************************)
(* ExecutionRouter for TLC: three requests, two of which carry one key.    *)
(***************************************************************************)
EXTENDS ExecutionRouter

CONSTANTS q1, q2, q3, k1, k2

ThreeRequests == {q1, q2, q3}
TwoKeys == {k1, k2}
SharedKey == [q \in ThreeRequests |-> IF q = q3 THEN k2 ELSE k1]
================================================================================
