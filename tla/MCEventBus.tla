------------------------------- MODULE MCEventBus -------------------------------
(***************************************************************************)
(* EventBus for TLC: three publishers on a queue that fills up.            *)
(***************************************************************************)
EXTENDS EventBus

CONSTANTS p1, p2, p3

ThreePublishers == {p1, p2, p3}
Interchangeable == Permutations(ThreePublishers)
================================================================================
