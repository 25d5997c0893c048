------------------------------ MODULE MCMemory ------------------------------
(* Memory on small instances. *)
EXTENDS Memory, TLC

CONSTANTS c1, c2, q1, q2

OneCaller == c1 :> q1 @@ c2 :> NoOne
TwoThreads == c1 :> q1 @@ c2 :> q1
TwoProcesses == c1 :> q1 @@ c2 :> q2

AnyHome == {OneCaller, TwoThreads, TwoProcesses}

Alike == Permutations(Ambient)

=============================================================================
