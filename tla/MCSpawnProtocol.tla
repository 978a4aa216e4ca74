--------------------------- MODULE MCSpawnProtocol ---------------------------
(***************************************************************************)
(* SpawnProtocol on small sets of goroutines.                              *)
(***************************************************************************)
EXTENDS SpawnProtocol, TLC

Interchangeable ==
  Permutations(Api) \cup Permutations(Native) \cup Permutations(Worker)
=============================================================================
