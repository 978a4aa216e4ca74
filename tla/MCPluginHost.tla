----------------------------- MODULE MCPluginHost -----------------------------
(* The instance of PluginHost that is model-checked: the callers are           *)
(* interchangeable, and so are the processes that can be made.                 *)
EXTENDS PluginHost, TLC

Interchangeable == Permutations(Api) \cup Permutations(Process)
=============================================================================
