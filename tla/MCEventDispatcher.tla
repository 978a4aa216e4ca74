-------------------------- MODULE MCEventDispatcher --------------------------
(***************************************************************************)
(* EventDispatcher with small channels and few goroutines.                 *)
(***************************************************************************)
EXTENDS EventDispatcher
=============================================================================
