---------------------------- MODULE MCEventDispatcher ----------------------------
(* Tasks and handlers for model checking EventDispatcher. *)
EXTENDS EventDispatcher

CONSTANTS t1, t2, t3
=============================================================================
