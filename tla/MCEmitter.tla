----------------------------- MODULE MCEmitter -----------------------------
(* Emitter on the netlists of MCNetlists.                                  *)
EXTENDS Emitter, MCNetlists
=============================================================================
