-------------------------- MODULE RequestPipelineMC --------------------------
(***************************************************************************)
(* RequestPipeline for TLC: it is finite as it stands.                     *)
(***************************************************************************)
EXTENDS RequestPipeline
=============================================================================
