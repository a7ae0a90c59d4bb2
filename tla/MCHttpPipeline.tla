---------------------------- MODULE MCHttpPipeline ---------------------------
(* Instances of HttpPipeline for TLC. *)
EXTENDS HttpPipeline, TLC

CONSTANTS s1, w1, w2
=============================================================================
