---------------------------- MODULE MCUpdateJob ----------------------------
(* UpdateJob with few versions, for TLC. *)
EXTENDS UpdateJob
=============================================================================
