----------------------------- MODULE MCMirrorWaits -----------------------------
(***************************************************************************)
(* Pages of two messages on a topic of up to three.                        *)
(***************************************************************************)
EXTENDS MirrorWaits
================================================================================
