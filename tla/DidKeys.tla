-------------------------------- MODULE DidKeys --------------------------------
(***************************************************************************)
(* The parameters that the topic's writers and its readers have in common. *)
(***************************************************************************)
CONSTANTS
  Key,    \* byte strings that are Ed25519 public keys
  Nil     \* an absent value

ASSUME AbsentKeyAssumption == Nil \notin Key
================================================================================
