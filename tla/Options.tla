-------------------------------- MODULE Options --------------------------------
(* What an absent value is in the modules of the hcs, client and lifecycle  *)
(* crates.                                                                  *)
CONSTANT Nil   \* Option::None
================================================================================
