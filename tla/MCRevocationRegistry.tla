------------------------- MODULE MCRevocationRegistry -------------------------
(***************************************************************************)
(* Two processes register lists for a registry of two credentials; one     *)
(* list is longer than the registry.                                       *)
(***************************************************************************)
EXTENDS RevocationRegistry, SequencesExt

CONSTANTS i1, i2

MCIssuer == {i1, i2}
MCStatusList ==
  [len : {2}, revoked : SUBSET {0, 1}] \cup {[len |-> 3, revoked |-> {0, 2}]}

(* An entry without accumulator, with indices all the same.                *)
MCStray ==
  {[accum |-> NoAccum, prev |-> NoAccum, issued |-> {0}, revoked |-> {1}]}

(* One turn of the loop over the entries: issued, then revoked.            *)
OneEntry(status, e) ==
  IF e.accum = NoAccum THEN status
  ELSE (status \ e.issued) \cup (e.revoked \cap Cred)

(* The loop of resolve_revocation_status_list, entry by entry, ends with   *)
(* what the entries say taken together (registry.rs 283-305).              *)
AnyEntry ==
  [accum : 0 .. 1, prev : {0}, issued : SUBSET {0, 1}, revoked : SUBSET {0, 1, 2}]
ASSUME LoopAgrees ==
  \A log \in SeqOf(AnyEntry, 2) : FoldLeft(OneEntry, {}, log) = RevokedBy(log)

Symmetry == Permutations(MCIssuer)
==============================================================================
