------------------------------ MODULE VaultSigner ------------------------------
(***************************************************************************)
(* Signers whose private key stays in Vault (signer/src/vault.rs,          *)
(* vault_api.rs).  A signer asks for the public key once, when it is made, *)
(* and announces it from then on; Vault signs with its latest version of   *)
(* the key, whichever that is by then.  A key, and a signature it made, is *)
(* known by its version.                                                   *)
(***************************************************************************)
EXTENDS Integers, FiniteSetsExt

CONSTANTS
  Signer,       \* objects of type VaultSigner
  Unsigned,     \* sign_bytes gave an error
  MaxVersion    \* bound: versions of the key

ASSUME VaultAssumption ==
  /\ MaxVersion \in Nat \ {0}
  /\ Unsigned \notin Nat

VARIABLES
  latest,       \* Vault's latest version of the key
  announced,    \* per signer: the version of its public key; 0: not made yet
  outdated      \* the signers made before the latest rotation (for properties)

vaultVars == <<latest, announced, outdated>>

VaultInit ==
  /\ latest = 1
  /\ announced = [s \in Signer |-> 0]
  /\ outdated = {}

(* Fault: versions come out of a hash map, and the first one is taken.     *)
AnyKeyVersion(keys) == CHOOSE v \in keys : TRUE

LatestKeyVersion(keys) == Max(keys)

(* The answer lists the versions that were not trimmed.  When the login or *)
(* the request fails there is no signer.                                   *)
NewSigner(s) ==
  /\ announced[s] = 0
  /\ \E oldest \in 1 .. latest :
       announced' = [announced EXCEPT ![s] = LatestKeyVersion(oldest .. latest)]
  /\ UNCHANGED <<latest, outdated>>

(* sign_ed25519: Vault answers, or it does not.                            *)
Signatures(s) == {latest, Unsigned}

Rotate ==
  /\ latest < MaxVersion
  /\ latest' = latest + 1
  /\ outdated' = {s \in Signer : announced[s] # 0}
  /\ UNCHANGED announced

VaultNext == Rotate \/ \E s \in Signer : NewSigner(s)
================================================================================
