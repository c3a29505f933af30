------------------------------ MODULE MCCsmSystem ------------------------------
(***************************************************************************)
(* One DID is created and updated by external signing.  The update is a    *)
(* batch of two with an expiry, and may be submitted more than once.       *)
(***************************************************************************)
EXTENDS CsmSystem

CONSTANTS ka, kb, off, garbled, o1, f1, root, c1, e1, s1, s2, x1, x2, x3

MCKey == {ka, kb}
MCSession == {s1, s2}
MCCall == {x1, x2, x3}
MCController == {c1}
MCEndpoint == {e1}
MCStamp == {1, 2}

Unsigned(kind, stamp) ==
  [kind |-> kind, did |-> "this", signer |-> Nil, stamp |-> stamp]

Owner ==
  Unsigned("owner", 1) @@
  [id |-> "this", multibase |-> ka, base58 |-> Nil, controller |-> c1]

AddMethod == Unsigned("addMethod", 2) @@
  [id |-> o1, key |-> kb, relationship |-> "verificationMethod"]

Alias == Unsigned("addMethod", 2) @@
  [id |-> o1, key |-> Nil, relationship |-> "keyAgreement"]

KeylessMethod == Unsigned("addMethod", 2) @@
  [id |-> o1, key |-> Nil, relationship |-> "verificationMethod"]

Delete == Unsigned("delete", 2)

MCMalformed == {KeylessMethod}

Asked(kind, items, expires) == [kind |-> kind, items |-> items, expires |-> expires]

MCRequest ==
  s1 :> {Asked("create", <<Owner>>, Nil)} @@
  s2 :> {Asked("update", <<>>, Nil),
         Asked("update", <<KeylessMethod>>, Nil),
         Asked("update", <<AddMethod, Alias>>, 0),
         Asked("delete", <<Delete>>, 0)}

(* The creation and one submission of the update may bring signatures of   *)
(* another key; each may bring those of its messages in any places.        *)
MCSigner == x1 :> {ka, kb} @@ x2 :> {ka, kb} @@ x3 :> {ka}

MCTarget == x1 :> {s1} @@ x2 :> {s2} @@ x3 :> {s2}
================================================================================
