------------------------------ MODULE MCDidSystem ------------------------------
(***************************************************************************)
(* An owner whose key is also the operator's creates a DID; as soon as     *)
(* anyone knows its topic it is updated and, by its owner or by a caller   *)
(* with the wrong key, deactivated.                                        *)
(***************************************************************************)
EXTENDS DidSystem

CONSTANTS ka, kb, off, garbled, o1, f1, root, c1, e1, t1, t2, t3

MCKey == {ka, kb}
MCCall == {t1, t2, t3}
MCEndpoint == {e1}
MCController == {c1}
MCStamp == {1, 2}

Owner ==
  [kind |-> "owner", did |-> "this", signer |-> Nil, stamp |-> 1, id |-> "this",
   multibase |-> ka, base58 |-> Nil, controller |-> c1]

AddService ==
  [kind |-> "addService", did |-> "this", signer |-> Nil, stamp |-> 2,
   id |-> o1, endpoint |-> e1]

RemoveService ==
  [kind |-> "removeService", did |-> "this", signer |-> Nil, stamp |-> 2,
   id |-> o1]

KeylessMethod ==
  [kind |-> "addMethod", did |-> "this", signer |-> Nil, stamp |-> 2, id |-> o1,
   key |-> Nil, relationship |-> "verificationMethod"]

Delete ==
  [kind |-> "delete", did |-> "this", signer |-> Nil, stamp |-> 2]

MCMalformed == {KeylessMethod}

Asked(kind, signer, items) == [kind |-> kind, signer |-> signer, items |-> items]

MCRequest ==
  t1 :> {Asked("create", ka, <<Owner>>)} @@
  t2 :> {Asked("update", ka, <<>>),
         Asked("update", Nil, <<AddService>>),
         Asked("update", ka, <<AddService, KeylessMethod>>),
         Asked("update", ka, <<AddService, RemoveService>>)} @@
  t3 :> {Asked("update", ka, <<RemoveService>>),
         Asked("deactivate", ka, <<Delete>>),
         Asked("deactivate", kb, <<Delete>>),
         Asked("deactivate", Nil, <<Delete>>)}
================================================================================
