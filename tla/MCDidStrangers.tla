----------------------------- MODULE MCDidStrangers -----------------------------
(***************************************************************************)
(* Three keys, of which the third is a stranger that may post anything and *)
(* that is only ever named by itself.  Messages for another DID are kept to*)
(* the kinds that would do most harm if they counted.                      *)
(***************************************************************************)
EXTENDS DidStrangers

CONSTANTS ka, kb, kc, off, garbled, o1, f1, root, c1, e1, e2

MCKey == {ka, kb, kc}
MCController == {c1}
MCEndpoint == {e1, e2}
MCStamp == {1, 2}

MCRelationship == {"authentication", "keyAgreement", "verificationMethod"}

OneEncoding(m) == m.multibase = Nil \/ m.base58 = Nil

Owners ==
  {m \in OwnerMessage :
     /\ OneEncoding(m)
     /\ m.did = "other" => m.stamp = 1 /\ m.id = "this"
     /\ m.signer \in {ka, kb} => kc \notin {m.multibase, m.base58}}

Edits ==
  {m \in UNION {AddMethodMessage, RemoveMethodMessage, AddServiceMessage,
                RemoveServiceMessage} :
     /\ m.did = "this"
     /\ m.kind = "addMethod" =>
          m.key \in {ka, Nil} /\ m.relationship \in MCRelationship}

Others ==
  {m \in UNION {DeleteMessage, UndecodableMessage, NoticeMessage} :
     m.did = "other" => m.kind = "delete"}

(* Owner events as this SDK and the JS SDK write them: one encoding.       *)
MCMessage == Owners \cup Edits \cup Others
================================================================================
