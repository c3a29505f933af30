----------------------------- MODULE MCDidResolver -----------------------------
(***************************************************************************)
(* Small instances of DidResolver.  Messages for another DID are kept to   *)
(* the kinds that would do most harm if they counted.                      *)
(***************************************************************************)
EXTENDS DidResolver

CONSTANTS ka, kb, off, garbled, o1, s1, f1, root, c1, e1, e2

MCKey == {ka, kb}
MCController == {c1}
MCEndpoint == {e1, e2}
MCStamp == {1, 2}

MCRelationship == {"authentication", "keyAgreement", "verificationMethod"}

OneEncoding(m) == m.multibase = Nil \/ m.base58 = Nil

Owners ==
  {m \in OwnerMessage : m.did = "other" => m.stamp = 1 /\ m.id = "this"}

Edits ==
  {m \in UNION {AddMethodMessage, RemoveMethodMessage, AddServiceMessage,
                RemoveServiceMessage} :
     /\ m.did = "this"
     /\ m.kind = "addMethod" =>
          m.key \in {ka, Nil} /\ m.relationship \in MCRelationship}

Others ==
  {m \in UNION {DeleteMessage, UndecodableMessage, NoticeMessage} :
     m.did = "other" => m.kind = "delete"}

(* Owner events as this SDK and the JS SDK write them: one encoding.       *)
MCMessage == {m \in Owners : OneEncoding(m)} \cup Edits \cup Others

(* Owner events with both encodings, which the resolver tolerates.         *)
MCBothEncodings == Owners \cup Others
================================================================================
