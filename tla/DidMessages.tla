------------------------------ MODULE DidMessages ------------------------------
(***************************************************************************)
(* How the registrars' operations are written (messages/src/did_*.rs,      *)
(* registrar/src/update.rs) and how a topic's envelopes are read           *)
(* (messages/src/envelope.rs, events.rs, and the decoding in               *)
(* resolver/src/builder.rs).  An operation is the message of DidDocument   *)
(* that the caller means; an envelope holds the JSON event as the object's *)
(* one name and the members under it.  The decoder is not told the kind of *)
(* an event: it takes the first one whose members are all there.           *)
(***************************************************************************)
EXTENDS DidDocument, SequencesExt

(***************************************************************************)
(* Writing.  type members are not looked at by readers.                    *)
(***************************************************************************)
Written(asked, operation, event) ==
  [operation |-> operation, did |-> asked.did, stamp |-> asked.stamp,
   signer |-> asked.signer, event |-> event]

Event(name, members) == [name |-> name, members |-> members]

(* The id is the DID; the key is written as multibase.                     *)
DIDOwnerMessage(asked) ==
  Written(asked, "create",
    Event("DIDOwner", [id |-> asked.did, type |-> "key", controller |-> asked.controller,
                       publicKeyMultibase |-> asked.multibase]))

(* An alias without a key is written with an empty one: Nil.               *)
DIDAddVerificationMethodMessage(asked) ==
  Written(asked, "update",
    Event("VerificationMethod",
          [id |-> asked.id, type |-> "key", controller |-> asked.did,
           publicKeyMultibase |-> asked.key, relationshipType |-> asked.relationship]))

DIDRemoveVerificationMethodMessage(asked) ==
  Written(asked, "update", Event("VerificationMethod", [id |-> asked.id]))

DIDAddServiceMessage(asked) ==
  Written(asked, "update",
    Event("Service", [id |-> asked.id, type |-> "service",
                      serviceEndpoint |-> asked.endpoint]))

DIDRemoveServiceMessage(asked) ==
  Written(asked, "update", Event("Service", [id |-> asked.id]))

DIDDeactivateMessage(asked) == Written(asked, "delete", Nil)

(* The operations of an update.                                            *)
EditKind == {"addMethod", "removeMethod", "addService", "removeService"}

(* A new verification method must have a key.                              *)
TurnedDown(asked) ==
  asked.kind = "addMethod" /\ asked.relationship = "verificationMethod" /\ asked.key = Nil

Payload(asked) ==
  CASE asked.kind = "owner"        -> DIDOwnerMessage(asked)
    [] asked.kind = "addMethod"    -> DIDAddVerificationMethodMessage(asked)
    [] asked.kind = "removeMethod" -> DIDRemoveVerificationMethodMessage(asked)
    [] asked.kind = "addService"   -> DIDAddServiceMessage(asked)
    [] asked.kind = "removeService" -> DIDRemoveServiceMessage(asked)
    [] asked.kind = "delete"       -> DIDDeactivateMessage(asked)

(***************************************************************************)
(* Reading: the variants of DIDEvent in the order they are tried, and the  *)
(* members without which an object is none of them.                        *)
(***************************************************************************)
Variant(kind, name, needs) == [kind |-> kind, name |-> name, needs |-> needs]

AddMethodNeeds == {"id", "type", "controller", "publicKeyMultibase", "relationshipType"}

(* Fault: the removals are tried before the additions.                     *)
RemovalsFirst ==
  <<Variant("owner", "DIDOwner", {"id", "type", "controller"}),
    Variant("removeMethod", "VerificationMethod", {"id"}),
    Variant("addMethod", "VerificationMethod", AddMethodNeeds),
    Variant("removeService", "Service", {"id"}),
    Variant("addService", "Service", {"id", "type", "serviceEndpoint"}),
    Variant("notice", "DIDOwner", {"id"})>>

DIDEvent ==
  <<Variant("owner", "DIDOwner", {"id", "type", "controller"}),
    Variant("addMethod", "VerificationMethod", AddMethodNeeds),
    Variant("removeMethod", "VerificationMethod", {"id"}),
    Variant("addService", "Service", {"id", "type", "serviceEndpoint"}),
    Variant("removeService", "Service", {"id"}),
    Variant("notice", "DIDOwner", {"id"})>>

Fits(variant, event) ==
  variant.name = event.name /\ variant.needs \subseteq DOMAIN event.members

KindOf(envelope) ==
  IF envelope.operation = "delete" THEN "delete"
  ELSE IF envelope.event = Nil THEN "undecodable"
  ELSE LET fitting == {i \in DOMAIN DIDEvent : Fits(DIDEvent[i], envelope.event)}
       IN  IF fitting = {} THEN "undecodable" ELSE DIDEvent[Min(fitting)].kind

Member(event, name) ==
  IF name \in DOMAIN event.members THEN event.members[name] ELSE Nil

Joined(head, rest) ==
  [n \in DOMAIN head \cup DOMAIN rest |->
     IF n \in DOMAIN head THEN head[n] ELSE rest[n]]

(* The message of DidDocument that the resolver's loop works on.           *)
Decoded(envelope) ==
  LET kind  == KindOf(envelope)
      event == envelope.event
      head  == [kind |-> kind, did |-> envelope.did, signer |-> envelope.signer,
                stamp |-> envelope.stamp]
  IN  CASE kind \in {"delete", "undecodable", "notice"} -> head
        [] kind = "owner" ->
             Joined(head, [id |-> Member(event, "id"),
                           multibase |-> Member(event, "publicKeyMultibase"),
                           base58 |-> Member(event, "publicKeyBase58"),
                           controller |-> Member(event, "controller")])
        [] kind = "addMethod" ->
             Joined(head, [id |-> Member(event, "id"),
                           key |-> Member(event, "publicKeyMultibase"),
                           relationship |-> Member(event, "relationshipType")])
        [] kind = "addService" ->
             Joined(head, [id |-> Member(event, "id"),
                           endpoint |-> Member(event, "serviceEndpoint")])
        [] kind \in {"removeMethod", "removeService"} ->
             Joined(head, [id |-> Member(event, "id")])

(* What readers are given when asked operations are written, signed by key.*)
ReadBack(asked, key) == [Decoded(Payload(asked)) EXCEPT !.signer = key]
================================================================================
