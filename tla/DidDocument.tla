------------------------------ MODULE DidDocument ------------------------------
(***************************************************************************)
(* How a topic's messages become a DID document: the body of the loop of   *)
(* DidDocumentBuilder::resolve (resolver/src/builder.rs) as a function of   *)
(* the state built so far and the next message, and the document returned  *)
(* when the loop ends.  Everything here is constant-level: DidResolver and *)
(* the modules that compose it with the writers give it a behaviour.       *)
(*                                                                         *)
(* A message is what remains of a parsed envelope once its bytes are       *)
(* abstracted: the DID it names, the key its signature verifies under (Nil *)
(* when it verifies under none), its timestamp and its event.              *)
(***************************************************************************)
EXTENDS Naturals, Sequences, DidKeys

CONSTANTS
  Anchor,           \* the key embedded in the DID being resolved
  OffCurve,         \* 32 bytes that are no point of the curve
  Garbled,          \* a key encoding that does not decode to 32 bytes
  OwnFragment,      \* ids "<this did>#..." other than the root key's
  SiblingFragment,  \* ids, not of root keys, of DIDs whose string extends this one's
  ForeignFragment,  \* every other id
  RootKey,          \* "<this did>#did-root-key"
  Controller,       \* controller strings of owner events
  Endpoint,         \* service endpoints
  Stamp             \* timestamps carried by messages

ASSUME KeyAssumption ==
  /\ Anchor \in Key
  /\ OffCurve \notin Key
  /\ Garbled \notin Key
  /\ OffCurve # Garbled

ASSUME FragmentAssumption ==
  /\ RootKey \notin OwnFragment \cup SiblingFragment \cup ForeignFragment
  /\ OwnFragment \cap ForeignFragment = {}
  /\ SiblingFragment \cap (OwnFragment \cup ForeignFragment) = {}

ASSUME NilAssumption ==
  Nil \notin Key \cup {OffCurve, Garbled} \cup Controller \cup Endpoint \cup Stamp

FragmentId == {RootKey} \cup OwnFragment \cup SiblingFragment \cup ForeignFragment

(* The buckets of a DID document that list method ids.                     *)
Relationship == {"authentication", "assertionMethod", "keyAgreement",
                 "capabilityInvocation", "capabilityDelegation"}

(* What an owner event may hold where a key is expected.                   *)
Encoding == Key \cup {OffCurve, Garbled}

(***************************************************************************)
(* Messages, one set per way an envelope of the topic decodes.             *)
(***************************************************************************)
Did == {"this", "other"}

(* No event, or one that is not base64, UTF-8 or JSON of a known event.    *)
UndecodableMessage ==
  [kind : {"undecodable"}, did : Did, signer : Key \cup {Nil}, stamp : Stamp]

DeleteMessage ==
  [kind : {"delete"}, did : Did, signer : Key \cup {Nil}, stamp : Stamp]

OwnerMessage ==
  [kind : {"owner"}, did : Did, signer : Key \cup {Nil}, stamp : Stamp,
   id : Did, multibase : Encoding \cup {Nil}, base58 : Encoding \cup {Nil},
   controller : Controller]

(* key = Nil is the empty publicKeyMultibase of an alias.                  *)
AddMethodMessage ==
  [kind : {"addMethod"}, did : Did, signer : Key \cup {Nil}, stamp : Stamp,
   id : FragmentId, key : Encoding \cup {Nil},
   relationship : Relationship \cup {"verificationMethod"}]

RemoveMethodMessage ==
  [kind : {"removeMethod"}, did : Did, signer : Key \cup {Nil}, stamp : Stamp,
   id : FragmentId]

AddServiceMessage ==
  [kind : {"addService"}, did : Did, signer : Key \cup {Nil}, stamp : Stamp,
   id : FragmentId, endpoint : Endpoint]

RemoveServiceMessage ==
  [kind : {"removeService"}, did : Did, signer : Key \cup {Nil}, stamp : Stamp,
   id : FragmentId]

(* A deactivate event under an operation other than "delete".              *)
NoticeMessage ==
  [kind : {"notice"}, did : Did, signer : Key \cup {Nil}, stamp : Stamp]

AnyMessage ==
  UNION {UndecodableMessage, DeleteMessage, OwnerMessage, AddMethodMessage,
         RemoveMethodMessage, AddServiceMessage, RemoveServiceMessage,
         NoticeMessage}

(***************************************************************************)
(* The state the loop carries from one message to the next.                *)
(***************************************************************************)
State ==
  [current     : Key,                       \* the established controller key
   methods     : [FragmentId -> Encoding \cup {Nil}],
   bucket      : [Relationship -> SUBSET FragmentId],
   services    : [FragmentId -> Endpoint \cup {Nil}],
   controller  : Controller \cup {Nil},
   created     : Stamp \cup {Nil},
   updated     : Stamp \cup {Nil},
   deactivated : BOOLEAN,
   exists      : BOOLEAN]

Start ==
  [current     |-> Anchor,
   methods     |-> [f \in FragmentId |-> Nil],
   bucket      |-> [r \in Relationship |-> {}],
   services    |-> [f \in FragmentId |-> Nil],
   controller  |-> Nil,
   created     |-> Nil,
   updated     |-> Nil,
   deactivated |-> FALSE,
   exists      |-> FALSE]

Touched(s, m) == [s EXCEPT !.updated = m.stamp]

(***************************************************************************)
(* Owner events.                                                           *)
(***************************************************************************)

(* base58 wins when both encodings are present.                            *)
EffectiveKeyBytes(m) == IF m.base58 # Nil THEN m.base58 ELSE m.multibase

(* multibase is published as it stands when it is present.                 *)
EffectiveKeyMultibase(m) == IF m.multibase # Nil THEN m.multibase ELSE m.base58

(* Fault: the first owner event may name any key.                          *)
FirstOwnerUnchecked(s, m) ==
  /\ m.id = "this"
  /\ EffectiveKeyBytes(m) \in Key \cup {OffCurve}

(* The event is about this DID, carries a 32-byte key and, when it is the  *)
(* first to be accepted, that key is the DID's own.                        *)
OwnerAccepted(s, m) ==
  /\ m.id = "this"
  /\ EffectiveKeyBytes(m) \in Key \cup {OffCurve}
  /\ s.exists \/ EffectiveKeyBytes(m) = Anchor

(* Fault: a rotation moves control but leaves the published root key.      *)
RootKeyKept(s, m) ==
  [s EXCEPT !.exists           = TRUE,
            !.current          = EffectiveKeyBytes(m),
            !.methods[RootKey] = IF @ = Nil THEN EffectiveKeyMultibase(m) ELSE @,
            !.controller       = m.controller,
            !.created          = IF @ = Nil THEN m.stamp ELSE @,
            !.updated          = m.stamp]

OwnerEstablished(s, m) ==
  [s EXCEPT !.exists           = TRUE,
            !.current          = EffectiveKeyBytes(m),
            !.methods[RootKey] = EffectiveKeyMultibase(m),
            !.controller       = m.controller,
            !.created          = IF @ = Nil THEN m.stamp ELSE @,
            !.updated          = m.stamp]

(* Fault: control moves to a key before it is known to be one.             *)
UncheckedRotation(s, m) ==
  IF OwnerAccepted(s, m) THEN OwnerEstablished(s, m) ELSE s

(* Fault: the creation time is taken from `updated` before that is set.    *)
CreatedFromUpdated(s, m) ==
  IF OwnerAccepted(s, m) /\ EffectiveKeyBytes(m) \in Key
  THEN [OwnerEstablished(s, m) EXCEPT
          !.created = IF s.created = Nil THEN s.updated ELSE s.created]
  ELSE s

(* A key that is no curve point ends the event after `exists` was set.     *)
ApplyOwner(s, m) ==
  CASE ~OwnerAccepted(s, m)           -> s
    [] OwnerAccepted(s, m) /\ EffectiveKeyBytes(m) \notin Key
                                      -> [s EXCEPT !.exists = TRUE]
    [] OTHER                          -> OwnerEstablished(s, m)

(***************************************************************************)
(* Verification methods and services.                                      *)
(***************************************************************************)
StartsWithDid(id) == id \notin ForeignFragment

(* Fault: the root key may be edited like any other method.                *)
RootEditable(id) == StartsWithDid(id)

EditableMethodId(id) == id # RootKey /\ StartsWithDid(id)

ApplyAddMethod(s, m) ==
  IF ~EditableMethodId(m.id) THEN s
  ELSE [s EXCEPT !.methods[m.id] = IF m.key # Nil THEN m.key ELSE @,
                 !.bucket = [r \in Relationship |->
                               IF r = m.relationship THEN @[r] \cup {m.id}
                               ELSE @[r]]]

ApplyRemoveMethod(s, m) ==
  IF ~EditableMethodId(m.id) THEN s
  ELSE [s EXCEPT !.methods[m.id] = Nil,
                 !.bucket = [r \in Relationship |-> @[r] \ {m.id}]]

ApplyAddService(s, m) ==
  IF ~StartsWithDid(m.id) THEN s
  ELSE [s EXCEPT !.services[m.id] = m.endpoint]

ApplyRemoveService(s, m) ==
  IF ~StartsWithDid(m.id) THEN s
  ELSE [s EXCEPT !.services[m.id] = Nil]

(***************************************************************************)
(* One round of the loop.  A message counts only while the loop runs, for  *)
(* the DID being resolved, and under the key that controls it at that      *)
(* point of the topic; an event whose applicator ignores it still moves    *)
(* `updated`, an owner event that is turned down does not.                 *)
(***************************************************************************)
(* Fault: the loop goes on after the tombstone.                            *)
CountsAfterTombstone(s, m) ==
  /\ m.did = "this"
  /\ m.kind # "undecodable"
  /\ m.signer = s.current

(* Fault: an owner event is verified with the key it carries.              *)
SelfVerified(s, m) ==
  /\ ~s.deactivated
  /\ m.did = "this"
  /\ m.kind # "undecodable"
  /\ m.signer = IF m.kind = "owner" THEN EffectiveKeyBytes(m) ELSE s.current

Counts(s, m) ==
  /\ ~s.deactivated
  /\ m.did = "this"
  /\ m.kind # "undecodable"
  /\ m.signer = s.current

(* Fault: a tombstone counts only for a DID that is established.           *)
TombstoneIfFound(s) == [s EXCEPT !.deactivated = s.exists]

Tombstone(s) == [s EXCEPT !.deactivated = TRUE]

Effect(s, m) ==
  CASE m.kind = "delete"        -> Tombstone(s)
    [] m.kind = "owner"         -> ApplyOwner(s, m)
    [] m.kind = "addMethod"     -> Touched(ApplyAddMethod(s, m), m)
    [] m.kind = "removeMethod"  -> Touched(ApplyRemoveMethod(s, m), m)
    [] m.kind = "addService"    -> Touched(ApplyAddService(s, m), m)
    [] m.kind = "removeService" -> Touched(ApplyRemoveService(s, m), m)
    [] OTHER                    -> Touched(s, m)

Step(s, m) == IF Counts(s, m) THEN Effect(s, m) ELSE s

(* The loop over a topic, less the messages at the places in out.          *)
Folded(messages, out) ==
  LET state[n \in 0 .. Len(messages)] ==
        IF n = 0 THEN Start
        ELSE IF n \in out THEN state[n - 1]
        ELSE Step(state[n - 1], messages[n])
  IN state[Len(messages)]

(***************************************************************************)
(* What resolve returns once the messages are used up: NotFound, or a      *)
(* document that is empty when the DID was deactivated and lists the root  *)
(* key under authentication and assertionMethod otherwise.                 *)
(***************************************************************************)
NotFound == [found |-> FALSE]

Outcome(s) ==
  IF ~s.exists THEN NotFound
  ELSE [found       |-> TRUE,
        controller  |-> IF s.controller # Nil THEN s.controller ELSE "this",
        methods     |-> IF s.deactivated THEN [f \in FragmentId |-> Nil]
                        ELSE s.methods,
        services    |-> IF s.deactivated THEN [f \in FragmentId |-> Nil]
                        ELSE s.services,
        bucket      |-> IF s.deactivated THEN [r \in Relationship |-> {}]
                        ELSE [r \in Relationship |->
                                IF r \in {"authentication", "assertionMethod"}
                                THEN s.bucket[r] \cup {RootKey}
                                ELSE s.bucket[r]],
        created     |-> s.created,
        updated     |-> s.updated,
        deactivated |-> s.deactivated]

(***************************************************************************)
(* How far a DID has come, and everything a reader may be shown of it.     *)
(***************************************************************************)
StageOf(s) ==
  CASE ~s.deactivated /\ ~s.exists -> "absent"
    [] ~s.deactivated /\ s.exists  -> "live"
    [] s.deactivated /\ s.exists   -> "ended"
    [] s.deactivated /\ ~s.exists  -> "void"

ContentsOf(s) ==
  <<s.methods, s.bucket, s.services, s.controller, s.created, s.updated>>

(***************************************************************************)
(* dereference_did: what a DID URL with a fragment leads to, in the        *)
(* document that was resolved.                                             *)
(***************************************************************************)
Resource(kind, content) == [kind |-> kind, content |-> content]

(* Fault: the services are searched first.                                 *)
ServicesFirst(document, id) ==
  IF document.services[id] # Nil THEN Resource("service", document.services[id])
  ELSE IF document.methods[id] # Nil THEN Resource("method", document.methods[id])
  ELSE NotFound

(* A service may have the id of a method, and of the root key.             *)
FragmentIn(document, id) ==
  IF document.methods[id] # Nil THEN Resource("method", document.methods[id])
  ELSE IF document.services[id] # Nil THEN Resource("service", document.services[id])
  ELSE NotFound

(* Without a fragment the URL leads to the document, represented as asked. *)
Dereference(s, id) ==
  IF ~Outcome(s).found THEN NotFound ELSE FragmentIn(Outcome(s), id)
================================================================================
