------------------------------ MODULE DidResolver ------------------------------
(***************************************************************************)
(* A topic that anyone appends to, and the state DidDocumentBuilder::      *)
(* resolve reaches on every prefix of it.  resolve is a left fold that     *)
(* starts anew on each call, so a call that reads n messages and a later   *)
(* one that reads n + 1 differ by one Step: the behaviours of this module  *)
(* relate what successive readers of the same topic are told.              *)
(***************************************************************************)
EXTENDS DidDocument

CONSTANT Message    \* the messages that may be posted
ASSUME MessageAssumption == Message \subseteq AnyMessage

VARIABLES
  doc,    \* the fold over the messages posted so far
  by      \* the key the last message verifies under

vars == <<doc, by>>

Init ==
  /\ doc = Start
  /\ by = Nil

Receive(m) ==
  /\ doc' = Step(doc, m)
  /\ by' = m.signer

Next == \E m \in Message : Receive(m)

Spec == Init /\ [][Next]_vars

(***************************************************************************)
(* Properties                                                              *)
(***************************************************************************)

(* The fold's state keeps its shape, whatever is posted.                   *)
TypeOK ==
  /\ doc \in State
  /\ by \in Key \cup {Nil}

(* Control does not leave the key in the DID string before an owner event  *)
(* was accepted (builder.rs 157-167).                                      *)
AnchorUntilEstablished == ~doc.exists => doc.current = Anchor

(* An accepted owner event sets `exists`, the controller, the creation     *)
(* time and the root key together, and nothing else sets any of them: a    *)
(* document that is found is complete, and one that is not holds none of   *)
(* the parts only an owner may publish (builder.rs 141-183, 304-340).      *)
EstablishedTogether ==
  /\ doc.exists <=> doc.created # Nil
  /\ doc.exists <=> doc.controller # Nil
  /\ doc.exists <=> doc.methods[RootKey] # Nil
  /\ doc.exists => doc.updated # Nil

(* The root key's URL leads to the key that controls the DID, whatever     *)
(* methods and services were added, also a service with the id of the root *)
(* key: whoever verifies with the one and whoever accepts updates under the*)
(* other agree (events.rs 48-81, builder.rs 147-179, dereference.rs 58-67).*)
RootKeyControls ==
  doc.exists /\ ~doc.deactivated =>
    Dereference(doc, RootKey) = Resource("method", doc.current)

(* Every id a document publishes belongs to the DID being resolved         *)
(* (builder.rs 335-340, 410-414).                                          *)
OnlyOwnFragments ==
  \A id \in FragmentId :
    doc.methods[id] # Nil \/ doc.services[id] # Nil
      => id \in OwnFragment \cup {RootKey}

(* Posting a message twice in a row says no more than posting it once: a   *)
(* submission repeated after an unknown receipt does no harm when nothing  *)
(* came between (create.rs 171-184).                                       *)
RedeliveryInert ==
  \A m \in Message : Step(Step(doc, m), m) = Step(doc, m)

(* A DID that one reader found is found by every later reader, with the    *)
(* same creation time, and one that was deactivated stays as it is.        *)
OutcomeStable ==
  [][/\ doc.exists => doc'.exists /\ doc'.created = doc.created
     /\ doc.deactivated => Outcome(doc') = Outcome(doc)]_vars

(***************************************************************************)
(* The fold implements ControlledDid.                                      *)
(***************************************************************************)
Controlled ==
  INSTANCE ControlledDid
    WITH holder   <- doc.current,
         stage    <- StageOf(doc),
         contents <- ContentsOf(doc),
         author   <- by

ImplementsControlledDid == Controlled!Spec
================================================================================
