-------------------------- MODULE DidResolver_proofs --------------------------
(***************************************************************************)
(* Proofs about the behaviours of DidResolver and DidStrangers, for every  *)
(* set of keys, ids, timestamps and messages.                              *)
(***************************************************************************)
EXTENDS DidStrangers, DidDocument_proofs

(* Type correctness of every behaviour.                                    *)
THEOREM TypeCorrect == Spec => []TypeOK
<1>1. Init => TypeOK
  BY StartType DEF Init, TypeOK
<1>2. TypeOK /\ [Next]_vars => TypeOK'
  <2> SUFFICES ASSUME TypeOK, [Next]_vars
               PROVE  TypeOK'
    OBVIOUS
  <2>1. ASSUME NEW m \in Message, Receive(m)
        PROVE  TypeOK'
    <3>1. m \in AnyMessage
      BY MessageAssumption
    <3> QED
      BY <2>1, <3>1, StepType, SignerType DEF Receive, TypeOK
  <2>2. CASE UNCHANGED vars
    BY <2>2 DEF vars, TypeOK
  <2> QED
    BY <2>1, <2>2 DEF Next
<1> QED
  BY <1>1, <1>2, PTL DEF Spec

(***************************************************************************)
(* The inductive invariant: what holds of the state the fold reaches on    *)
(* every prefix of every topic.                                            *)
(***************************************************************************)
IInv ==
  /\ TypeOK
  /\ AnchorUntilEstablished
  /\ EstablishedTogether

LEMMA InitIInv == Init => IInv
<1> SUFFICES ASSUME Init
             PROVE  IInv
  OBVIOUS
<1>1. TypeOK
  BY StartType DEF Init, TypeOK
<1>2. RootKey \in FragmentId
  BY DEF FragmentId
<1> QED
  BY <1>1, <1>2 DEF Init, Start, IInv, AnchorUntilEstablished, EstablishedTogether

LEMMA ReceiveIInv ==
  ASSUME IInv, NEW m \in Message, Receive(m)
  PROVE  IInv'
<1>1. m \in AnyMessage /\ doc \in State /\ doc' = Step(doc, m)
  BY MessageAssumption DEF IInv, TypeOK, Receive
<1>2. TypeOK'
  BY <1>1, StepType, SignerType DEF Receive, TypeOK
<1>3. CASE doc' = doc
  BY <1>2, <1>3 DEF IInv, AnchorUntilEstablished, EstablishedTogether
<1>4. CASE doc' = [doc EXCEPT !.deactivated = TRUE]
  BY <1>1, <1>2, <1>4 DEF IInv, AnchorUntilEstablished, EstablishedTogether, State
<1>5. CASE EditOnly(doc, doc')
  BY <1>2, <1>5, NilAssumption
     DEF IInv, AnchorUntilEstablished, EstablishedTogether, EditOnly
<1>6. CASE /\ m \in OwnerMessage
           /\ OwnerAccepted(doc, m)
           /\ EffectiveKeyBytes(m) \in Key
           /\ doc' = OwnerEstablished(doc, m)
  <2>1. m.stamp # Nil /\ m.controller # Nil
    BY <1>6, NilAssumption DEF OwnerMessage
  <2>2. EffectiveKeyMultibase(m) # Nil
    BY <1>6, NilAssumption DEF EffectiveKeyMultibase, EffectiveKeyBytes
  <2>3. RootKey \in FragmentId
    BY DEF FragmentId
  <2>4. /\ doc'.exists = TRUE
        /\ doc'.controller = m.controller
        /\ doc'.updated = m.stamp
        /\ doc'.created = IF doc.created = Nil THEN m.stamp ELSE doc.created
        /\ doc'.methods[RootKey] = EffectiveKeyMultibase(m)
    BY <1>1, <1>6, <2>3 DEF OwnerEstablished, State
  <2> QED
    BY <1>2, <2>1, <2>2, <2>4 DEF IInv, AnchorUntilEstablished, EstablishedTogether
<1> QED
  BY <1>1, <1>3, <1>4, <1>5, <1>6, StepCases

LEMMA Invariance == Spec => []IInv
<1>1. IInv /\ [Next]_vars => IInv'
  <2> SUFFICES ASSUME IInv, [Next]_vars
               PROVE  IInv'
    OBVIOUS
  <2>1. CASE UNCHANGED vars
    BY <2>1 DEF vars, IInv, TypeOK, AnchorUntilEstablished, EstablishedTogether
  <2> QED
    BY <2>1, ReceiveIInv DEF Next
<1> QED
  BY InitIInv, <1>1, PTL DEF Spec

(* A found document is complete and a missing one holds nothing of it.     *)
THEOREM Established == Spec => []EstablishedTogether
<1>1. IInv => EstablishedTogether
  BY DEF IInv
<1> QED
  BY <1>1, Invariance, PTL

(* Control stays with the key in the DID string until an owner event is    *)
(* accepted.                                                               *)
THEOREM AnchorFirst == Spec => []AnchorUntilEstablished
<1>1. IInv => AnchorUntilEstablished
  BY DEF IInv
<1> QED
  BY <1>1, Invariance, PTL

(***************************************************************************)
(* The published root key, when no owner event carries two different keys. *)
(***************************************************************************)
EncodingsAgree ==
  \A m \in Message \cap OwnerMessage :
    m.multibase = Nil \/ m.base58 = Nil \/ m.multibase = m.base58

(* What the fold keeps, also behind a tombstone.                            *)
RootMatches == doc.exists => doc.methods[RootKey] = doc.current

(* Readers who verify with the published root key and the resolver that    *)
(* verifies with the key it follows use the same key.                      *)
THEOREM RootKeyIsController ==
  ASSUME EncodingsAgree
  PROVE  Spec => []RootKeyControls
<1> DEFINE Inv == IInv /\ RootMatches
<1>1. Init => RootMatches
  BY DEF Init, Start, RootMatches
<1>2. Inv /\ IInv' /\ [Next]_vars => RootMatches'
  <2> SUFFICES ASSUME Inv, IInv', [Next]_vars
               PROVE  RootMatches'
    OBVIOUS
  <2>1. ASSUME NEW m \in Message, Receive(m)
        PROVE  RootMatches'
    <3>1. m \in AnyMessage /\ doc \in State /\ doc' = Step(doc, m)
      BY <2>1, MessageAssumption DEF IInv, TypeOK, Receive
    <3>2. CASE doc' = doc
      BY <3>2 DEF RootMatches
    <3>3. CASE doc' = [doc EXCEPT !.deactivated = TRUE]
      BY <3>1, <3>3 DEF RootMatches, State
    <3>4. CASE EditOnly(doc, doc')
      BY <3>4 DEF RootMatches, EditOnly
    <3>5. CASE /\ m \in OwnerMessage
               /\ EffectiveKeyBytes(m) \in Key
               /\ doc' = OwnerEstablished(doc, m)
      <4>1. EffectiveKeyMultibase(m) = EffectiveKeyBytes(m)
        BY <2>1, <3>5, EncodingsAgree, NilAssumption
           DEF EncodingsAgree, EffectiveKeyMultibase, EffectiveKeyBytes
      <4>2. RootKey \in FragmentId
        BY DEF FragmentId
      <4>3. /\ doc'.current = EffectiveKeyBytes(m)
            /\ doc'.methods[RootKey] = EffectiveKeyMultibase(m)
        BY <3>1, <3>5, <4>2 DEF OwnerEstablished, State
      <4> QED
        BY <4>1, <4>3 DEF RootMatches
    <3> QED
      BY <3>1, <3>2, <3>3, <3>4, <3>5, StepCases
  <2>2. CASE UNCHANGED vars
    BY <2>2 DEF vars, RootMatches
  <2> QED
    BY <2>1, <2>2 DEF Next
<1>3. Inv => RootKeyControls
  <2> SUFFICES ASSUME Inv, doc.exists, ~doc.deactivated
               PROVE  Dereference(doc, RootKey) = Resource("method", doc.current)
    BY DEF RootKeyControls
  <2>1. doc.methods[RootKey] = doc.current /\ doc.current # Nil
    BY NilAssumption DEF IInv, TypeOK, State, RootMatches
  <2>2. Outcome(doc).found /\ Outcome(doc).methods = doc.methods
    BY DEF Outcome
  <2> QED
    BY <2>1, <2>2 DEF Dereference, FragmentIn
<1> QED
  BY <1>1, <1>2, <1>3, Invariance, PTL DEF Spec

(* A second copy of a message, right after the first, changes nothing.     *)
COROLLARY RedeliveryAlwaysInert == Spec => []RedeliveryInert
<1>1. TypeOK => RedeliveryInert
  BY RedeliveryIsInert, MessageAssumption DEF TypeOK, RedeliveryInert
<1> QED
  BY <1>1, TypeCorrect, PTL

(***************************************************************************)
(* Successive readers.                                                     *)
(***************************************************************************)

(* What a reader was told about existence, creation and deactivation is    *)
(* never taken back.                                                       *)
THEOREM OutcomesAreStable == Spec => OutcomeStable
<1>1. IInv /\ IInv' /\ [Next]_vars
        => [/\ doc.exists => doc'.exists /\ doc'.created = doc.created
            /\ doc.deactivated => Outcome(doc') = Outcome(doc)]_vars
  <2> SUFFICES ASSUME IInv, IInv', NEW m \in Message, Receive(m)
               PROVE  /\ doc.exists => doc'.exists /\ doc'.created = doc.created
                      /\ doc.deactivated => Outcome(doc') = Outcome(doc)
    BY DEF Next
  <2>1. m \in AnyMessage /\ doc \in State /\ doc' = Step(doc, m)
    BY MessageAssumption DEF IInv, TypeOK, Receive
  <2>2. CASE doc' = doc
    BY <2>2
  <2>3. CASE Counts(doc, m) /\ doc' = [doc EXCEPT !.deactivated = TRUE]
    BY <2>1, <2>3 DEF Counts, State
  <2>4. CASE Counts(doc, m) /\ EditOnly(doc, doc')
    BY <2>4 DEF Counts, EditOnly
  <2>5. CASE /\ Counts(doc, m)
             /\ doc' = OwnerEstablished(doc, m)
    <3>1. /\ doc'.exists = TRUE
          /\ doc'.created = IF doc.created = Nil THEN m.stamp ELSE doc.created
      BY <2>1, <2>5 DEF OwnerEstablished, State
    <3>2. doc.exists => doc.created # Nil
      BY DEF IInv, EstablishedTogether
    <3> QED
      BY <2>5, <3>1, <3>2 DEF Counts
  <2> QED
    BY <2>1, <2>2, <2>3, <2>4, <2>5, StepCases
<1> QED
  BY <1>1, Invariance, PTL DEF Spec, OutcomeStable

(***************************************************************************)
(* Refinement: the fold over a topic anyone may post to implements a DID   *)
(* that only its controlling key can change.                               *)
(***************************************************************************)
LEMMA InitImplements == Init => Controlled!Init
BY DEF Init, Start, Controlled!Init, StageOf

LEMMA ReceiveImplements ==
  ASSUME IInv, NEW m \in Message, Receive(m)
  PROVE  Controlled!Next
<1>1. /\ m \in AnyMessage
      /\ doc \in State
      /\ doc' = Step(doc, m)
      /\ by' = m.signer
      /\ ~doc.exists => doc.current = Anchor
  BY MessageAssumption DEF IInv, TypeOK, Receive, AnchorUntilEstablished
<1>2. doc' = doc \/ (by' = doc.current /\ Evolves(doc, doc'))
  BY <1>1, StepEvolves
<1>3. CASE doc' = doc
  BY <1>3 DEF Controlled!Next, Controlled!Ignored
<1>4. CASE by' = doc.current /\ Evolves(doc, doc')
  BY <1>4 DEF Evolves, Controlled!Next, Controlled!Edit, Controlled!Establish,
              Controlled!HandOver, Controlled!End
<1> QED
  BY <1>2, <1>3, <1>4

THEOREM Refinement == Spec => ImplementsControlledDid
<1>1. IInv /\ [Next]_vars => [Controlled!Next]_(Controlled!vars)
  <2> SUFFICES ASSUME IInv, [Next]_vars
               PROVE  [Controlled!Next]_(Controlled!vars)
    OBVIOUS
  <2>1. CASE UNCHANGED vars
    BY <2>1 DEF vars, Controlled!vars, StageOf, ContentsOf
  <2>2. CASE Next
    BY <2>2, ReceiveImplements DEF Next
  <2> QED
    BY <2>1, <2>2
<1> QED
  BY InitImplements, <1>1, Invariance, PTL
     DEF Spec, ImplementsControlledDid, Controlled!Spec

(***************************************************************************)
(* Strangers have no influence, whatever the keys, the messages and the    *)
(* order they are posted in.                                               *)
(***************************************************************************)

(* The message of a stranger, or about another DID, never counts.          *)
LEMMA OutsidersDoNotCount ==
  ASSUME NEW s \in State, s.current \in Insider,
         NEW m \in AnyMessage, ~FromInsider(m)
  PROVE  Step(s, m) = s
BY DEF FromInsider, Step, Counts

(* Control stays among the insiders.                                       *)
LEMMA InsidersKeepControl ==
  ASSUME NEW s \in State, s.current \in Insider, NEW m \in Message
  PROVE  Step(s, m).current \in Insider
<1>1. m \in AnyMessage
  BY MessageAssumption
<1>2. CASE Step(s, m) = s
  BY <1>2
<1>3. CASE Step(s, m) = [s EXCEPT !.deactivated = TRUE]
  BY <1>3 DEF State
<1>4. CASE EditOnly(s, Step(s, m))
  BY <1>4 DEF EditOnly
<1>5. CASE /\ Counts(s, m)
           /\ m \in OwnerMessage
           /\ EffectiveKeyBytes(m) \in Key
           /\ Step(s, m) = OwnerEstablished(s, m)
  <2>1. m.signer \in Insider
    BY <1>5 DEF Counts
  <2>2. EffectiveKeyBytes(m) \in Insider
    BY <1>5, <2>1, InsiderAssumption
  <2>3. Step(s, m).current = EffectiveKeyBytes(m)
    BY <1>5 DEF OwnerEstablished, State
  <2> QED
    BY <2>2, <2>3
<1> QED
  BY <1>1, <1>2, <1>3, <1>4, <1>5, StepCases

(* A resolver that reads everything and one that reads only what insiders  *)
(* posted for this DID agree after every message.                          *)
THEOREM StrangersAreInert == PairSpec => []StrangersInert
<1> DEFINE Inv == doc \in State /\ StrangersInert
<1>1. PairInit => Inv
  BY StartType, InsiderAssumption DEF PairInit, Init, Start, StrangersInert
<1>2. Inv /\ [PairNext]_pairVars => Inv'
  <2> SUFFICES ASSUME Inv, [PairNext]_pairVars
               PROVE  Inv'
    OBVIOUS
  <2>1. ASSUME NEW m \in Message, PairReceive(m)
        PROVE  Inv'
    <3>1. m \in AnyMessage /\ doc' = Step(doc, m)
      BY <2>1, MessageAssumption DEF PairReceive, Receive
    <3>2. doc' \in State /\ doc'.current \in Insider
      BY <3>1, StepType, InsidersKeepControl DEF StrangersInert
    <3>3. doc' = heard'
      <4>1. CASE FromInsider(m)
        BY <2>1, <3>1, <4>1 DEF PairReceive, StrangersInert
      <4>2. CASE ~FromInsider(m)
        BY <2>1, <3>1, <4>2, OutsidersDoNotCount DEF PairReceive, StrangersInert
      <4> QED
        BY <4>1, <4>2
    <3> QED
      BY <3>2, <3>3 DEF StrangersInert
  <2>2. CASE UNCHANGED pairVars
    BY <2>2 DEF pairVars, StrangersInert
  <2> QED
    BY <2>1, <2>2 DEF PairNext
<1>3. Inv => StrangersInert
  OBVIOUS
<1> QED
  BY <1>1, <1>2, <1>3, PTL DEF PairSpec
================================================================================
