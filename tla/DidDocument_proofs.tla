-------------------------- MODULE DidDocument_proofs --------------------------
(***************************************************************************)
(* What one round of the resolver's loop does to any state and for any     *)
(* message: for every set of keys, ids and timestamps.                     *)
(***************************************************************************)
EXTENDS DidMessages, WellFoundedInduction, TLAPS

(***************************************************************************)
(* The fold keeps the shape of its state.  One lemma per applicator.       *)
(***************************************************************************)
LEMMA TouchedType ==
  ASSUME NEW s \in State, NEW m, m.stamp \in Stamp
  PROVE  Touched(s, m) \in State
BY DEF State, Touched

LEMMA OwnerEstablishedType ==
  ASSUME NEW s \in State, NEW m \in OwnerMessage, EffectiveKeyBytes(m) \in Key
  PROVE  OwnerEstablished(s, m) \in State
<1>1. EffectiveKeyMultibase(m) \in Encoding \cup {Nil}
  BY DEF EffectiveKeyMultibase, OwnerMessage
<1>2. m.controller \in Controller /\ m.stamp \in Stamp
  BY DEF OwnerMessage
<1>3. RootKey \in FragmentId
  BY DEF FragmentId
<1> QED
  BY <1>1, <1>2, <1>3 DEF OwnerEstablished, State

LEMMA OwnerType ==
  ASSUME NEW s \in State, NEW m \in OwnerMessage
  PROVE  ApplyOwner(s, m) \in State
<1>1. CASE ~OwnerAccepted(s, m)
  BY <1>1 DEF ApplyOwner
<1>2. CASE OwnerAccepted(s, m) /\ EffectiveKeyBytes(m) \notin Key
  BY <1>2 DEF ApplyOwner, State
<1>3. CASE OwnerAccepted(s, m) /\ EffectiveKeyBytes(m) \in Key
  BY <1>3, OwnerEstablishedType DEF ApplyOwner
<1> QED
  BY <1>1, <1>2, <1>3

LEMMA AddMethodType ==
  ASSUME NEW s \in State, NEW m \in AddMethodMessage
  PROVE  ApplyAddMethod(s, m) \in State
BY DEF ApplyAddMethod, AddMethodMessage, State

LEMMA RemoveMethodType ==
  ASSUME NEW s \in State, NEW m \in RemoveMethodMessage
  PROVE  ApplyRemoveMethod(s, m) \in State
BY DEF ApplyRemoveMethod, RemoveMethodMessage, State

LEMMA AddServiceType ==
  ASSUME NEW s \in State, NEW m \in AddServiceMessage
  PROVE  ApplyAddService(s, m) \in State
BY DEF ApplyAddService, AddServiceMessage, State

LEMMA RemoveServiceType ==
  ASSUME NEW s \in State, NEW m \in RemoveServiceMessage
  PROVE  ApplyRemoveService(s, m) \in State
BY DEF ApplyRemoveService, RemoveServiceMessage, State

(* Whatever is posted, the state of the fold stays well-formed.            *)
THEOREM StepType ==
  ASSUME NEW s \in State, NEW m \in AnyMessage
  PROVE  Step(s, m) \in State
<1>1. CASE ~Counts(s, m)
  BY <1>1 DEF Step
<1>2. CASE Counts(s, m)
  <2>1. m.stamp \in Stamp
    BY DEF AnyMessage, UndecodableMessage, DeleteMessage, OwnerMessage,
           AddMethodMessage, RemoveMethodMessage, AddServiceMessage,
           RemoveServiceMessage, NoticeMessage
  <2>2. CASE m \in DeleteMessage
    <3>1. m.kind = "delete"
      BY <2>2 DEF DeleteMessage
    <3>2. [s EXCEPT !.deactivated = TRUE] \in State
      BY DEF State
    <3> QED
      BY <1>2, <3>1, <3>2 DEF Step, Effect, Tombstone
  <2>3. CASE m \in OwnerMessage
    <3>1. m.kind = "owner"
      BY <2>3 DEF OwnerMessage
    <3> QED
      BY <1>2, <2>3, <3>1, OwnerType DEF Step, Effect, Tombstone
  <2>4. CASE m \in AddMethodMessage
    <3>1. m.kind = "addMethod"
      BY <2>4 DEF AddMethodMessage
    <3> QED
      BY <1>2, <2>1, <2>4, <3>1, AddMethodType, TouchedType DEF Step, Effect, Tombstone
  <2>5. CASE m \in RemoveMethodMessage
    <3>1. m.kind = "removeMethod"
      BY <2>5 DEF RemoveMethodMessage
    <3> QED
      BY <1>2, <2>1, <2>5, <3>1, RemoveMethodType, TouchedType DEF Step, Effect, Tombstone
  <2>6. CASE m \in AddServiceMessage
    <3>1. m.kind = "addService"
      BY <2>6 DEF AddServiceMessage
    <3> QED
      BY <1>2, <2>1, <2>6, <3>1, AddServiceType, TouchedType DEF Step, Effect, Tombstone
  <2>7. CASE m \in RemoveServiceMessage
    <3>1. m.kind = "removeService"
      BY <2>7 DEF RemoveServiceMessage
    <3> QED
      BY <1>2, <2>1, <2>7, <3>1, RemoveServiceType, TouchedType DEF Step, Effect, Tombstone
  <2>8. CASE m \in NoticeMessage \cup UndecodableMessage
    <3>1. m.kind \in {"notice", "undecodable"}
      BY <2>8 DEF NoticeMessage, UndecodableMessage
    <3> QED
      BY <1>2, <2>1, <3>1, TouchedType DEF Step, Effect, Tombstone
  <2> QED
    BY <2>2, <2>3, <2>4, <2>5, <2>6, <2>7, <2>8 DEF AnyMessage
<1> QED
  BY <1>1, <1>2

LEMMA StartType == Start \in State
BY KeyAssumption DEF Start, State

LEMMA SignerType ==
  ASSUME NEW m \in AnyMessage
  PROVE  m.signer \in Key \cup {Nil}
BY DEF AnyMessage, UndecodableMessage, DeleteMessage, OwnerMessage,
       AddMethodMessage, RemoveMethodMessage, AddServiceMessage,
       RemoveServiceMessage, NoticeMessage

(***************************************************************************)
(* What one message can do.  An edit leaves everything alone that only an  *)
(* owner event or a deactivation may change.                               *)
(***************************************************************************)
EditOnly(s, t) ==
  /\ t.current = s.current
  /\ t.controller = s.controller
  /\ t.created = s.created
  /\ t.updated \in Stamp
  /\ t.deactivated = s.deactivated
  /\ t.exists = s.exists
  /\ t.methods[RootKey] = s.methods[RootKey]

LEMMA TouchedEdits ==
  ASSUME NEW s \in State, NEW m, m.stamp \in Stamp
  PROVE  EditOnly(s, Touched(s, m))
BY DEF State, Touched, EditOnly

LEMMA AddMethodEdits ==
  ASSUME NEW s \in State, NEW m \in AddMethodMessage
  PROVE  EditOnly(s, Touched(ApplyAddMethod(s, m), m))
BY DEF State, Touched, EditOnly, ApplyAddMethod, EditableMethodId, AddMethodMessage

LEMMA RemoveMethodEdits ==
  ASSUME NEW s \in State, NEW m \in RemoveMethodMessage
  PROVE  EditOnly(s, Touched(ApplyRemoveMethod(s, m), m))
BY DEF State, Touched, EditOnly, ApplyRemoveMethod, EditableMethodId,
       RemoveMethodMessage

LEMMA AddServiceEdits ==
  ASSUME NEW s \in State, NEW m \in AddServiceMessage
  PROVE  EditOnly(s, Touched(ApplyAddService(s, m), m))
BY DEF State, Touched, EditOnly, ApplyAddService, AddServiceMessage

LEMMA RemoveServiceEdits ==
  ASSUME NEW s \in State, NEW m \in RemoveServiceMessage
  PROVE  EditOnly(s, Touched(ApplyRemoveService(s, m), m))
BY DEF State, Touched, EditOnly, ApplyRemoveService, RemoveServiceMessage

(* An accepted owner event either establishes its key or, when that is no  *)
(* curve point, has no effect: only an established DID gets that far.      *)
LEMMA OwnerCases ==
  ASSUME NEW s \in State, NEW m \in OwnerMessage
  PROVE  \/ ApplyOwner(s, m) = s
         \/ /\ OwnerAccepted(s, m)
            /\ EffectiveKeyBytes(m) \in Key
            /\ ApplyOwner(s, m) = OwnerEstablished(s, m)
<1>1. CASE OwnerAccepted(s, m) /\ EffectiveKeyBytes(m) \notin Key
  <2>1. s.exists = TRUE
    BY <1>1, KeyAssumption DEF OwnerAccepted, State
  <2>2. [s EXCEPT !.exists = TRUE] = s
    BY <2>1 DEF State
  <2> QED
    BY <1>1, <2>2 DEF ApplyOwner
<1> QED
  BY <1>1 DEF ApplyOwner

LEMMA StepCases ==
  ASSUME NEW s \in State, NEW m \in AnyMessage
  PROVE  \/ Step(s, m) = s
         \/ /\ Counts(s, m)
            /\ \/ Step(s, m) = [s EXCEPT !.deactivated = TRUE]
               \/ EditOnly(s, Step(s, m))
               \/ /\ m \in OwnerMessage
                  /\ OwnerAccepted(s, m)
                  /\ EffectiveKeyBytes(m) \in Key
                  /\ Step(s, m) = OwnerEstablished(s, m)
<1> SUFFICES ASSUME Counts(s, m)
             PROVE  \/ Effect(s, m) = s
                    \/ Effect(s, m) = [s EXCEPT !.deactivated = TRUE]
                    \/ EditOnly(s, Effect(s, m))
                    \/ /\ m \in OwnerMessage
                       /\ OwnerAccepted(s, m)
                       /\ EffectiveKeyBytes(m) \in Key
                       /\ Effect(s, m) = OwnerEstablished(s, m)
  BY DEF Step
<1>1. m.stamp \in Stamp
  BY DEF AnyMessage, UndecodableMessage, DeleteMessage, OwnerMessage,
         AddMethodMessage, RemoveMethodMessage, AddServiceMessage,
         RemoveServiceMessage, NoticeMessage
<1>2. CASE m \in DeleteMessage
  BY <1>2 DEF DeleteMessage, Effect, Tombstone
<1>3. CASE m \in OwnerMessage
  <2>1. m.kind = "owner"
    BY <1>3 DEF OwnerMessage
  <2>2. Effect(s, m) = ApplyOwner(s, m)
    BY <2>1 DEF Effect, Tombstone
  <2> QED
    BY <1>3, <2>2, OwnerCases
<1>4. CASE m \in AddMethodMessage
  <2>1. m.kind = "addMethod"
    BY <1>4 DEF AddMethodMessage
  <2> QED
    BY <1>4, <2>1, AddMethodEdits DEF Effect, Tombstone
<1>5. CASE m \in RemoveMethodMessage
  <2>1. m.kind = "removeMethod"
    BY <1>5 DEF RemoveMethodMessage
  <2> QED
    BY <1>5, <2>1, RemoveMethodEdits DEF Effect, Tombstone
<1>6. CASE m \in AddServiceMessage
  <2>1. m.kind = "addService"
    BY <1>6 DEF AddServiceMessage
  <2> QED
    BY <1>6, <2>1, AddServiceEdits DEF Effect, Tombstone
<1>7. CASE m \in RemoveServiceMessage
  <2>1. m.kind = "removeService"
    BY <1>7 DEF RemoveServiceMessage
  <2> QED
    BY <1>7, <2>1, RemoveServiceEdits DEF Effect, Tombstone
<1>8. CASE m \in NoticeMessage \cup UndecodableMessage
  <2>1. m.kind \in {"notice", "undecodable"}
    BY <1>8 DEF NoticeMessage, UndecodableMessage
  <2> QED
    BY <1>1, <2>1, TouchedEdits DEF Effect, Tombstone
<1> QED
  BY <1>2, <1>3, <1>4, <1>5, <1>6, <1>7, <1>8 DEF AnyMessage

(***************************************************************************)
(* Stages: what a message may do to a DID, in terms of its readers.        *)
(***************************************************************************)
LEMMA StageTotal ==
  ASSUME NEW s \in State
  PROVE  /\ ~s.deactivated /\ ~s.exists <=> StageOf(s) = "absent"
         /\ ~s.deactivated /\ s.exists  <=> StageOf(s) = "live"
         /\ s.deactivated /\ s.exists   <=> StageOf(s) = "ended"
         /\ s.deactivated /\ ~s.exists  <=> StageOf(s) = "void"
BY DEF StageOf, State

(* What the controlling key may do to a DID, whose control is with the key *)
(* in its name until it is established.                                    *)
Evolves(s, t) ==
  /\ StageOf(s) \in {"absent", "live"}
  /\ \/ StageOf(t) = StageOf(s) /\ t.current = s.current
     \/ StageOf(s) = "absent" /\ StageOf(t) = "live" /\ t.current = s.current
     \/ StageOf(s) = "live" /\ StageOf(t) = "live" /\ t.current \in Key
     \/ /\ StageOf(t) = IF StageOf(s) = "live" THEN "ended" ELSE "void"
        /\ t.current = s.current /\ ContentsOf(t) = ContentsOf(s)

LEMMA StepEvolves ==
  ASSUME NEW s \in State, NEW m \in AnyMessage, ~s.exists => s.current = Anchor
  PROVE  Step(s, m) = s \/ (m.signer = s.current /\ Evolves(s, Step(s, m)))
<1> DEFINE t == Step(s, m)
<1>1. t \in State
  BY StepType
<1>2. Counts(s, m) => m.signer = s.current /\ StageOf(s) \in {"absent", "live"}
  BY StageTotal DEF Counts, State
<1>3. CASE Counts(s, m) /\ t = [s EXCEPT !.deactivated = TRUE]
  <2>1. /\ t.current = s.current /\ t.exists = s.exists /\ t.deactivated = TRUE
        /\ ContentsOf(t) = ContentsOf(s)
    BY <1>3 DEF State, ContentsOf
  <2>2. StageOf(t) = IF StageOf(s) = "live" THEN "ended" ELSE "void"
    BY <1>1, <1>2, <1>3, <2>1, StageTotal
  <2> QED
    BY <1>2, <1>3, <2>1, <2>2 DEF Evolves
<1>4. CASE Counts(s, m) /\ EditOnly(s, t)
  <2>1. StageOf(t) = StageOf(s) /\ t.current = s.current
    BY <1>4 DEF StageOf, EditOnly
  <2> QED
    BY <1>2, <1>4, <2>1 DEF Evolves
<1>5. CASE /\ Counts(s, m)
           /\ OwnerAccepted(s, m)
           /\ EffectiveKeyBytes(m) \in Key
           /\ t = OwnerEstablished(s, m)
  <2>1. t.current = EffectiveKeyBytes(m) /\ t.exists = TRUE /\ t.deactivated = s.deactivated
    BY <1>5 DEF OwnerEstablished, State
  <2>2. StageOf(t) = "live"
    BY <1>1, <1>5, <2>1, StageTotal DEF Counts, State
  <2>3. StageOf(s) = IF s.exists THEN "live" ELSE "absent"
    BY <1>5, StageTotal DEF Counts, State
  <2>4. ~s.exists => t.current = s.current
    BY <1>5, <2>1 DEF OwnerAccepted
  <2> QED
    BY <1>2, <1>5, <2>1, <2>2, <2>3, <2>4 DEF Evolves
<1> QED
  BY <1>3, <1>4, <1>5, StepCases

(***************************************************************************)
(* Redelivery.                                                             *)
(***************************************************************************)

LEMMA SameState ==
  ASSUME NEW s \in State, NEW t \in State,
         s.current = t.current,
         s.methods = t.methods,
         s.bucket = t.bucket,
         s.services = t.services,
         s.controller = t.controller,
         s.created = t.created,
         s.updated = t.updated,
         s.deactivated = t.deactivated,
         s.exists = t.exists
  PROVE  s = t
BY DEF State

(* Setting what is already set, dropping what is already dropped.          *)
LEMMA OverwriteSame ==
  ASSUME NEW S, NEW T, NEW f \in [S -> T], NEW x \in S, NEW v, f[x] = v
  PROVE  [f EXCEPT ![x] = v] = f
OBVIOUS

(* Posting a message twice in a row equals posting it once, from every     *)
(* state of the fold.                                                      *)
THEOREM RedeliveryIsInert ==
  ASSUME NEW s \in State, NEW m \in AnyMessage
  PROVE  Step(Step(s, m), m) = Step(s, m)
<1> DEFINE t == Step(s, m)
<1>1. CASE ~Counts(s, m)
  BY <1>1 DEF Step
<1>2. CASE ~Counts(t, m)
  BY <1>2 DEF Step
<1>3. CASE Counts(s, m) /\ Counts(t, m)
  <2>1. t = Effect(s, m) /\ Step(t, m) = Effect(t, m)
    BY <1>3 DEF Step
  <2>2. t \in State
    BY StepType
  <2>3. CASE m \in DeleteMessage
    BY <1>3, <2>1, <2>3 DEF DeleteMessage, Effect, Tombstone, Counts, State
  <2>4. CASE m \in OwnerMessage
    <3>1. m.kind = "owner"
      BY <2>4 DEF OwnerMessage
    <3>2. t = ApplyOwner(s, m) /\ Step(t, m) = ApplyOwner(t, m)
      BY <2>1, <3>1 DEF Effect, Tombstone
    <3>3. CASE ApplyOwner(s, m) = s
      BY <3>2, <3>3
    <3>4. CASE OwnerAccepted(s, m) /\ EffectiveKeyBytes(m) \in Key
      <4>1. t = OwnerEstablished(s, m)
        BY <3>2, <3>4 DEF ApplyOwner
      <4>2. RootKey \in FragmentId /\ m.stamp # Nil
        BY <2>4, NilAssumption DEF FragmentId, OwnerMessage
      <4>3. /\ t.exists = TRUE
            /\ t.current = EffectiveKeyBytes(m)
            /\ t.methods[RootKey] = EffectiveKeyMultibase(m)
            /\ t.controller = m.controller
            /\ t.created # Nil
            /\ t.updated = m.stamp
        BY <4>1, <4>2 DEF OwnerEstablished, State
      <4>4. OwnerEstablished(t, m) = t
        <5>1. [t.methods EXCEPT ![RootKey] = EffectiveKeyMultibase(m)] = t.methods
          BY <2>2, <4>2, <4>3, OverwriteSame DEF State
        <5>2. OwnerEstablished(t, m) \in State
          BY <2>2, <2>4, <3>4, OwnerEstablishedType
        <5> QED
          BY <2>2, <4>3, <5>1, <5>2, SameState DEF OwnerEstablished, State
      <4>5. OwnerAccepted(t, m)
        BY <3>4, <4>3 DEF OwnerAccepted
      <4> QED
        BY <3>2, <3>4, <4>4, <4>5 DEF ApplyOwner
    <3> QED
      BY <2>4, <3>3, <3>4, OwnerCases
  <2>5. CASE m \in AddMethodMessage
    <3>1. m.kind = "addMethod"
      BY <2>5 DEF AddMethodMessage
    <3>2. t = Touched(ApplyAddMethod(s, m), m)
      BY <2>1, <3>1 DEF Effect, Tombstone
    <3>3. Touched(ApplyAddMethod(t, m), m) = t
      <4>1. CASE ~EditableMethodId(m.id)
        BY <2>2, <2>5, <3>2, <4>1 DEF Touched, ApplyAddMethod, State
      <4>2. CASE EditableMethodId(m.id)
        <5> DEFINE u == Touched(ApplyAddMethod(t, m), m)
        <5>1. m.id \in FragmentId /\ m.stamp \in Stamp
          BY <2>5 DEF AddMethodMessage
        <5>2. u \in State
          BY <2>2, <2>5, <5>1, AddMethodType, TouchedType
        <5>3. /\ u.current = t.current
              /\ u.services = t.services
              /\ u.controller = t.controller
              /\ u.created = t.created
              /\ u.deactivated = t.deactivated
              /\ u.exists = t.exists
          BY <2>2, <4>2 DEF Touched, ApplyAddMethod, State
        <5>4. u.updated = t.updated
          BY <2>2, <3>2, <4>2, AddMethodType, <2>5 DEF Touched, ApplyAddMethod, State
        <5>5. u.methods = t.methods
          <6>1. m.key # Nil => t.methods[m.id] = m.key
            BY <3>2, <4>2, <5>1 DEF Touched, ApplyAddMethod, State
          <6>2. u.methods = [t.methods EXCEPT ![m.id] =
                               IF m.key # Nil THEN m.key ELSE t.methods[m.id]]
            BY <2>2, <4>2 DEF Touched, ApplyAddMethod, State
          <6> QED
            BY <2>2, <5>1, <6>1, <6>2, OverwriteSame DEF State
        <5>6. u.bucket = t.bucket
          <6>1. \A r \in Relationship : r = m.relationship => m.id \in t.bucket[r]
            BY <3>2, <4>2, <5>1 DEF Touched, ApplyAddMethod, State
          <6>2. u.bucket = [r \in Relationship |->
                              IF r = m.relationship THEN t.bucket[r] \cup {m.id}
                              ELSE t.bucket[r]]
            BY <2>2, <4>2 DEF Touched, ApplyAddMethod, State
          <6>3. \A r \in Relationship : u.bucket[r] = t.bucket[r]
            BY <6>1, <6>2
          <6> QED
            BY <2>2, <5>2, <6>3 DEF State
        <5> QED
          BY <2>2, <5>2, <5>3, <5>4, <5>5, <5>6, SameState
      <4> QED
        BY <4>1, <4>2
    <3> QED
      BY <2>1, <3>1, <3>3 DEF Effect, Tombstone
  <2>6. CASE m \in RemoveMethodMessage
    <3>1. m.kind = "removeMethod"
      BY <2>6 DEF RemoveMethodMessage
    <3>2. t = Touched(ApplyRemoveMethod(s, m), m)
      BY <2>1, <3>1 DEF Effect, Tombstone
    <3>3. Touched(ApplyRemoveMethod(t, m), m) = t
      <4>1. CASE ~EditableMethodId(m.id)
        BY <2>2, <2>6, <3>2, <4>1 DEF Touched, ApplyRemoveMethod, State
      <4>2. CASE EditableMethodId(m.id)
        <5> DEFINE u == Touched(ApplyRemoveMethod(t, m), m)
        <5>1. m.id \in FragmentId /\ m.stamp \in Stamp
          BY <2>6 DEF RemoveMethodMessage
        <5>2. u \in State
          BY <2>2, <2>6, <5>1, RemoveMethodType, TouchedType
        <5>3. /\ u.current = t.current
              /\ u.services = t.services
              /\ u.controller = t.controller
              /\ u.created = t.created
              /\ u.deactivated = t.deactivated
              /\ u.exists = t.exists
          BY <2>2, <4>2 DEF Touched, ApplyRemoveMethod, State
        <5>4. u.updated = t.updated
          BY <2>2, <2>6, <3>2, <4>2 DEF Touched, ApplyRemoveMethod, State
        <5>5. u.methods = t.methods
          <6>1. t.methods[m.id] = Nil
            BY <3>2, <4>2, <5>1 DEF Touched, ApplyRemoveMethod, State
          <6>2. u.methods = [t.methods EXCEPT ![m.id] = Nil]
            BY <2>2, <4>2 DEF Touched, ApplyRemoveMethod, State
          <6> QED
            BY <2>2, <5>1, <6>1, <6>2, OverwriteSame DEF State
        <5>6. u.bucket = t.bucket
          <6>1. \A r \in Relationship : m.id \notin t.bucket[r]
            BY <3>2, <4>2, <5>1 DEF Touched, ApplyRemoveMethod, State
          <6>2. u.bucket = [r \in Relationship |-> t.bucket[r] \ {m.id}]
            BY <2>2, <4>2 DEF Touched, ApplyRemoveMethod, State
          <6>3. \A r \in Relationship : u.bucket[r] = t.bucket[r]
            BY <6>1, <6>2
          <6> QED
            BY <2>2, <5>2, <6>3 DEF State
        <5> QED
          BY <2>2, <5>2, <5>3, <5>4, <5>5, <5>6, SameState
      <4> QED
        BY <4>1, <4>2
    <3> QED
      BY <2>1, <3>1, <3>3 DEF Effect, Tombstone
  <2>7. CASE m \in AddServiceMessage
    <3>1. m.kind = "addService"
      BY <2>7 DEF AddServiceMessage
    <3>2. t = Touched(ApplyAddService(s, m), m)
      BY <2>1, <3>1 DEF Effect, Tombstone
    <3>3. Touched(ApplyAddService(t, m), m) = t
      BY <2>2, <2>7, <3>2 DEF Touched, ApplyAddService, AddServiceMessage, State
    <3> QED
      BY <2>1, <3>1, <3>3 DEF Effect, Tombstone
  <2>8. CASE m \in RemoveServiceMessage
    <3>1. m.kind = "removeService"
      BY <2>8 DEF RemoveServiceMessage
    <3>2. t = Touched(ApplyRemoveService(s, m), m)
      BY <2>1, <3>1 DEF Effect, Tombstone
    <3>3. Touched(ApplyRemoveService(t, m), m) = t
      BY <2>2, <2>8, <3>2 DEF Touched, ApplyRemoveService, RemoveServiceMessage, State
    <3> QED
      BY <2>1, <3>1, <3>3 DEF Effect, Tombstone
  <2>9. CASE m \in NoticeMessage \cup UndecodableMessage
    <3>1. m.kind \in {"notice", "undecodable"}
      BY <2>9 DEF NoticeMessage, UndecodableMessage
    <3>2. t = Touched(s, m) /\ Step(t, m) = Touched(t, m)
      BY <2>1, <3>1 DEF Effect, Tombstone
    <3> QED
      BY <2>2, <3>2 DEF Touched, State
  <2> QED
    BY <2>3, <2>4, <2>5, <2>6, <2>7, <2>8, <2>9 DEF AnyMessage
<1> QED
  BY <1>1, <1>2, <1>3

(***************************************************************************)
(* Readers are given what the writers were asked to write.                 *)
(***************************************************************************)

(* The first variant that fits is the kind of the event.                   *)
LEMMA FirstFits ==
  ASSUME NEW S \in SUBSET (1..6), NEW n \in S, \A i \in S : n <= i
  PROVE  Min(S) = n
<1>1. \A x \in S : (\A y \in S : x <= y) => x = n
  OBVIOUS
<1>2. \E x \in S : \A y \in S : x <= y
  OBVIOUS
<1> QED
  BY <1>1, <1>2 DEF Min

Decodes(envelope, n) ==
  /\ envelope.operation # "delete"
  /\ envelope.event # Nil
  /\ Fits(DIDEvent[n], envelope.event)
  /\ \A i \in 1..(n - 1) : ~Fits(DIDEvent[i], envelope.event)

(* An event that fits a variant and none before it is of that kind.        *)
LEMMA KindDecoded ==
  ASSUME NEW envelope, NEW n \in 1..6, Decodes(envelope, n)
  PROVE  KindOf(envelope) = DIDEvent[n].kind
<1> DEFINE S == {i \in DOMAIN DIDEvent : Fits(DIDEvent[i], envelope.event)}
<1>1. DOMAIN DIDEvent = 1..6
  BY DEF DIDEvent
<1>2. S \in SUBSET (1..6) /\ n \in S
  BY <1>1 DEF Decodes
<1>3. \A i \in S : n <= i
  BY <1>1 DEF Decodes
<1>4. Min(S) = n /\ S # {}
  BY <1>2, <1>3, FirstFits
<1> QED
  BY <1>4 DEF KindOf, Decodes

(* create_did's owner event comes back with the DID as its id.             *)
LEMMA OwnerWritten ==
  ASSUME NEW asked, [asked EXCEPT !.signer = Anchor] \in OwnerMessage,
         NEW key \in Key \cup {Nil},
         Payload(asked).event # Nil
  PROVE  /\ ReadBack(asked, key) \in OwnerMessage
         /\ ReadBack(asked, key) =
              [kind |-> "owner", did |-> asked.did, signer |-> key,
               stamp |-> asked.stamp, id |-> asked.did,
               multibase |-> asked.multibase, base58 |-> Nil,
               controller |-> asked.controller]
<1> DEFINE e == Payload(asked)
<1>1. /\ asked.kind = "owner" /\ asked.did \in Did /\ asked.stamp \in Stamp
      /\ asked.multibase \in Encoding \cup {Nil} /\ asked.controller \in Controller
  BY DEF OwnerMessage
<1>2. e = DIDOwnerMessage(asked)
  BY <1>1 DEF Payload
<1>3. Decodes(e, 1)
  BY <1>2 DEF Decodes, DIDOwnerMessage, Written, Event, Fits, DIDEvent, Variant
<1>4. KindOf(e) = "owner"
  BY <1>3, KindDecoded DEF DIDEvent, Variant
<1>5. /\ Member(e.event, "id") = asked.did
      /\ Member(e.event, "publicKeyMultibase") = asked.multibase
      /\ Member(e.event, "publicKeyBase58") = Nil
      /\ Member(e.event, "controller") = asked.controller
  BY <1>2 DEF Member, DIDOwnerMessage, Written, Event
<1>6. e.did = asked.did /\ e.signer = asked.signer /\ e.stamp = asked.stamp
  BY <1>2 DEF DIDOwnerMessage, Written, Event
<1>7. Decoded(e) =
        [kind |-> "owner", did |-> asked.did, signer |-> asked.signer,
         stamp |-> asked.stamp, id |-> asked.did,
         multibase |-> asked.multibase, base58 |-> Nil,
         controller |-> asked.controller]
  <2> HIDE DEF e
  <2> QED BY <1>4, <1>5, <1>6 DEF Decoded, Joined
<1>8. ReadBack(asked, key) =
        [kind |-> "owner", did |-> asked.did, signer |-> key,
         stamp |-> asked.stamp, id |-> asked.did,
         multibase |-> asked.multibase, base58 |-> Nil,
         controller |-> asked.controller]
  BY <1>7 DEF ReadBack
<1> QED
  BY <1>1, <1>8 DEF OwnerMessage

(* A message is its members; with another signer, it has the others still. *)
LEMMA Signed ==
  ASSUME NEW asked, NEW key
  PROVE  LET m == [asked EXCEPT !.signer = Anchor]
             n == [asked EXCEPT !.signer = key]
         IN  /\ m \in AddMethodMessage =>
                  n = [kind |-> "addMethod", did |-> m.did, signer |-> key,
                       stamp |-> m.stamp, id |-> m.id, key |-> m.key,
                       relationship |-> m.relationship]
             /\ m \in RemoveMethodMessage =>
                  n = [kind |-> "removeMethod", did |-> m.did, signer |-> key,
                       stamp |-> m.stamp, id |-> m.id]
             /\ m \in AddServiceMessage =>
                  n = [kind |-> "addService", did |-> m.did, signer |-> key,
                       stamp |-> m.stamp, id |-> m.id, endpoint |-> m.endpoint]
             /\ m \in RemoveServiceMessage =>
                  n = [kind |-> "removeService", did |-> m.did, signer |-> key,
                       stamp |-> m.stamp, id |-> m.id]
             /\ m \in OwnerMessage =>
                  n = [kind |-> "owner", did |-> m.did, signer |-> key,
                       stamp |-> m.stamp, id |-> m.id, multibase |-> m.multibase,
                       base58 |-> m.base58, controller |-> m.controller]
             /\ m \in DeleteMessage =>
                  n = [kind |-> "delete", did |-> m.did, signer |-> key,
                       stamp |-> m.stamp]
<1> DEFINE m == [asked EXCEPT !.signer = Anchor]
<1>1. [asked EXCEPT !.signer = key] = [m EXCEPT !.signer = key]
  OBVIOUS
<1> HIDE DEF m
<1>2. m \in AddMethodMessage =>
        [m EXCEPT !.signer = key] =
          [kind |-> "addMethod", did |-> m.did, signer |-> key,
           stamp |-> m.stamp, id |-> m.id, key |-> m.key,
           relationship |-> m.relationship]
  BY DEF AddMethodMessage
<1>3. m \in RemoveMethodMessage =>
        [m EXCEPT !.signer = key] =
          [kind |-> "removeMethod", did |-> m.did, signer |-> key,
           stamp |-> m.stamp, id |-> m.id]
  BY DEF RemoveMethodMessage
<1>4. m \in AddServiceMessage =>
        [m EXCEPT !.signer = key] =
          [kind |-> "addService", did |-> m.did, signer |-> key,
           stamp |-> m.stamp, id |-> m.id, endpoint |-> m.endpoint]
  BY DEF AddServiceMessage
<1>5. m \in RemoveServiceMessage =>
        [m EXCEPT !.signer = key] =
          [kind |-> "removeService", did |-> m.did, signer |-> key,
           stamp |-> m.stamp, id |-> m.id]
  BY DEF RemoveServiceMessage
<1>6. m \in OwnerMessage =>
        [m EXCEPT !.signer = key] =
          [kind |-> "owner", did |-> m.did, signer |-> key,
           stamp |-> m.stamp, id |-> m.id, multibase |-> m.multibase,
           base58 |-> m.base58, controller |-> m.controller]
  BY DEF OwnerMessage
<1>7. m \in DeleteMessage =>
        [m EXCEPT !.signer = key] =
          [kind |-> "delete", did |-> m.did, signer |-> key, stamp |-> m.stamp]
  BY DEF DeleteMessage
<1> QED
  BY <1>1, <1>2, <1>3, <1>4, <1>5, <1>6, <1>7 DEF m

(* The four edits come back as they were asked for.                        *)
LEMMA EditWritten ==
  ASSUME NEW asked, [asked EXCEPT !.signer = Anchor] \in AnyMessage,
         asked.kind \in EditKind,
         NEW key \in Key \cup {Nil},
         Payload(asked).event # Nil
  PROVE  /\ ReadBack(asked, key) \in AnyMessage
         /\ ReadBack(asked, key).kind = asked.kind
         /\ ReadBack(asked, key).did = asked.did
         /\ ReadBack(asked, key).signer = key
         /\ ReadBack(asked, key) = [asked EXCEPT !.signer = key]
<1> DEFINE e == Payload(asked)
           m == [asked EXCEPT !.signer = Anchor]
<1>1. m.kind = asked.kind
  BY DEF AnyMessage, UndecodableMessage, DeleteMessage, OwnerMessage,
         AddMethodMessage, RemoveMethodMessage, AddServiceMessage,
         RemoveServiceMessage, NoticeMessage
<1>2. CASE asked.kind = "addMethod"
  <2>1. m \in AddMethodMessage
    BY <1>1, <1>2
       DEF AnyMessage, UndecodableMessage, DeleteMessage, OwnerMessage,
           AddMethodMessage, RemoveMethodMessage, AddServiceMessage,
           RemoveServiceMessage, NoticeMessage
  <2>2. e = DIDAddVerificationMethodMessage(asked)
    BY <1>2 DEF Payload
  <2>3. Decodes(e, 2)
    BY <2>2 DEF Decodes, DIDAddVerificationMethodMessage, Written, Event, Fits,
                DIDEvent, Variant, AddMethodNeeds
  <2>4. KindOf(e) = "addMethod"
    BY <2>3, KindDecoded DEF DIDEvent, Variant
  <2>5. /\ Member(e.event, "id") = asked.id
        /\ Member(e.event, "publicKeyMultibase") = asked.key
        /\ Member(e.event, "relationshipType") = asked.relationship
        /\ e.did = asked.did /\ e.signer = asked.signer /\ e.stamp = asked.stamp
    BY <2>2 DEF Member, DIDAddVerificationMethodMessage, Written, Event
  <2>6. Decoded(e) =
          [kind |-> "addMethod", did |-> asked.did, signer |-> asked.signer,
           stamp |-> asked.stamp, id |-> asked.id, key |-> asked.key,
           relationship |-> asked.relationship]
    <3> HIDE DEF e
    <3> QED BY <2>4, <2>5 DEF Decoded, Joined
  <2>7. ReadBack(asked, key) =
          [kind |-> "addMethod", did |-> asked.did, signer |-> key,
           stamp |-> asked.stamp, id |-> asked.id, key |-> asked.key,
           relationship |-> asked.relationship]
    BY <2>6 DEF ReadBack
  <2>8. ReadBack(asked, key) \in AddMethodMessage
    BY <2>1, <2>7 DEF AddMethodMessage
  <2>9. ReadBack(asked, key) = [asked EXCEPT !.signer = key]
    <3>1. /\ m.id = asked.id /\ m.did = asked.did /\ m.stamp = asked.stamp
          /\ m.key = asked.key /\ m.relationship = asked.relationship
      BY <2>1 DEF AddMethodMessage
    <3>2. [asked EXCEPT !.signer = key] =
            [kind |-> "addMethod", did |-> m.did, signer |-> key,
             stamp |-> m.stamp, id |-> m.id, key |-> m.key,
             relationship |-> m.relationship]
      BY <2>1, Signed
    <3> HIDE DEF m
    <3> QED
      BY <2>7, <3>1, <3>2
  <2> QED
    BY <1>2, <2>7, <2>8, <2>9 DEF AnyMessage
<1>3. CASE asked.kind = "removeMethod"
  <2>1. m \in RemoveMethodMessage
    BY <1>1, <1>3
       DEF AnyMessage, UndecodableMessage, DeleteMessage, OwnerMessage,
           AddMethodMessage, RemoveMethodMessage, AddServiceMessage,
           RemoveServiceMessage, NoticeMessage
  <2>2. e = DIDRemoveVerificationMethodMessage(asked)
    BY <1>3 DEF Payload
  <2>3. Decodes(e, 3)
    BY <2>2 DEF Decodes, DIDRemoveVerificationMethodMessage, Written, Event, Fits,
                DIDEvent, Variant, AddMethodNeeds
  <2>4. KindOf(e) = "removeMethod"
    BY <2>3, KindDecoded DEF DIDEvent, Variant
  <2>5. /\ Member(e.event, "id") = asked.id
        /\ e.did = asked.did /\ e.signer = asked.signer /\ e.stamp = asked.stamp
    BY <2>2 DEF Member, DIDRemoveVerificationMethodMessage, Written, Event
  <2>6. Decoded(e) =
          [kind |-> "removeMethod", did |-> asked.did, signer |-> asked.signer,
           stamp |-> asked.stamp, id |-> asked.id]
    <3> HIDE DEF e
    <3> QED BY <2>4, <2>5 DEF Decoded, Joined
  <2>7. ReadBack(asked, key) =
          [kind |-> "removeMethod", did |-> asked.did, signer |-> key,
           stamp |-> asked.stamp, id |-> asked.id]
    BY <2>6 DEF ReadBack
  <2>8. ReadBack(asked, key) \in RemoveMethodMessage
    BY <2>1, <2>7 DEF RemoveMethodMessage
  <2>9. ReadBack(asked, key) = [asked EXCEPT !.signer = key]
    <3>1. m.id = asked.id /\ m.did = asked.did /\ m.stamp = asked.stamp
      BY <2>1 DEF RemoveMethodMessage
    <3>2. [asked EXCEPT !.signer = key] =
            [kind |-> "removeMethod", did |-> m.did, signer |-> key,
             stamp |-> m.stamp, id |-> m.id]
      BY <2>1, Signed
    <3> HIDE DEF m
    <3> QED
      BY <2>7, <3>1, <3>2
  <2> QED
    BY <1>3, <2>7, <2>8, <2>9 DEF AnyMessage
<1>4. CASE asked.kind = "addService"
  <2>1. m \in AddServiceMessage
    BY <1>1, <1>4
       DEF AnyMessage, UndecodableMessage, DeleteMessage, OwnerMessage,
           AddMethodMessage, RemoveMethodMessage, AddServiceMessage,
           RemoveServiceMessage, NoticeMessage
  <2>2. e = DIDAddServiceMessage(asked)
    BY <1>4 DEF Payload
  <2>3. Decodes(e, 4)
    BY <2>2 DEF Decodes, DIDAddServiceMessage, Written, Event, Fits, DIDEvent, Variant
  <2>4. KindOf(e) = "addService"
    BY <2>3, KindDecoded DEF DIDEvent, Variant
  <2>5. /\ Member(e.event, "id") = asked.id
        /\ Member(e.event, "serviceEndpoint") = asked.endpoint
        /\ e.did = asked.did /\ e.signer = asked.signer /\ e.stamp = asked.stamp
    BY <2>2 DEF Member, DIDAddServiceMessage, Written, Event
  <2>6. Decoded(e) =
          [kind |-> "addService", did |-> asked.did, signer |-> asked.signer,
           stamp |-> asked.stamp, id |-> asked.id, endpoint |-> asked.endpoint]
    <3> HIDE DEF e
    <3> QED BY <2>4, <2>5 DEF Decoded, Joined
  <2>7. ReadBack(asked, key) =
          [kind |-> "addService", did |-> asked.did, signer |-> key,
           stamp |-> asked.stamp, id |-> asked.id, endpoint |-> asked.endpoint]
    BY <2>6 DEF ReadBack
  <2>8. ReadBack(asked, key) \in AddServiceMessage
    BY <2>1, <2>7 DEF AddServiceMessage
  <2>9. ReadBack(asked, key) = [asked EXCEPT !.signer = key]
    <3>1. /\ m.id = asked.id /\ m.did = asked.did /\ m.stamp = asked.stamp
          /\ m.endpoint = asked.endpoint
      BY <2>1 DEF AddServiceMessage
    <3>2. [asked EXCEPT !.signer = key] =
            [kind |-> "addService", did |-> m.did, signer |-> key,
             stamp |-> m.stamp, id |-> m.id, endpoint |-> m.endpoint]
      BY <2>1, Signed
    <3> HIDE DEF m
    <3> QED
      BY <2>7, <3>1, <3>2
  <2> QED
    BY <1>4, <2>7, <2>8, <2>9 DEF AnyMessage
<1>5. CASE asked.kind = "removeService"
  <2>1. m \in RemoveServiceMessage
    BY <1>1, <1>5
       DEF AnyMessage, UndecodableMessage, DeleteMessage, OwnerMessage,
           AddMethodMessage, RemoveMethodMessage, AddServiceMessage,
           RemoveServiceMessage, NoticeMessage
  <2>2. e = DIDRemoveServiceMessage(asked)
    BY <1>5 DEF Payload
  <2>3. Decodes(e, 5)
    BY <2>2 DEF Decodes, DIDRemoveServiceMessage, Written, Event, Fits, DIDEvent, Variant
  <2>4. KindOf(e) = "removeService"
    BY <2>3, KindDecoded DEF DIDEvent, Variant
  <2>5. /\ Member(e.event, "id") = asked.id
        /\ e.did = asked.did /\ e.signer = asked.signer /\ e.stamp = asked.stamp
    BY <2>2 DEF Member, DIDRemoveServiceMessage, Written, Event
  <2>6. Decoded(e) =
          [kind |-> "removeService", did |-> asked.did, signer |-> asked.signer,
           stamp |-> asked.stamp, id |-> asked.id]
    <3> HIDE DEF e
    <3> QED BY <2>4, <2>5 DEF Decoded, Joined
  <2>7. ReadBack(asked, key) =
          [kind |-> "removeService", did |-> asked.did, signer |-> key,
           stamp |-> asked.stamp, id |-> asked.id]
    BY <2>6 DEF ReadBack
  <2>8. ReadBack(asked, key) \in RemoveServiceMessage
    BY <2>1, <2>7 DEF RemoveServiceMessage
  <2>9. ReadBack(asked, key) = [asked EXCEPT !.signer = key]
    <3>1. m.id = asked.id /\ m.did = asked.did /\ m.stamp = asked.stamp
      BY <2>1 DEF RemoveServiceMessage
    <3>2. [asked EXCEPT !.signer = key] =
            [kind |-> "removeService", did |-> m.did, signer |-> key,
             stamp |-> m.stamp, id |-> m.id]
      BY <2>1, Signed
    <3> HIDE DEF m
    <3> QED
      BY <2>7, <3>1, <3>2
  <2> QED
    BY <1>5, <2>7, <2>8, <2>9 DEF AnyMessage
<1> QED
  BY <1>2, <1>3, <1>4, <1>5 DEF EditKind

(* A tombstone comes back as one.                                          *)
LEMMA DeleteWritten ==
  ASSUME NEW asked, [asked EXCEPT !.signer = Anchor] \in DeleteMessage,
         NEW key \in Key \cup {Nil}
  PROVE  /\ ReadBack(asked, key) \in DeleteMessage
         /\ ReadBack(asked, key) = [kind |-> "delete", did |-> asked.did,
                                    signer |-> key, stamp |-> asked.stamp]
<1>1. asked.kind = "delete" /\ asked.did \in Did /\ asked.stamp \in Stamp
  BY DEF DeleteMessage
<1>2. Payload(asked) = DIDDeactivateMessage(asked)
  BY <1>1 DEF Payload
<1>3. /\ KindOf(Payload(asked)) = "delete"
      /\ Payload(asked).did = asked.did /\ Payload(asked).signer = asked.signer
      /\ Payload(asked).stamp = asked.stamp
  BY <1>2 DEF DIDDeactivateMessage, Written, KindOf
<1>4. Decoded(Payload(asked)) = [kind |-> "delete", did |-> asked.did,
                                 signer |-> asked.signer, stamp |-> asked.stamp]
  BY <1>3 DEF Decoded
<1>5. ReadBack(asked, key) = [kind |-> "delete", did |-> asked.did,
                              signer |-> key, stamp |-> asked.stamp]
  BY <1>4 DEF ReadBack
<1> QED
  BY <1>1, <1>5 DEF DeleteMessage


(***************************************************************************)
(* The fold of a topic.  What its recursion says, it defines: if there     *)
(* were a first place up to which it defines nothing, one more step from   *)
(* the place before would define it.                                       *)
(***************************************************************************)
LEMMA Lowest ==
  ASSUME NEW S, S \subseteq Nat, S # {}
  PROVE  \E x \in S : \A y \in S : x <= y
<1> DEFINE R == OpToRel(<, Nat)
<1>1. \A x, y \in Nat : <<y, x>> \in R <=> y < x
  BY DEF OpToRel
<1>2. IsWellFoundedOn(R, Nat)
  BY NatLessThanWellFounded
<1> HIDE DEF R
<1>3. PICK x \in S : \A y \in S : <<y, x>> \notin R
  BY <1>2, WFMin
<1>4. ASSUME NEW y \in S PROVE x <= y
  <2>1. ~(y < x) /\ x \in Nat /\ y \in Nat
    BY <1>1, <1>3
  <2> QED
    BY <2>1
<1> QED
  BY <1>4

(* g is the states of the fold over the first m messages.                  *)
Folds(g, messages, out, m) ==
  g = [n \in 0 .. m |-> IF n = 0 THEN Start
                        ELSE IF n \in out THEN g[n - 1]
                        ELSE Step(g[n - 1], messages[n])]

LEMMA FoldDefined ==
  ASSUME NEW messages, NEW out, Len(messages) \in Nat
  PROVE  \E g : Folds(g, messages, out, Len(messages))
                /\ Folded(messages, out) = g[Len(messages)]
<1> DEFINE L == Len(messages)
           Bad == {m \in 0 .. L : ~ \E g : Folds(g, messages, out, m)}
<1>1. L \in Nat
  OBVIOUS
<1>2. Bad = {}
  <2> SUFFICES ASSUME Bad # {} PROVE FALSE
    OBVIOUS
  <2>1. PICK k \in Bad : \A m \in Bad : k <= m
    <3>1. Bad \subseteq Nat
      BY <1>1
    <3> HIDE DEF Bad
    <3> QED
      BY <3>1, Lowest
  <2>2. k \in 0 .. L /\ ~ \E g : Folds(g, messages, out, k)
    OBVIOUS
  <2>3. k # 0
    <3>1. Folds([n \in 0 .. 0 |-> Start], messages, out, 0)
      BY DEF Folds
    <3> QED
      BY <2>2, <3>1
  <2>4. k - 1 \in 0 .. L /\ k - 1 \notin Bad
    <3>1. k - 1 \in 0 .. L /\ ~(k <= k - 1)
      BY <1>1, <2>2, <2>3
    <3> HIDE DEF Bad
    <3> QED
      BY <2>1, <3>1
  <2>5. PICK g : Folds(g, messages, out, k - 1)
    BY <2>4
  <2> DEFINE h == [n \in 0 .. k |-> IF n = 0 THEN Start
                                    ELSE IF n \in out THEN g[n - 1]
                                    ELSE Step(g[n - 1], messages[n])]
  <2>6. ASSUME NEW n \in 0 .. k - 1 PROVE h[n] = g[n]
    <3>1. n \in 0 .. k
      BY <1>1, <2>2
    <3> QED
      BY <2>5, <3>1 DEF Folds
  <2>7. h = [n \in 0 .. k |-> IF n = 0 THEN Start
                              ELSE IF n \in out THEN g[n - 1]
                              ELSE Step(g[n - 1], messages[n])]
    OBVIOUS
  <2> HIDE DEF h
  <2>8. ASSUME NEW n \in 0 .. k, n # 0 PROVE h[n - 1] = g[n - 1]
    <3>1. n - 1 \in 0 .. k - 1
      BY <1>1, <2>2, <2>8
    <3> QED
      BY <2>6, <3>1
  <2>9. Folds(h, messages, out, k)
    BY <2>7, <2>8 DEF Folds
  <2> QED
    BY <2>2, <2>9
<1>3. \E g : Folds(g, messages, out, L)
  BY <1>1, <1>2
<1> DEFINE f == CHOOSE g : g = [n \in 0 .. L |-> IF n = 0 THEN Start
                                  ELSE IF n \in out THEN g[n - 1]
                                  ELSE Step(g[n - 1], messages[n])]
<1>4. Folds(f, messages, out, L)
  BY <1>3 DEF Folds
<1>5. Folded(messages, out) = f[L]
  BY DEF Folded
<1> QED
  BY <1>4, <1>5

LEMMA FoldEmpty ==
  ASSUME NEW messages, NEW out, Len(messages) = 0
  PROVE  Folded(messages, out) = Start
BY FoldDefined DEF Folds

(* One message more is one step more, or none when it is left out.         *)
LEMMA FoldAppend ==
  ASSUME NEW messages, NEW more, NEW out, NEW out2,
         Len(messages) \in Nat, Len(more) = Len(messages) + 1,
         \A n \in 1 .. Len(messages) :
            more[n] = messages[n] /\ (n \in out2 <=> n \in out)
  PROVE  Folded(more, out2) =
           IF Len(more) \in out2 THEN Folded(messages, out)
           ELSE Step(Folded(messages, out), more[Len(more)])
<1> DEFINE L == Len(messages)
<1>1. L \in Nat /\ Len(more) = L + 1
  OBVIOUS
<1>2. PICK f : Folds(f, messages, out, L) /\ Folded(messages, out) = f[L]
  BY FoldDefined
<1>3. PICK g : Folds(g, more, out2, L + 1) /\ Folded(more, out2) = g[L + 1]
  BY <1>1, FoldDefined
<1>4. /\ \A n \in 0 .. L : f[n] = IF n = 0 THEN Start
                                  ELSE IF n \in out THEN f[n - 1]
                                  ELSE Step(f[n - 1], messages[n])
      /\ \A n \in 0 .. L + 1 : g[n] = IF n = 0 THEN Start
                                      ELSE IF n \in out2 THEN g[n - 1]
                                      ELSE Step(g[n - 1], more[n])
  BY <1>2, <1>3 DEF Folds
<1> DEFINE Bad == {n \in 0 .. L : f[n] # g[n]}
<1>5. Bad = {}
  <2> SUFFICES ASSUME Bad # {} PROVE FALSE
    OBVIOUS
  <2>1. PICK k \in Bad : \A n \in Bad : k <= n
    <3>1. Bad \subseteq Nat
      BY <1>1
    <3> HIDE DEF Bad
    <3> QED
      BY <3>1, Lowest
  <2>2. k \in 0 .. L /\ k \in 0 .. L + 1 /\ f[k] # g[k]
    BY <1>1
  <2>3. k # 0
    BY <1>4, <2>2
  <2>4. k - 1 \in 0 .. L /\ k \in 1 .. L /\ ~(k <= k - 1)
    BY <1>1, <2>2, <2>3
  <2>5. f[k - 1] = g[k - 1]
    <3>1. k - 1 \notin Bad
      <4> HIDE DEF Bad
      <4> QED
        BY <2>1, <2>4
    <3> QED
      BY <2>4, <3>1
  <2> QED
    BY <1>4, <2>2, <2>3, <2>4, <2>5
<1>6. f[L] = g[L]
  <2>1. L \in 0 .. L /\ L \notin Bad
    BY <1>1, <1>5
  <2> QED
    BY <2>1
<1>7. L + 1 \in 0 .. L + 1 /\ L + 1 # 0 /\ (L + 1) - 1 = L
  BY <1>1
<1> HIDE DEF Bad
<1> QED
  BY <1>1, <1>2, <1>3, <1>4, <1>6, <1>7

LEMMA FoldType ==
  ASSUME NEW messages, NEW out, Len(messages) \in Nat,
         \A n \in 1 .. Len(messages) : messages[n] \in AnyMessage
  PROVE  Folded(messages, out) \in State
<1> DEFINE L == Len(messages)
<1>1. PICK f : Folds(f, messages, out, L) /\ Folded(messages, out) = f[L]
  BY FoldDefined
<1>2. \A n \in 0 .. L : f[n] = IF n = 0 THEN Start
                               ELSE IF n \in out THEN f[n - 1]
                               ELSE Step(f[n - 1], messages[n])
  BY <1>1 DEF Folds
<1> DEFINE Bad == {n \in 0 .. L : f[n] \notin State}
<1>3. Bad = {}
  <2> SUFFICES ASSUME Bad # {} PROVE FALSE
    OBVIOUS
  <2>1. PICK k \in Bad : \A n \in Bad : k <= n
    <3>1. Bad \subseteq Nat
      OBVIOUS
    <3> HIDE DEF Bad
    <3> QED
      BY <3>1, Lowest
  <2>2. k \in 0 .. L /\ f[k] \notin State
    OBVIOUS
  <2>3. k # 0
    BY <1>2, <2>2, StartType
  <2>4. k - 1 \in 0 .. L /\ k \in 1 .. L /\ ~(k <= k - 1)
    BY <2>2, <2>3
  <2>5. f[k - 1] \in State
    <3>1. k - 1 \notin Bad
      <4> HIDE DEF Bad
      <4> QED
        BY <2>1, <2>4
    <3> QED
      BY <2>4, <3>1
  <2>6. Step(f[k - 1], messages[k]) \in State
    BY <2>4, <2>5, StepType
  <2> QED
    BY <1>2, <2>2, <2>3, <2>5, <2>6
<1>4. L \in 0 .. L /\ L \notin Bad
  BY <1>3
<1> QED
  BY <1>1, <1>4


(***************************************************************************)
(* What an edit writes, and into what.                                     *)
(***************************************************************************)
IsEdit(m) ==
  m \in AddMethodMessage \cup RemoveMethodMessage \cup AddServiceMessage \cup RemoveServiceMessage

MethodsOf(m) ==
  IF EditableMethodId(m.id) /\ (m.kind = "removeMethod" \/ (m.kind = "addMethod" /\ m.key # Nil))
  THEN {m.id} ELSE {}

BucketsOf(m) ==
  IF ~EditableMethodId(m.id) THEN {}
  ELSE IF m.kind = "removeMethod" THEN Relationship \X {m.id}
  ELSE IF m.kind = "addMethod" THEN {<<m.relationship, m.id>>}
  ELSE {}

ServicesOf(m) ==
  IF StartsWithDid(m.id) /\ m.kind \in {"addService", "removeService"} THEN {m.id} ELSE {}

MethodFrom(m) == IF m.kind = "addMethod" THEN m.key ELSE Nil
ServiceFrom(m) == IF m.kind = "addService" THEN m.endpoint ELSE Nil

(* s is left with what m says where m writes, and as it was elsewhere.     *)
EditedAs(s, t, m) ==
  /\ t \in State
  /\ EditOnly(s, t)
  /\ t.updated = m.stamp
  /\ \A f \in FragmentId :
       t.methods[f] = IF f \in MethodsOf(m) THEN MethodFrom(m) ELSE s.methods[f]
  /\ \A r \in Relationship : \A f \in FragmentId :
       f \in t.bucket[r] <=> IF <<r, f>> \in BucketsOf(m) THEN m.kind = "addMethod"
                             ELSE f \in s.bucket[r]
  /\ \A f \in FragmentId :
       t.services[f] = IF f \in ServicesOf(m) THEN ServiceFrom(m) ELSE s.services[f]

LEMMA AddMethodEdited ==
  ASSUME NEW s \in State, NEW m \in AddMethodMessage
  PROVE  EditedAs(s, Effect(s, m), m)
<1> DEFINE a == ApplyAddMethod(s, m)
           t == Touched(a, m)
<1>1. /\ m.kind = "addMethod" /\ m.id \in FragmentId /\ m.stamp \in Stamp
      /\ Effect(s, m) = t /\ EditOnly(s, t) /\ a \in State
  BY AddMethodEdits, AddMethodType DEF Effect, AddMethodMessage
<1>2. t \in State /\ t.methods = a.methods /\ t.bucket = a.bucket /\ t.services = a.services
      /\ t.updated = m.stamp
  BY <1>1, TouchedType DEF Touched, State
<1>3. a.services = s.services
  BY DEF ApplyAddMethod, State
<1>4. ASSUME NEW f \in FragmentId
      PROVE  a.methods[f] = IF f \in MethodsOf(m) THEN MethodFrom(m) ELSE s.methods[f]
  BY <1>1 DEF ApplyAddMethod, State, MethodsOf, MethodFrom
<1>5. ASSUME NEW r \in Relationship, NEW f \in FragmentId
      PROVE  f \in a.bucket[r] <=> IF <<r, f>> \in BucketsOf(m) THEN m.kind = "addMethod"
                                   ELSE f \in s.bucket[r]
  <2>1. CASE ~EditableMethodId(m.id)
    BY <2>1 DEF ApplyAddMethod, BucketsOf
  <2>2. CASE EditableMethodId(m.id)
    <3>1. a.bucket[r] = IF r = m.relationship THEN s.bucket[r] \cup {m.id} ELSE s.bucket[r]
      BY <2>2 DEF ApplyAddMethod, State
    <3>2. <<r, f>> \in BucketsOf(m) <=> r = m.relationship /\ f = m.id
      BY <1>1, <2>2 DEF BucketsOf
    <3> QED
      BY <1>1, <3>1, <3>2
  <2> QED
    BY <2>1, <2>2
<1>6. \A f \in FragmentId : f \notin ServicesOf(m)
  BY <1>1 DEF ServicesOf
<1> HIDE DEF t, a
<1> QED
  BY <1>1, <1>2, <1>3, <1>4, <1>5, <1>6 DEF EditedAs

LEMMA RemoveMethodEdited ==
  ASSUME NEW s \in State, NEW m \in RemoveMethodMessage
  PROVE  EditedAs(s, Effect(s, m), m)
<1> DEFINE a == ApplyRemoveMethod(s, m)
           t == Touched(a, m)
<1>1. /\ m.kind = "removeMethod" /\ m.id \in FragmentId /\ m.stamp \in Stamp
      /\ Effect(s, m) = t /\ EditOnly(s, t) /\ a \in State
  BY RemoveMethodEdits, RemoveMethodType DEF Effect, RemoveMethodMessage
<1>2. t \in State /\ t.methods = a.methods /\ t.bucket = a.bucket /\ t.services = a.services
      /\ t.updated = m.stamp
  BY <1>1, TouchedType DEF Touched, State
<1>3. a.services = s.services
  BY DEF ApplyRemoveMethod, State
<1>4. ASSUME NEW f \in FragmentId
      PROVE  a.methods[f] = IF f \in MethodsOf(m) THEN MethodFrom(m) ELSE s.methods[f]
  BY <1>1 DEF ApplyRemoveMethod, State, MethodsOf, MethodFrom
<1>5. ASSUME NEW r \in Relationship, NEW f \in FragmentId
      PROVE  f \in a.bucket[r] <=> IF <<r, f>> \in BucketsOf(m) THEN m.kind = "addMethod"
                                   ELSE f \in s.bucket[r]
  <2>1. CASE ~EditableMethodId(m.id)
    BY <2>1 DEF ApplyRemoveMethod, BucketsOf
  <2>2. CASE EditableMethodId(m.id)
    <3>1. a.bucket[r] = s.bucket[r] \ {m.id}
      BY <2>2 DEF ApplyRemoveMethod, State
    <3>2. <<r, f>> \in BucketsOf(m) <=> f = m.id
      BY <1>1, <2>2 DEF BucketsOf
    <3> QED
      BY <1>1, <3>1, <3>2
  <2> QED
    BY <2>1, <2>2
<1>6. \A f \in FragmentId : f \notin ServicesOf(m)
  BY <1>1 DEF ServicesOf
<1> HIDE DEF t, a
<1> QED
  BY <1>1, <1>2, <1>3, <1>4, <1>5, <1>6 DEF EditedAs

LEMMA ServiceEdited ==
  ASSUME NEW s \in State, NEW m \in AddServiceMessage \cup RemoveServiceMessage
  PROVE  EditedAs(s, Effect(s, m), m)
<1> DEFINE a == IF m \in AddServiceMessage THEN ApplyAddService(s, m) ELSE ApplyRemoveService(s, m)
           t == Touched(a, m)
<1>1. /\ m \in AddServiceMessage <=> m.kind = "addService"
      /\ m \notin AddServiceMessage <=> m.kind = "removeService"
      /\ m.id \in FragmentId /\ m.stamp \in Stamp
  BY DEF AddServiceMessage, RemoveServiceMessage
<1>2. Effect(s, m) = t /\ EditOnly(s, t) /\ a \in State
  BY <1>1, AddServiceEdits, RemoveServiceEdits, AddServiceType, RemoveServiceType DEF Effect
<1>3. t \in State /\ t.methods = a.methods /\ t.bucket = a.bucket /\ t.services = a.services
      /\ t.updated = m.stamp
  BY <1>1, <1>2, TouchedType DEF Touched, State
<1>4. a.methods = s.methods /\ a.bucket = s.bucket
  BY DEF ApplyAddService, ApplyRemoveService, State
<1>5. ASSUME NEW f \in FragmentId
      PROVE  a.services[f] = IF f \in ServicesOf(m) THEN ServiceFrom(m) ELSE s.services[f]
  BY <1>1 DEF ApplyAddService, ApplyRemoveService, State, ServicesOf, ServiceFrom
<1>6. /\ \A f \in FragmentId : f \notin MethodsOf(m)
      /\ \A r, f : <<r, f>> \notin BucketsOf(m)
  BY <1>1 DEF MethodsOf, BucketsOf
<1> HIDE DEF t, a
<1> QED
  BY <1>2, <1>3, <1>4, <1>5, <1>6 DEF EditedAs

LEMMA Edited ==
  ASSUME NEW s \in State, NEW m, IsEdit(m)
  PROVE  EditedAs(s, Effect(s, m), m)
BY AddMethodEdited, RemoveMethodEdited, ServiceEdited DEF IsEdit

(***************************************************************************)
(* A batch of edits over an earlier, partial or repeated, copy of itself.  *)
(***************************************************************************)
OwnControl(s) == ~s.deactivated /\ s.current = Anchor

(* An edit of this DID that its own key signed.                            *)
OwnEdit(m) == IsEdit(m) /\ m.did = "this" /\ m.signer = Anchor

(* u and v differ at most where the messages of S write, and in the time   *)
(* of the last change if there are any.                                    *)
Close(u, v, S) ==
  /\ u \in State /\ v \in State
  /\ u.current = v.current
  /\ u.controller = v.controller
  /\ u.created = v.created
  /\ u.deactivated = v.deactivated
  /\ u.exists = v.exists
  /\ S = {} => u.updated = v.updated
  /\ \A f \in FragmentId :
       u.methods[f] = v.methods[f] \/ \E m \in S : f \in MethodsOf(m)
  /\ \A r \in Relationship : \A f \in FragmentId :
       (f \in u.bucket[r] <=> f \in v.bucket[r]) \/ \E m \in S : <<r, f>> \in BucketsOf(m)
  /\ \A f \in FragmentId :
       u.services[f] = v.services[f] \/ \E m \in S : f \in ServicesOf(m)
  /\ ~OwnControl(v) => u = v

LEMMA Identical ==
  ASSUME NEW u, NEW v, Close(u, v, {})
  PROVE  u = v
<1>1. /\ u \in State /\ v \in State
      /\ \A f \in FragmentId : u.methods[f] = v.methods[f]
      /\ \A r \in Relationship : \A f \in FragmentId : f \in u.bucket[r] <=> f \in v.bucket[r]
      /\ \A f \in FragmentId : u.services[f] = v.services[f]
  BY DEF Close
<1>2. \A r \in Relationship : u.bucket[r] \subseteq FragmentId /\ v.bucket[r] \subseteq FragmentId
  BY <1>1 DEF State
<1>3. \A r \in Relationship : u.bucket[r] = v.bucket[r]
  BY <1>1, <1>2
<1>4. u.methods = v.methods /\ u.services = v.services /\ u.bucket = v.bucket
  BY <1>1, <1>3 DEF State
<1> QED
  BY <1>1, <1>4, SameState DEF Close

LEMMA SelfClose ==
  ASSUME NEW s \in State, NEW S
  PROVE  Close(s, s, S)
BY DEF Close

LEMMA OwnEditStep ==
  ASSUME NEW s \in State, NEW m, OwnEdit(m)
  PROVE  /\ OwnControl(s) => Step(s, m) = Effect(s, m)
         /\ ~OwnControl(s) => Step(s, m) = s
<1>1. m.kind # "undecodable"
  BY DEF OwnEdit, IsEdit, AddMethodMessage, RemoveMethodMessage, AddServiceMessage,
         RemoveServiceMessage
<1> QED
  BY <1>1 DEF Step, Counts, OwnControl, OwnEdit

(* One more message of the batch on the one side.                          *)
LEMMA CloseAside ==
  ASSUME NEW u, NEW v, NEW S, Close(u, v, S), NEW m \in S, OwnEdit(m)
  PROVE  Close(Step(u, m), v, S)
<1> DEFINE t == Effect(u, m)
<1>1. u \in State /\ v \in State /\ (OwnControl(u) <=> OwnControl(v))
  BY DEF Close, OwnControl
<1>2. CASE ~OwnControl(v)
  BY <1>1, <1>2, OwnEditStep
<1>3. CASE OwnControl(v)
  <2>1. Step(u, m) = t /\ EditedAs(u, t, m)
    BY <1>1, <1>3, OwnEditStep, Edited DEF OwnEdit
  <2> HIDE DEF t
  <2>2. /\ t \in State /\ t.current = v.current /\ t.controller = v.controller
        /\ t.created = v.created /\ t.deactivated = v.deactivated /\ t.exists = v.exists
    BY <2>1 DEF EditedAs, EditOnly, Close
  <2>3. \A f \in FragmentId : t.methods[f] = v.methods[f] \/ \E n \in S : f \in MethodsOf(n)
    BY <2>1 DEF EditedAs, Close
  <2>4. \A r \in Relationship : \A f \in FragmentId :
          (f \in t.bucket[r] <=> f \in v.bucket[r]) \/ \E n \in S : <<r, f>> \in BucketsOf(n)
    BY <2>1 DEF EditedAs, Close
  <2>5. \A f \in FragmentId : t.services[f] = v.services[f] \/ \E n \in S : f \in ServicesOf(n)
    BY <2>1 DEF EditedAs, Close
  <2> QED
    BY <1>1, <1>3, <2>1, <2>2, <2>3, <2>4, <2>5 DEF Close
<1> QED
  BY <1>2, <1>3

(* The same message on both.                                               *)
LEMMA CloseBoth ==
  ASSUME NEW u, NEW v, NEW S, NEW m, Close(u, v, S \cup {m}), OwnEdit(m)
  PROVE  Close(Step(u, m), Step(v, m), S)
<1> DEFINE t == Effect(u, m)
           w == Effect(v, m)
<1>1. u \in State /\ v \in State /\ (OwnControl(u) <=> OwnControl(v))
  BY DEF Close, OwnControl
<1>2. CASE ~OwnControl(v)
  <2>1. u = v /\ Step(u, m) = u /\ Step(v, m) = v
    BY <1>1, <1>2, OwnEditStep DEF Close
  <2> QED
    BY <1>1, <2>1, SelfClose
<1>3. CASE OwnControl(v)
  <2>1. /\ Step(u, m) = t /\ EditedAs(u, t, m)
        /\ Step(v, m) = w /\ EditedAs(v, w, m)
    BY <1>1, <1>3, OwnEditStep, Edited DEF OwnEdit
  <2> HIDE DEF t, w
  <2>2. /\ t \in State /\ t.current = w.current /\ t.controller = w.controller
        /\ t.created = w.created /\ t.deactivated = w.deactivated /\ t.exists = w.exists
        /\ w \in State /\ t.updated = w.updated
        /\ w.deactivated = v.deactivated /\ w.current = v.current
    BY <2>1 DEF EditedAs, EditOnly, Close
  <2>3. \A f \in FragmentId : t.methods[f] = w.methods[f] \/ \E n \in S : f \in MethodsOf(n)
    BY <2>1 DEF EditedAs, Close
  <2>4. \A r \in Relationship : \A f \in FragmentId :
          (f \in t.bucket[r] <=> f \in w.bucket[r]) \/ \E n \in S : <<r, f>> \in BucketsOf(n)
    BY <2>1 DEF EditedAs, Close
  <2>5. \A f \in FragmentId : t.services[f] = w.services[f] \/ \E n \in S : f \in ServicesOf(n)
    BY <2>1 DEF EditedAs, Close
  <2>6. OwnControl(w)
    BY <1>3, <2>2 DEF OwnControl
  <2> QED
    BY <2>1, <2>2, <2>3, <2>4, <2>5, <2>6 DEF Close
<1> QED
  BY <1>2, <1>3

(* Step by step from a to b, in the form in which the provers can use it.  *)
LEMMA Reaches ==
  ASSUME NEW a \in Nat, NEW b \in Nat, NEW S, a \in S,
         \A i \in a + 1 .. b : i - 1 \in S => i \in S
  PROVE  \A i \in a .. b : i \in S
<1> DEFINE Bad == {i \in a .. b : i \notin S}
<1> SUFFICES ASSUME Bad # {} PROVE FALSE
  OBVIOUS
<1>1. PICK k \in Bad : \A i \in Bad : k <= i
  <2>1. Bad \subseteq Nat
    OBVIOUS
  <2> HIDE DEF Bad
  <2> QED
    BY <2>1, Lowest
<1>2. k \in a .. b /\ k \notin S
  OBVIOUS
<1>3. k \in a + 1 .. b /\ k - 1 \in a .. b /\ ~(k <= k - 1)
  BY <1>2
<1>4. k - 1 \notin Bad
  <2> HIDE DEF Bad
  <2> QED
    BY <1>1, <1>3
<1> QED
  BY <1>2, <1>3, <1>4

(* h steps through a batch M of n edits after any of its own, k steps      *)
(* through the batch alone, from the same state.                           *)
StepsThrough(h, k, M, n, b, e) ==
  /\ h[b] = k[b] /\ h[b] \in State
  /\ \A j \in 1 .. n : OwnEdit(M[j])
  /\ \A i \in b + 1 .. e : \E j \in 1 .. n : h[i] = Step(h[i - 1], M[j])
  /\ \A j \in 1 .. n : /\ h[e + j] = Step(h[(e + j) - 1], M[j])
                       /\ k[b + j] = Step(k[(b + j) - 1], M[j])

(* A batch of edits read after any of its own messages leaves what it      *)
(* leaves when it is read alone.                                           *)
LEMMA Overwritten ==
  ASSUME NEW h, NEW k, NEW M, NEW n \in Nat, NEW b \in Nat, NEW e \in Nat, b <= e,
         StepsThrough(h, k, M, n, b, e)
  PROVE  h[e + n] = k[b + n]
<1> USE DEF StepsThrough
<1> DEFINE Rest(j) == {M[i] : i \in j + 1 .. n}
           Before == {i \in b .. e : Close(h[i], k[b], Rest(0))}
<1>1. Close(h[b], k[b], Rest(0))
  BY SelfClose
<1>2. \A i \in b .. e : i \in Before
  <2>1. b \in Before
    BY <1>1
  <2>2. ASSUME NEW i \in b + 1 .. e, i - 1 \in Before PROVE i \in Before
    <3>1. PICK j \in 1 .. n : h[i] = Step(h[i - 1], M[j])
      BY <2>2
    <3>2. M[j] \in Rest(0) /\ OwnEdit(M[j])
      OBVIOUS
    <3>3. Close(h[i - 1], k[b], Rest(0))
      BY <2>2
    <3> HIDE DEF Rest
    <3>4. Close(h[i], k[b], Rest(0))
      BY <3>1, <3>2, <3>3, CloseAside
    <3> QED
      BY <2>2, <3>4
  <2> HIDE DEF Before
  <2> QED
    BY <2>1, <2>2, Reaches
<1> DEFINE Along == {j \in 0 .. n : Close(h[e + j], k[b + j], Rest(j))}
<1>3. \A j \in 0 .. n : j \in Along
  <2>1. 0 \in Along
    <3>1. e \in b .. e /\ e + 0 = e /\ b + 0 = b /\ 0 \in 0 .. n
      OBVIOUS
    <3>2. e \in Before
      <4> HIDE DEF Before
      <4> QED
        BY <1>2, <3>1
    <3>3. Close(h[e], k[b], Rest(0))
      BY <3>2
    <3> HIDE DEF Rest
    <3> QED
      BY <3>1, <3>3
  <2>2. ASSUME NEW j \in 0 + 1 .. n, j - 1 \in Along PROVE j \in Along
    <3>1. /\ j \in 1 .. n /\ e + (j - 1) = (e + j) - 1 /\ b + (j - 1) = (b + j) - 1
          /\ OwnEdit(M[j])
      OBVIOUS
    <3>2. Close(h[e + (j - 1)], k[b + (j - 1)], Rest(j - 1))
      BY <2>2
    <3>3. Rest(j - 1) = Rest(j) \cup {M[j]}
      <4>1. \A i : i \in (j - 1) + 1 .. n <=> i \in j + 1 .. n \/ i = j
        BY <3>1
      <4> QED
        BY <4>1
    <3> HIDE DEF Rest
    <3>4. Close(Step(h[(e + j) - 1], M[j]), Step(k[(b + j) - 1], M[j]), Rest(j))
      BY <3>1, <3>2, <3>3, CloseBoth
    <3>5. Close(h[e + j], k[b + j], Rest(j))
      BY <3>1, <3>4
    <3> QED
      BY <2>2, <3>5
  <2> HIDE DEF Along
  <2> QED
    BY <2>1, <2>2, Reaches
<1>4. Close(h[e + n], k[b + n], Rest(n))
  <2>1. n \in 0 .. n
    OBVIOUS
  <2>2. n \in Along
    <3> HIDE DEF Along
    <3> QED
      BY <1>3, <2>1
  <2> HIDE DEF Rest
  <2> QED
    BY <2>2
<1>5. Rest(n) = {}
  OBVIOUS
<1> QED
  BY <1>4, <1>5, Identical

(* The same of a single message, whatever it is.                           *)
LEMMA Redelivered ==
  ASSUME NEW h, NEW m \in AnyMessage, NEW b \in Nat, NEW e \in Nat, b <= e,
         h[b] \in State,
         \A i \in b + 1 .. e + 1 : h[i] = Step(h[i - 1], m)
  PROVE  h[e + 1] = Step(h[b], m)
<1> DEFINE S == {i \in b + 1 .. e + 1 : h[i] = Step(h[b], m)}
<1>1. b + 1 \in S
  BY SMTT(30)
<1>2. ASSUME NEW i \in (b + 1) + 1 .. e + 1, i - 1 \in S PROVE i \in S
  <2>1. i \in b + 1 .. e + 1 /\ h[i] = Step(Step(h[b], m), m)
    BY <1>2
  <2> QED
    BY <2>1, RedeliveryIsInert
<1>3. b + 1 \in Nat /\ e + 1 \in Nat /\ e + 1 \in b + 1 .. e + 1
  OBVIOUS
<1> HIDE DEF S
<1>4. e + 1 \in S
  BY <1>1, <1>2, <1>3, Reaches
<1> QED
  BY <1>4 DEF S

(* After b messages that both have, G goes on with a batch of n messages,  *)
(* and F with any of that batch, up to e messages, and then the batch.  A  *)
(* batch of several has only edits.                                        *)
Rereads(F, G, n, b, e) ==
  /\ b <= e /\ Len(F) = e + n /\ Len(G) = b + n
  /\ \A i \in 1 .. b : F[i] = G[i]
  /\ \A i \in b + 1 .. e : \E j \in 1 .. n : F[i] = G[b + j]
  /\ \A j \in 1 .. n : F[e + j] = G[b + j]
  /\ n = 1 \/ \A j \in 1 .. n : OwnEdit(G[b + j])

(* A reader makes the same of both: what a batch left half-way, or twice,  *)
(* does not matter once it is there as a whole (builder.rs 139-224).       *)
THEOREM RereadBatch ==
  ASSUME NEW F \in Seq(AnyMessage), NEW G \in Seq(AnyMessage),
         NEW n \in Nat \ {0}, NEW b \in Nat, NEW e \in Nat,
         Rereads(F, G, n, b, e)
  PROVE  Folded(F, {}) = Folded(G, {})
<1> USE DEF Rereads
<1>0. Len(F) \in Nat /\ Len(G) \in Nat /\ n \in Nat
  OBVIOUS
<1>1. PICK h : Folds(h, F, {}, e + n) /\ Folded(F, {}) = h[e + n]
  <2>1. PICK h : Folds(h, F, {}, Len(F)) /\ Folded(F, {}) = h[Len(F)]
    BY <1>0, FoldDefined
  <2> QED
    BY <2>1
<1>2. PICK k : Folds(k, G, {}, b + n) /\ Folded(G, {}) = k[b + n]
  <2>1. PICK k : Folds(k, G, {}, Len(G)) /\ Folded(G, {}) = k[Len(G)]
    BY <1>0, FoldDefined
  <2> QED
    BY <2>1
<1>3. /\ h[0] = Start /\ k[0] = Start
      /\ \A i \in 1 .. e + n : h[i] = Step(h[i - 1], F[i])
      /\ \A i \in 1 .. b + n : k[i] = Step(k[i - 1], G[i])
  BY <1>1, <1>2 DEF Folds
<1> DEFINE S == {i \in 0 .. b : h[i] = k[i] /\ h[i] \in State}
<1>4. b \in S
  <2>1. 0 \in S
    BY <1>3, StartType
  <2>2. ASSUME NEW i \in 0 + 1 .. b, i - 1 \in S PROVE i \in S
    <3>1. i \in 1 .. e + n /\ i \in 1 .. b + n /\ i \in 1 .. b
      OBVIOUS
    <3>2. F[i] = G[i] /\ F[i] \in AnyMessage
      BY <3>1
    <3>3. h[i] = Step(h[i - 1], F[i]) /\ k[i] = Step(k[i - 1], F[i])
      BY <1>3, <3>1, <3>2
    <3>4. Step(h[i - 1], F[i]) \in State
      BY <2>2, <3>2, StepType
    <3> QED
      BY <2>2, <3>1, <3>3, <3>4
  <2>3. 0 \in Nat /\ b \in 0 .. b
    OBVIOUS
  <2> HIDE DEF S
  <2> QED
    BY <2>1, <2>2, <2>3, Reaches
<1>5. h[b] = k[b] /\ h[b] \in State
  BY <1>4
<1> HIDE DEF S
<1> DEFINE M == [j \in 1 .. n |-> G[b + j]]
<1>6. \A j \in 1 .. n : M[j] = G[b + j]
  OBVIOUS
<1> HIDE DEF M
<1>7. \A i \in b + 1 .. e : \E j \in 1 .. n : h[i] = Step(h[i - 1], M[j])
  <2>1. \A i \in b + 1 .. e : i \in 1 .. e + n
    OBVIOUS
  <2> QED
    BY <1>3, <1>6, <2>1
<1>8. \A j \in 1 .. n : /\ h[e + j] = Step(h[(e + j) - 1], M[j])
                        /\ k[b + j] = Step(k[(b + j) - 1], M[j])
  <2> TAKE j \in 1 .. n
  <2>1. e + j \in 1 .. e + n /\ b + j \in 1 .. b + n
    OBVIOUS
  <2>2. F[e + j] = M[j] /\ G[b + j] = M[j]
    BY <1>6
  <2> QED
    BY <1>3, <2>1, <2>2
<1>9. CASE \A j \in 1 .. n : OwnEdit(G[b + j])
  <2>1. \A j \in 1 .. n : OwnEdit(M[j])
    BY <1>6, <1>9
  <2>2. n \in Nat
    OBVIOUS
  <2>3. h[e + n] = k[b + n]
    <3>1. StepsThrough(h, k, M, n, b, e)
      BY <1>5, <1>7, <1>8, <2>1 DEF StepsThrough
    <3> QED
      BY <2>2, <3>1, Overwritten
  <2> QED
    BY <1>1, <1>2, <2>3
<1>10. CASE n = 1
  <2>1. M[1] \in AnyMessage
    <3>1. b + 1 \in 1 .. Len(G)
      BY <1>10
    <3> QED
      BY <1>6, <1>10, <3>1
  <2>2. \A i \in b + 1 .. e + 1 : h[i] = Step(h[i - 1], M[1])
    <3>1. \A i \in b + 1 .. e : h[i] = Step(h[i - 1], M[1])
      BY <1>7, <1>10
    <3>2. h[e + 1] = Step(h[(e + 1) - 1], M[1])
      BY <1>8, <1>10
    <3> QED
      BY <3>1, <3>2
  <2>3. h[e + 1] = Step(h[b], M[1])
    <3> DEFINE m == M[1]
    <3>1. m \in AnyMessage /\ \A i \in b + 1 .. e + 1 : h[i] = Step(h[i - 1], m)
      BY <2>1, <2>2
    <3> HIDE DEF m
    <3>2. h[e + 1] = Step(h[b], m)
      BY <1>5, <3>1, Redelivered
    <3> QED
      BY <3>2 DEF m
  <2>4. k[b + 1] = Step(k[b], M[1])
    <3>1. (b + 1) - 1 = b /\ 1 \in 1 .. n
      BY <1>10
    <3> QED
      BY <1>8, <3>1
  <2> QED
    BY <1>1, <1>2, <1>5, <1>10, <2>3, <2>4
<1> QED
  BY <1>9, <1>10
================================================================================
