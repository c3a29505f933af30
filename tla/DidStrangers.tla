------------------------------ MODULE DidStrangers ------------------------------
(***************************************************************************)
(* The same topic read twice: once as it is, and once with every message   *)
(* taken out that is about another DID or signed by a stranger.  A         *)
(* stranger is a key to which no insider ever hands the DID over.  resolve *)
(* (resolver/src/builder.rs) must not be able to tell the two apart.       *)
(***************************************************************************)
EXTENDS DidResolver

CONSTANT Insider
ASSUME InsiderAssumption ==
  /\ Insider \subseteq Key
  /\ Anchor \in Insider
  /\ \A m \in Message \cap OwnerMessage :
       m.signer \in Insider /\ EffectiveKeyBytes(m) \in Key
         => EffectiveKeyBytes(m) \in Insider

VARIABLE heard    \* the fold over the insiders' messages for this DID only

pairVars == <<doc, by, heard>>

PairInit ==
  /\ Init
  /\ heard = Start

FromInsider(m) == m.did = "this" /\ m.signer \in Insider

PairReceive(m) ==
  /\ Receive(m)
  /\ heard' = IF FromInsider(m) THEN Step(heard, m) ELSE heard

PairNext == \E m \in Message : PairReceive(m)

PairSpec == PairInit /\ [][PairNext]_pairVars

(* Nothing a stranger posts, before the DID is established, between two of *)
(* its owner's messages, across hand-overs or after its end, changes what  *)
(* a resolver returns or accepts next (builder.rs 82-84, 125-137, 152-167).*)
StrangersInert ==
  /\ doc = heard
  /\ doc.current \in Insider
================================================================================
