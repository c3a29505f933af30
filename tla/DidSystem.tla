------------------------------- MODULE DidSystem -------------------------------
(***************************************************************************)
(* The registrar's calls and what a resolver makes of the topics they      *)
(* write: doc[t] is the fold of DidDocument over log[t].  The items of a   *)
(* request are operations of DidMessages.  One owner key creates every DID *)
(* of a behaviour, each on a topic of its own.                             *)
(***************************************************************************)
EXTENDS DidRegistrar, DidMessages

VARIABLE doc    \* doc[t]: the fold over the messages of topic t

sysVars == <<vars, doc>>

(* What the three calls make of their arguments: create_did writes one     *)
(* owner event with the key that the DID is made of (create.rs 54-57), an  *)
(* update the operations it was given, deactivate_did the tombstone.  An   *)
(* event that is written is not an absent one.                             *)
ASSUME SystemAssumption ==
  \A c \in Call : \A r \in Request[c] :
    /\ r.kind = "create" =>
         r.signer = Anchor /\ r.items[1].kind = "owner" /\ r.items[1].multibase = Anchor
    /\ r.kind = "deactivate" => r.items[1].kind = "delete"
    /\ \A i \in 1..Len(r.items) :
         /\ [r.items[i] EXCEPT !.signer = Anchor] \in AnyMessage
         /\ r.items[i].did = "this"
         /\ r.items[i].kind # "delete" => Payload(r.items[i]).event # Nil
         /\ r.kind = "update" => r.items[i].kind \in EditKind
         /\ r.items[i] \in Malformed <=> TurnedDown(r.items[i])

MessageOf(post) ==
  LET r == call[post.call].request
  IN  ReadBack(r.items[post.item], r.signer)

SysInit ==
  /\ Init
  /\ doc = [t \in Topic |-> Start]

Read(t) ==
  IF log'[t] = log[t] THEN doc[t] ELSE Step(doc[t], MessageOf(Last(log'[t])))

SysNext ==
  /\ Next
  /\ doc' = [t \in Topic |-> Read(t)]

SysSpec ==
  /\ SysInit
  /\ [][SysNext]_sysVars
  /\ \A c \in Call : WF_vars(Proceed(c))

(***************************************************************************)
(* Properties                                                              *)
(***************************************************************************)

(* A DID whose create call reported success is found by every resolver     *)
(* that reads its topic to the end, then and ever after, and is controlled *)
(* by its own key (create.rs 63, builder.rs 141-182).                      *)
AckedDidResolves ==
  \A c \in Call :
    Creates(c) /\ call[c].verdict = "ok"
      => /\ doc[c].exists
         /\ doc[c].current = Anchor
         /\ Outcome(doc[c]).deactivated \/ doc[c].methods[RootKey] = Anchor

(* Once deactivate_did has returned the tombstone to the DID's owner, no   *)
(* resolver is shown a live document again, not even one that reads late   *)
(* copies of earlier messages (deactivate.rs 73-82, builder.rs 97-104).    *)
TombstoneFinal ==
  \A c \in Call :
    /\ call[c].verdict = "ok"
    /\ call[c].request.kind = "deactivate"
    /\ call[c].request.signer = Anchor
    => \A t \in {call[c].topic} :
         Outcome(doc[t]) = NotFound \/ Outcome(doc[t]).deactivated

Messages(posts) == [i \in DOMAIN posts |-> MessageOf(posts[i])]

Copies(posts) ==
  {i \in DOMAIN posts : \E j \in 1 .. i - 1 :
     posts[j].call = posts[i].call /\ posts[j].item = posts[i].item}

(* What a resolver shows does not depend on how often a submission was     *)
(* repeated: leaving out all but the first copy of every message changes   *)
(* nothing but the time of the last change (create.rs 186-198).            *)
DuplicatesHarmless ==
  \A t \in Topic :
    LET once == Folded(Messages(log[t]), Copies(log[t]))
    IN  [once EXCEPT !.updated = Nil] = [doc[t] EXCEPT !.updated = Nil]
================================================================================
