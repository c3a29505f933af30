------------------------------ MODULE DidRegistrar ------------------------------
(***************************************************************************)
(* The registrar's own-key calls: create_did, update_did and               *)
(* deactivate_did (registrar/src/create.rs, update.rs, deactivate.rs) with *)
(* the HcsTopic functions they make (hcs/src/hcs/topic.rs).  Calls run     *)
(* concurrently, on one topic or several, under one Hedera operator each;  *)
(* every await of the source is a point where others may take a step.      *)
(***************************************************************************)
EXTENDS TopicLedger

CONSTANTS
  Call,        \* the calls of a behaviour
  Operator,    \* the keys of the Hedera accounts that pay for transactions
  Request,     \* Request[c]: what call c may ask, records [kind, signer, items]
  Malformed,   \* the items from_operation turns down
  MaxTries     \* SUBMIT_MAX_RETRIES

Kind == {"create", "update", "deactivate"}

(* A request's signer is Nil when its private key does not parse.          *)
ASSUME RegistrarAssumption ==
  /\ Call \subseteq Topic    \* the topic that create call c opens is named c
  /\ DOMAIN Request = Call
  /\ Operator \subseteq Key
  /\ MaxTries \in Nat \ {0}
  /\ \A c \in Call : \A r \in Request[c] :
       /\ r.kind \in Kind
       /\ r.signer \in Key \cup {Nil}
       /\ DOMAIN r.items = 1..Len(r.items)
       /\ Len(r.items) \in Nat
       /\ r.kind = "create" => r.signer \in Key /\ Len(r.items) = 1
       /\ r.kind = "deactivate" => Len(r.items) = 1

VARIABLE call    \* call[c]: how far call c has come

vars == <<ledgerVars, call>>

Phase == {"idle", "open", "opened", "sign", "execute", "receipt", "done"}

(* "orphan" is an error that names the call's topic.                       *)
Verdict == {"none", "ok", "err", "orphan"}

Idle == [phase |-> "idle", verdict |-> "none", request |-> Nil, topic |-> Nil,
         operator |-> Nil, next |-> 1, try |-> 1]

Init ==
  /\ LedgerInit
  /\ call = [c \in Call |-> Idle]

Size(c) == IF call[c].phase = "idle" THEN 0 ELSE Len(call[c].request.items)

Creates(c) == call[c].phase # "idle" /\ call[c].request.kind = "create"

Return(c, verdict) ==
  call' = [call EXCEPT ![c].phase = "done", ![c].verdict = verdict]

(***************************************************************************)
(* Entering a call.  Others learn of a topic from the call that opened it. *)
(***************************************************************************)
Known ==
  {call[c].topic : c \in {d \in Call : Creates(d)
                                       /\ call[d].verdict \in {"ok", "orphan"}}}

Entered(c, r, k, t, phase, verdict) ==
  /\ call[c].phase = "idle"
  /\ call' = [call EXCEPT ![c] =
                [phase |-> phase, verdict |-> verdict, request |-> r,
                 topic |-> t, operator |-> k, next |-> 1, try |-> 1]]
  /\ UNCHANGED ledgerVars

CreateDid(c) ==
  \E r \in Request[c], k \in Operator :
    /\ r.kind = "create"
    /\ Entered(c, r, k, c, "open", "none")

UpdateDid(c) ==
  \E r \in Request[c], k \in Operator, t \in Known :
    /\ r.kind = "update"
    /\ \/ /\ Len(r.items) = 0
          /\ Entered(c, r, k, t, "done", "ok")
       \/ /\ Len(r.items) > 0 /\ r.signer = Nil
          /\ Entered(c, r, k, t, "done", "err")
       \/ /\ Len(r.items) > 0 /\ r.signer # Nil
          /\ Entered(c, r, k, t, "sign", "none")

DeactivateDid(c) ==
  \E r \in Request[c], k \in Operator, t \in Known :
    /\ r.kind = "deactivate"
    /\ \/ r.signer = Nil /\ Entered(c, r, k, t, "done", "err")
       \/ r.signer # Nil /\ Entered(c, r, k, t, "sign", "none")

(***************************************************************************)
(* create_did_topic: one transaction, signed by the owner key, that makes  *)
(* this key the topic's submit key.  No failure in here names the topic.   *)
(***************************************************************************)
DoorOf(c) == [topic |-> call[c].topic, submitKey |-> call[c].request.signer]

TopicTaken(c) ==
  /\ call[c].phase = "open"
  /\ opening' = opening \cup {DoorOf(c)}
  /\ call' = [call EXCEPT ![c].phase = "opened"]
  /\ UNCHANGED <<doors, pending, log>>

TopicFails(c) ==
  /\ call[c].phase = "open"
  /\ opening' \in {opening, opening \cup {DoorOf(c)}}
  /\ Return(c, "err")
  /\ UNCHANGED <<doors, pending, log>>

TopicConfirmed(c) ==
  /\ call[c].phase = "opened"
  /\ DoorOf(c) \in doors
  /\ call' = [call EXCEPT ![c].phase = "sign"]
  /\ UNCHANGED ledgerVars

TopicUnconfirmed(c) ==
  /\ call[c].phase = "opened"
  /\ Return(c, "err")
  /\ UNCHANGED ledgerVars

(***************************************************************************)
(* Signing and submitting one item after the other.                        *)
(***************************************************************************)
Item(c) == call[c].request.items[call[c].next]

(* Fault: an error after the topic was opened does not name the topic.     *)
Untagged(c) == "err"

(* create_did names the topic in every error from here on.                 *)
Failure(c) == IF Creates(c) THEN "orphan" ELSE "err"

SignItem(c) ==
  /\ call[c].phase = "sign"
  /\ Item(c) \notin Malformed
  /\ call' = [call EXCEPT ![c].phase = "execute"]
  /\ UNCHANGED ledgerVars

(* from_operation turns the item down, or the signer fails.                *)
SignFails(c) ==
  /\ call[c].phase = "sign"
  /\ Return(c, Failure(c))
  /\ UNCHANGED ledgerVars

(* heard: whether execute() reports that the transaction was taken in.     *)
PostOf(c, heard) ==
  [call |-> c, item |-> call[c].next, try |-> call[c].try, heard |-> heard]

TxOf(c, heard) ==
  [topic |-> call[c].topic, signedBy |-> call[c].operator,
   post |-> PostOf(c, heard)]

ExecuteTaken(c) ==
  /\ call[c].phase = "execute"
  /\ pending' = pending \cup {TxOf(c, TRUE)}
  /\ call' = [call EXCEPT ![c].phase = "receipt"]
  /\ UNCHANGED <<opening, doors, log>>

(* Fault: one try more than there may be.                                  *)
OneTryTooMany(c) ==
  IF Creates(c) /\ call[c].try <= MaxTries
  THEN call' = [call EXCEPT ![c].try = @ + 1]
  ELSE Return(c, Failure(c))

(* submit_with_retry: only create_did tries again.                         *)
RetryOrFail(c) ==
  IF Creates(c) /\ call[c].try < MaxTries
  THEN call' = [call EXCEPT ![c].try = @ + 1]
  ELSE Return(c, Failure(c))

(* The error may hide that a node did take the transaction in.             *)
ExecuteFails(c) ==
  /\ call[c].phase = "execute"
  /\ pending' \in {pending, pending \cup {TxOf(c, FALSE)}}
  /\ RetryOrFail(c)
  /\ UNCHANGED <<opening, doors, log>>

(* Fault: the next item goes out without a look at the receipt.            *)
Unawaited(c) == TRUE

Landed(c) == PostOf(c, TRUE) \in Posted(call[c].topic)

ReceiptSucceeds(c) ==
  /\ call[c].phase = "receipt"
  /\ Landed(c)
  /\ IF call[c].next = Size(c)
     THEN Return(c, "ok")
     ELSE call' = [call EXCEPT ![c].phase = "sign", ![c].next = @ + 1]
  /\ UNCHANGED ledgerVars

(* Fault: an unknown receipt is retried like a failed execute.             *)
BlindRetry(c) ==
  /\ call[c].phase = "receipt"
  /\ IF Creates(c) /\ call[c].try < MaxTries
     THEN call' = [call EXCEPT ![c].phase = "execute", ![c].try = @ + 1]
     ELSE Return(c, Failure(c))
  /\ UNCHANGED ledgerVars

(* Fault: create_did goes on until it has a receipt.                       *)
RetryUntilAnswered(c) ==
  /\ call[c].phase = "receipt"
  /\ IF Creates(c)
     THEN call' = [call EXCEPT ![c].phase = "execute"]
     ELSE Return(c, Failure(c))
  /\ UNCHANGED ledgerVars

(* The receipt is an error, or is not answered: no retry.                  *)
ReceiptFails(c) ==
  /\ call[c].phase = "receipt"
  /\ Return(c, Failure(c))
  /\ UNCHANGED ledgerVars

(***************************************************************************)
(* The specification.  The network owes nobody consensus; a call's own     *)
(* future is polled until it completes, and every network request is       *)
(* answered or times out.                                                  *)
(***************************************************************************)
Enter(c) == CreateDid(c) \/ UpdateDid(c) \/ DeactivateDid(c)

Proceed(c) ==
  \/ TopicTaken(c) \/ TopicFails(c) \/ TopicConfirmed(c) \/ TopicUnconfirmed(c)
  \/ SignItem(c) \/ SignFails(c)
  \/ ExecuteTaken(c) \/ ExecuteFails(c)
  \/ ReceiptSucceeds(c) \/ ReceiptFails(c)

Network == Consensus /\ UNCHANGED call

Next ==
  \/ \E c \in Call : Enter(c) \/ Proceed(c)
  \/ Network

Spec == Init /\ [][Next]_vars

FairSpec == Spec /\ \A c \in Call : WF_vars(Proceed(c))

(***************************************************************************)
(* Properties                                                              *)
(***************************************************************************)
Post == [call : Call, item : Nat \ {0}, try : 1..MaxTries, heard : BOOLEAN]

Tx == [topic : Topic, signedBy : Operator, post : Post]

Requests == UNION {Request[c] : c \in Call}

CallState ==
  [phase : Phase, verdict : Verdict, request : Requests \cup {Nil},
   topic : Topic \cup {Nil}, operator : Operator \cup {Nil},
   next : Nat \ {0}, try : 1..MaxTries]

(* The ledger and the calls keep their shapes, and a call never looks past *)
(* the items it was given.                                                 *)
TypeOK ==
  /\ opening \subseteq Door
  /\ doors \subseteq Door
  /\ pending \subseteq Tx
  /\ log \in [Topic -> Seq(Post)]
  /\ call \in [Call -> CallState]
  /\ \A c \in Call :
       call[c].phase \notin {"idle", "open", "opened", "done"}
         => call[c].next \in 1..Size(c)

AllPosts == UNION {Posted(t) : t \in Topic}

PublishedBy(c) == {p.item : p \in {q \in AllPosts : q.call = c}}

UndecidedOf(c) ==
  {tx.post.item : tx \in {x \in pending : x.post.call = c}} \ PublishedBy(c)

(* A message is sent a second time only after an execute() that reported a *)
(* failure: whatever the order in which the copies arrive, at most one of  *)
(* them was sent by an execute() that succeeded (create.rs 165-200).       *)
NoBlindRetry ==
  \A p, q \in AllPosts \cup {tx.post : tx \in pending} :
    p.call = q.call /\ p.item = q.item /\ p.heard /\ q.heard => p = q

(* A DID does not come into being behind its maker's back: create_did may  *)
(* fail although its owner message is, or will be, on the topic, but then  *)
(* the error names the topic (create.rs 59-61, 131-137, 171-184, 204-208). *)
NoLostDid ==
  \A c \in Call :
    call[c].verdict = "err" /\ Creates(c)
      => \A p \in AllPosts \cup {tx.post : tx \in pending} : p.call # c

(* A call whose transactions its topic's submit key did not sign is turned *)
(* away by the topic; the owner's own submissions are not.                 *)
OwnerAdmitted ==
  \A c \in Call :
    /\ call[c].phase = "receipt"
    /\ \E d \in doors : d.topic = call[c].topic
                       /\ d.submitKey = call[c].request.signer
    => TxOf(c, TRUE) \in pending \/ Landed(c)

(* Every call publishes its items in order, one at a time, reports success *)
(* only when all of them are on the topic, and sends nothing once it has   *)
(* failed: update.rs 116-121, create.rs 158-209, topic.rs 357-378.         *)
Ordered ==
  INSTANCE OrderedPublisher
    WITH plan      <- [c \in Call |-> Size(c)],
         published <- [c \in Call |-> PublishedBy(c)],
         undecided <- [c \in Call |-> UndecidedOf(c)],
         verdict   <- [c \in Call |->
                         CASE call[c].phase = "idle"    -> "none"
                           [] call[c].phase # "idle" /\ call[c].verdict = "none"
                                                        -> "running"
                           [] call[c].verdict = "ok"    -> "ok"
                           [] OTHER                     -> "failed"]

PublishesInOrder == Ordered!Spec

(* Every call that was entered returns: retries and items are counted, and *)
(* no failure of the network or of the signer is waited out.               *)
CallsReturn ==
  \A c \in Call : call[c].phase # "idle" ~> call[c].phase = "done"
================================================================================
