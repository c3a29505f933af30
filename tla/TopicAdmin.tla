------------------------------- MODULE TopicAdmin -------------------------------
(***************************************************************************)
(* Topics created, updated and deleted with HcsTopic (hcs/src/hcs/topic.rs,*)
(* signing.rs, shared/awaiter.rs).  A transaction goes to node after node  *)
(* until one takes it, and is signed anew for each of them: by the operator*)
(* that pays, and by the admin signer where one is given.  A signer that   *)
(* fails leaves an empty signature and an error in a slot.  The call then  *)
(* waits for the receipt and, if asked to, until a query shows the change. *)
(***************************************************************************)
EXTENDS Options, VaultSigner

CONSTANTS
  Managed,      \* topics
  Admin,        \* callers of HcsTopic
  SignerOf,     \* per caller: its admin signer
  Memo,
  Period,       \* auto-renew periods; expiration times behave like them
  Default,      \* the memo, or period, of a topic that was given none
  Operator,     \* the operator's key
  NoKey,        \* no admin key
  MaxNodes,     \* how many nodes execute() tries
  MaxPolls      \* how many polls fit into the timeout

ASSUME AdminAssumption ==
  /\ SignerOf \in [Admin -> Signer]
  /\ MaxNodes \in Nat \ {0} /\ MaxPolls \in Nat \ {0}
  /\ Nil \notin Memo \cup Period
  /\ Operator \notin Nat /\ NoKey \notin Nat /\ Unsigned # Operator

AnyKey == 1 .. MaxVersion \cup {Operator, NoKey}
Info == [state : {"none", "live", "deleted"}, memo : Memo \cup {Default},
         period : Period \cup {Default}, admin : AnyKey]
NoTopic == [state |-> "none", memo |-> Default, period |-> Default, admin |-> NoKey]

(* CreateTopicProps, UpdateTopicProps, DeleteTopicProps: what is asked for.*)
Props ==
  [op : {"create", "update"}, topic : Managed, memo : Memo \cup {Nil},
   period : Period \cup {Nil}, keyed : BOOLEAN, wait : BOOLEAN]
  \cup [op : {"delete"}, topic : Managed, memo : {Nil}, period : {Nil},
        keyed : {FALSE}, wait : BOOLEAN]

VARIABLES
  info,         \* per topic: what a query shows
  call          \* per caller: its call

topicVars == <<info, call>>

NoCall == [state |-> "ok", props |-> Nil, key |-> NoKey, slot |-> FALSE, nodes |-> 0,
           sent |-> Nil, landed |-> "done", polls |-> 0, seen |-> Nil]

TopicInit ==
  /\ info = [t \in Managed |-> NoTopic]
  /\ call = [a \in Admin |-> NoCall]

Live(t) == info[t].state = "live"
Ended(a) == call[a].state \in {"ok", "err"}

(* A topic gets an id of its own; one is updated or deleted if it was      *)
(* created, also after it was deleted.                                     *)
Addressable(p) ==
  IF p.op = "create"
  THEN info[p.topic] = NoTopic
       /\ \A b \in Admin : ~Ended(b) \/ call[b].landed = "flying" =>
                            call[b].props.topic # p.topic
  ELSE info[p.topic] # NoTopic

(* public_key_from_signer: the public key may be none that Hedera knows.   *)
(* Bound: a caller's transaction has landed or is lost by its next call.   *)
Begin(a, p) ==
  /\ Ended(a) /\ call[a].landed # "flying"
  /\ Addressable(p)
  /\ p.keyed => announced[SignerOf[a]] # 0
  /\ p.op = "update" => p.keyed
  /\ \E state \in {"execute"} \cup {s \in {"err"} : p.keyed} :
       call' = [call EXCEPT ![a] =
         [NoCall EXCEPT !.state = state, !.props = p, !.landed = "none",
                        !.key = IF p.keyed THEN announced[SignerOf[a]] ELSE NoKey]]
  /\ UNCHANGED <<info, vaultVars>>

(* The admin signature of one node's copy: sign_with_error_capture.        *)
AdminSignatures(a) ==
  IF call[a].props.keyed THEN Signatures(SignerOf[a]) ELSE {Operator}

(* Fault: the slot is looked at only when execute fails.                   *)
SlotUnread(a, signature) == FALSE

(* take_signing_error, after execute.                                      *)
SlotFilled(a, signature) == call[a].slot \/ signature = Unsigned

(* A node takes the transaction.  All copies are one transaction: which of *)
(* them the network handles is its choice.                                 *)
Accepted(a) ==
  /\ call[a].state = "execute"
  /\ \E g \in AdminSignatures(a), kept \in {call[a].sent, Nil} :
       call' = [call EXCEPT ![a].slot = @ \/ g = Unsigned,
                  ![a].sent = IF kept = Nil THEN g ELSE kept,
                  ![a].landed = IF @ = "none" THEN "flying" ELSE @,
                  ![a].state = IF SlotFilled(a, g) THEN "err" ELSE "receipt"]
  /\ UNCHANGED <<info, vaultVars>>

(* A node does not answer, and may have taken it; the next one is tried.   *)
Unavailable(a) ==
  /\ call[a].state = "execute"
  /\ \E g \in AdminSignatures(a), taken \in BOOLEAN :
       call' = [call EXCEPT ![a].slot = @ \/ g = Unsigned,
                  ![a].sent = IF taken /\ @ = Nil THEN g ELSE @,
                  ![a].landed = IF taken /\ @ = "none" THEN "flying" ELSE @,
                  ![a].nodes = @ + 1,
                  ![a].state = IF call[a].nodes + 1 = MaxNodes THEN "err" ELSE @]
  /\ UNCHANGED <<info, vaultVars>>

(* A node refuses it.                                                      *)
Refused(a) ==
  /\ call[a].state = "execute"
  /\ call' = [call EXCEPT ![a].state = "err"]
  /\ UNCHANGED <<info, vaultVars>>

(* What the network demands: the signature of the admin key that a topic   *)
(* is to have, or has.  Only the operator signs a deletion.                *)
Authorized(a) ==
  LET p == call[a].props IN
  CASE p.op = "create" -> p.keyed => call[a].sent = call[a].key
    [] p.op = "update" -> /\ Live(p.topic)
                          /\ info[p.topic].admin = call[a].key
                          /\ call[a].sent = call[a].key
    [] p.op = "delete" -> Live(p.topic) /\ info[p.topic].admin = Operator

Given(value, otherwise) == IF value = Nil THEN otherwise ELSE value

Changed(a) ==
  LET p == call[a].props IN
  CASE p.op = "create" -> [state |-> "live", memo |-> Given(p.memo, Default),
                           period |-> Given(p.period, Default), admin |-> call[a].key]
    [] p.op = "update" -> [info[p.topic] EXCEPT !.memo = Given(p.memo, @),
                                                !.period = Given(p.period, @)]
    [] p.op = "delete" -> [info[p.topic] EXCEPT !.state = "deleted"]

(* Consensus, also after the call has given up.                            *)
Lands(a) ==
  /\ call[a].landed = "flying"
  /\ IF Authorized(a)
     THEN /\ info' = [info EXCEPT ![call[a].props.topic] = Changed(a)]
          /\ call' = [call EXCEPT ![a].landed = "done"]
     ELSE /\ call' = [call EXCEPT ![a].landed = "rejected"]
          /\ UNCHANGED info
  /\ UNCHANGED vaultVars

ReceiptSucceeds(a) ==
  /\ call[a].state = "receipt"
  /\ call[a].landed = "done"
  /\ call' = [call EXCEPT ![a].state = IF call[a].props.wait THEN "waiting" ELSE "ok"]
  /\ UNCHANGED <<info, vaultVars>>

(* Its status is an error, or it is not answered.                          *)
ReceiptFails(a) ==
  /\ call[a].state = "receipt"
  /\ call' = [call EXCEPT ![a].state = "err"]
  /\ UNCHANGED <<info, vaultVars>>

(* Fault: one field that was asked for is enough.                          *)
ShowsSome(i, p) == i.memo = p.memo \/ i.period = p.period

(* The check of wait_for_changes.                                          *)
Shows(i, p) ==
  /\ p.memo # Nil => i.memo = p.memo
  /\ p.period # Nil => i.period = p.period
  /\ p.op = "create" /\ p.keyed => i.admin # NoKey

(* A query of the topic shows what the call waits for.  A deleted topic    *)
(* shows by an error that says NOT_FOUND.                                  *)
PollSees(a) ==
  LET p == call[a].props IN
  /\ call[a].state = "waiting"
  /\ IF p.op = "delete" THEN info[p.topic].state = "deleted"
     ELSE Live(p.topic) /\ Shows(info[p.topic], p)
  /\ call' = [call EXCEPT ![a].state = "ok", ![a].seen = info[p.topic]]
  /\ UNCHANGED <<info, vaultVars>>

(* Fault: a query that fails is repeated without a look at the clock.      *)
PollAtOnce(a) ==
  /\ call[a].state = "waiting"
  /\ UNCHANGED <<info, call, vaultVars>>

(* The query fails, or shows something else; then the clock is looked at.  *)
PollAgain(a) ==
  /\ call[a].state = "waiting"
  /\ call' = [call EXCEPT ![a].polls = @ + 1,
                          ![a].state = IF call[a].polls + 1 = MaxPolls THEN "err" ELSE @]
  /\ UNCHANGED <<info, vaultVars>>

CallStep(a) ==
  \/ Accepted(a)
  \/ Unavailable(a)
  \/ Refused(a)
  \/ ReceiptSucceeds(a)
  \/ ReceiptFails(a)
  \/ PollSees(a)
  \/ PollAgain(a)

(* Other holders of the admin key.                                         *)
OthersChange(t) ==
  /\ Live(t) /\ info[t].admin # NoKey
  /\ \/ \E m \in Memo : info' = [info EXCEPT ![t].memo = m]
     \/ info' = [info EXCEPT ![t].state = "deleted"]
  /\ UNCHANGED <<call, vaultVars>>

-----------------------------------------------------------------------------
TopicTypeOK ==
  /\ info \in [Managed -> Info]
  /\ call \in [Admin ->
       [state : {"execute", "receipt", "waiting", "ok", "err"}, props : Props \cup {Nil},
        key : AnyKey, slot : BOOLEAN, nodes : 0 .. MaxNodes,
        sent : {Nil, Operator, Unsigned} \cup 1 .. MaxVersion,
        landed : {"none", "flying", "done", "rejected"}, polls : 0 .. MaxPolls,
        seen : Info \cup {Nil}]]

(* A call that reports success has changed the topic, no signer failed in  *)
(* it, not even for a copy that some other node was to get, and one that   *)
(* was to wait was shown all it had asked for at once (topic.rs 132-189,   *)
(* 223-277, 293-335).                                                      *)
OkMeansDone ==
  \A a \in Admin :
    call[a].state = "ok" =>
      /\ call[a].landed = "done"
      /\ ~call[a].slot
      /\ call[a].props # Nil /\ call[a].props.wait =>
           IF call[a].props.op = "delete" THEN call[a].seen.state = "deleted"
           ELSE /\ call[a].props.memo \in {Nil, call[a].seen.memo}
                /\ call[a].props.period \in {Nil, call[a].seen.period}
                /\ call[a].props.op = "create" /\ call[a].props.keyed =>
                     call[a].seen.admin # NoKey

(* Every call comes to an end: nodes are not tried for ever, and waits have*)
(* a deadline, also when queries fail or others change the topic again     *)
(* (awaiter.rs 26-39, topic.rs 309-331).                                   *)
TopicCallsReturn == \A a \in Admin : (~Ended(a)) ~> Ended(a)
================================================================================
