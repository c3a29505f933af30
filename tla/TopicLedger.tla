------------------------------ MODULE TopicLedger ------------------------------
(***************************************************************************)
(* The Hedera network as hcs/src/hcs/topic.rs meets it.  execute() ends    *)
(* when a node has taken a transaction in, or failed to; the transaction   *)
(* itself reaches consensus later, or never, and get_receipt() tells which *)
(* if it is answered.  Topics are opened, and messages appended, in the    *)
(* order of consensus; a message for a topic with a submit key is appended *)
(* only when that key signed the transaction.                              *)
(***************************************************************************)
EXTENDS Naturals, Sequences, DidKeys

CONSTANT Topic    \* the topics that may be opened

VARIABLES
  opening,   \* topic creations taken in: records [topic, submitKey]
  doors,     \* the open topics: records [topic, submitKey]
  pending,   \* submissions taken in: records [topic, signedBy, post]
  log        \* log[t] is the sequence of posts on topic t

ledgerVars == <<opening, doors, pending, log>>

Door == [topic : Topic, submitKey : Key \cup {Nil}]

LedgerInit ==
  /\ opening = {}
  /\ doors = {}
  /\ pending = {}
  /\ log = [t \in Topic |-> <<>>]

Posted(t) == {log[t][i] : i \in 1..Len(log[t])}

Admitted(tx) ==
  \E d \in doors : d.topic = tx.topic /\ d.submitKey \in {Nil, tx.signedBy}

OpenTopic(d) ==
  /\ d \in opening
  /\ opening' = opening \ {d}
  /\ doors' = doors \cup {d}
  /\ UNCHANGED <<pending, log>>

Appended(tx) ==
  log' = [log EXCEPT ![tx.topic] = Append(@, tx.post)]

Decide(tx) ==
  /\ tx \in pending
  /\ pending' = pending \ {tx}
  /\ IF Admitted(tx) THEN Appended(tx) ELSE UNCHANGED log
  /\ UNCHANGED <<opening, doors>>

Consensus ==
  \/ \E d \in opening : OpenTopic(d)
  \/ \E tx \in pending : Decide(tx)
================================================================================
