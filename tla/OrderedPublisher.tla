---------------------------- MODULE OrderedPublisher ----------------------------
(***************************************************************************)
(* What a call that publishes a batch of messages promises its caller,     *)
(* without topics, transactions, receipts or retries.  The messages appear *)
(* in the order of the batch, each once the one before it has appeared; at *)
(* any time at most one is undecided; success means that all of them have  *)
(* appeared; after a failure no message is sent any more, and at most the  *)
(* undecided one can still appear.                                         *)
(***************************************************************************)
EXTENDS Naturals

CONSTANT Call

VARIABLES
  plan,       \* plan[c]: how many messages the batch has
  published,  \* published[c]: the numbers of those that have appeared
  undecided,  \* undecided[c]: the number of the one that may yet appear
  verdict     \* "none", "running", "ok" or "failed"

vars == <<plan, published, undecided, verdict>>

Init ==
  /\ plan = [c \in Call |-> 0]
  /\ published = [c \in Call |-> {}]
  /\ undecided = [c \in Call |-> {}]
  /\ verdict = [c \in Call |-> "none"]

Begin(c) ==
  /\ verdict[c] = "none"
  /\ plan'[c] \in Nat
  /\ plan' = [plan EXCEPT ![c] = plan'[c]]
  /\ verdict' \in {[verdict EXCEPT ![c] = v] : v \in {"running", "ok", "failed"}}
  /\ verdict'[c] = "ok" => plan'[c] = 0
  /\ UNCHANGED <<published, undecided>>

Offer(c) ==
  /\ undecided[c] = {}
  /\ \E n \in 1..plan[c] :
       /\ published[c] = 1..(n - 1)
       /\ undecided' = [undecided EXCEPT ![c] = {n}]

Send(c) ==
  /\ verdict[c] = "running"
  /\ Offer(c)
  /\ UNCHANGED <<plan, published, verdict>>

Appear(c) ==
  /\ undecided[c] # {}
  /\ published' = [published EXCEPT ![c] = @ \cup undecided[c]]
  /\ undecided' = [undecided EXCEPT ![c] = {}]
  /\ UNCHANGED <<plan, verdict>>

Vanish(c) ==
  /\ undecided[c] # {}
  /\ undecided' = [undecided EXCEPT ![c] = {}]
  /\ UNCHANGED <<plan, published, verdict>>

Succeed(c) ==
  /\ verdict[c] = "running"
  /\ published[c] = 1..plan[c]
  /\ verdict' = [verdict EXCEPT ![c] = "ok"]
  /\ UNCHANGED <<plan, published, undecided>>

Fail(c) ==
  /\ verdict[c] = "running"
  /\ verdict' = [verdict EXCEPT ![c] = "failed"]
  /\ Offer(c) \/ UNCHANGED undecided
  /\ UNCHANGED <<plan, published>>

Next ==
  \E c \in Call :
    \/ Begin(c) \/ Send(c) \/ Appear(c) \/ Vanish(c) \/ Succeed(c) \/ Fail(c)

Spec == Init /\ [][Next]_vars
================================================================================
