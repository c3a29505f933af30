--------------------------- MODULE DidSystem_proofs ---------------------------
(***************************************************************************)
(* Proofs about DidRegistrar and, in the second half, about DidSystem: for *)
(* any set of calls, topics, operators and requests and any number of      *)
(* tries.                                                                  *)
(***************************************************************************)
EXTENDS DidSystem, DidDocument_proofs

Sent == AllPosts \cup {tx.post : tx \in pending}

(* What a call remembers at each of its phases.                            *)
Shape(c) ==
  /\ call[c].phase = "idle" => call[c] = Idle
  /\ call[c].phase # "idle" => /\ call[c].request \in Request[c]
                               /\ call[c].topic \in Topic
                               /\ call[c].operator \in Operator
  /\ call[c].phase = "done" <=> call[c].verdict # "none"
  /\ call[c].phase \in {"open", "opened"} => Creates(c) /\ call[c].next = 1

(* A call's posts, wherever they have got to, are of the items it has come *)
(* to; the one it is at was sent by an execute() that reported success     *)
(* only if the call awaits, or has given up on, its receipt.               *)
Sends(c) ==
  \A p \in Sent :
    p.call = c =>
      /\ call[c].phase \notin {"idle", "open", "opened"}
      /\ ~(call[c].verdict = "err" /\ Creates(c))
      /\ p.item \in 1..Size(c)
      /\ p.item <= call[c].next
      /\ p.item = call[c].next => call[c].phase # "sign"
      /\ p.item = call[c].next /\ p.heard
           => call[c].phase \in {"receipt", "done"} /\ p.try = call[c].try

(* Behind the item a call is at, everything is on the topic.               *)
Kept(c) ==
  /\ \A n \in 1..(call[c].next - 1) : n \in PublishedBy(c)
  /\ call[c].verdict = "ok" => \A n \in 1..Size(c) : n \in PublishedBy(c)

IInv ==
  /\ TypeOK
  /\ \A c \in Call : Shape(c) /\ Sends(c) /\ Kept(c)
  /\ NoBlindRetry

(***************************************************************************)
(* Lemmas about the ledger.                                                *)
(***************************************************************************)

(* Appending to one topic adds one post to it and touches no other.        *)
LEMMA PostedOne ==
  ASSUME log \in [Topic -> Seq(Post)], NEW t \in Topic, NEW p \in Post,
         log' = [log EXCEPT ![t] = Append(@, p)]
  PROVE  /\ log' \in [Topic -> Seq(Post)]
         /\ AllPosts' = AllPosts \cup {p}
<1>1. log' \in [Topic -> Seq(Post)]
  OBVIOUS
<1>2. \A u \in Topic \ {t} : Posted(u)' = Posted(u)
  BY DEF Posted
<1>3. Posted(t)' = Posted(t) \cup {p}
  <2>1. log'[t] = Append(log[t], p) /\ log[t] \in Seq(Post)
    OBVIOUS
  <2>2. /\ Len(log'[t]) = Len(log[t]) + 1 /\ Len(log[t]) \in Nat
        /\ \A i \in 1..Len(log[t]) : log'[t][i] = log[t][i]
        /\ log'[t][Len(log[t]) + 1] = p
    BY <2>1
  <2>3. \A x : x \in Posted(t)' <=> x \in Posted(t) \/ x = p
    BY <2>2 DEF Posted
  <2> QED
    BY <2>3
<1>4. \A x : x \in AllPosts' <=> x \in AllPosts \/ x = p
  BY <1>2, <1>3 DEF AllPosts
<1> QED
  BY <1>1, <1>4

(* A decision moves a post from the pending ones to a topic, or drops it.  *)
LEMMA DecideSends ==
  ASSUME log \in [Topic -> Seq(Post)], pending \subseteq Tx,
         NEW tx \in pending, Decide(tx)
  PROVE  /\ log' \in [Topic -> Seq(Post)]
         /\ pending' \subseteq Tx
         /\ pending' = pending \ {tx}
         /\ AllPosts' = AllPosts \cup {tx.post} \/ AllPosts' = AllPosts
         /\ Sent' \subseteq Sent
<1>1. tx.topic \in Topic /\ tx.post \in Post
  BY DEF Tx
<1>2. pending' = pending \ {tx} /\ pending' \subseteq Tx
  BY DEF Decide
<1>3. CASE Admitted(tx)
  <2>1. log' = [log EXCEPT ![tx.topic] = Append(@, tx.post)]
    BY <1>3 DEF Decide, Appended
  <2>2. log' \in [Topic -> Seq(Post)] /\ AllPosts' = AllPosts \cup {tx.post}
    BY <1>1, <2>1, PostedOne
  <2> QED
    BY <1>2, <2>2 DEF Sent
<1>4. CASE ~Admitted(tx)
  <2>1. log' = log
    BY <1>4 DEF Decide
  <2>2. AllPosts' = AllPosts
    BY <2>1 DEF AllPosts, Posted
  <2> QED
    BY <1>2, <2>1, <2>2 DEF Sent
<1> QED
  BY <1>3, <1>4

(* Steps that touch neither pending nor log leave what was sent as it was. *)
LEMMA QuietLedger ==
  ASSUME log' = log, pending' = pending
  PROVE  AllPosts' = AllPosts /\ Sent' = Sent
<1>1. AllPosts' = AllPosts
  BY DEF AllPosts, Posted
<1> QED
  BY <1>1 DEF Sent

(* A post of call c is all that a step of c adds to the pending ones.      *)
LEMMA OneMore ==
  ASSUME NEW c \in Call, NEW heard \in BOOLEAN, log' = log,
         pending' = pending \cup {TxOf(c, heard)}
  PROVE  AllPosts' = AllPosts /\ Sent' = Sent \cup {PostOf(c, heard)}
<1>1. AllPosts' = AllPosts
  BY DEF AllPosts, Posted
<1>2. TxOf(c, heard).post = PostOf(c, heard)
  BY DEF TxOf
<1>3. \A p : p \in {tx.post : tx \in pending}'
               <=> p \in {tx.post : tx \in pending} \/ p = PostOf(c, heard)
  BY <1>2
<1>4. \A p : p \in Sent' <=> p \in Sent \/ p = PostOf(c, heard)
  BY <1>1, <1>3 DEF Sent
<1> QED
  BY <1>1, <1>4

(* What is on a topic stays on it.                                         *)
LEMMA PublishedGrows ==
  ASSUME AllPosts \subseteq AllPosts', NEW c \in Call
  PROVE  PublishedBy(c) \subseteq PublishedBy(c)'
BY DEF PublishedBy

(* What a step of one call leaves alone of another.                        *)
LEMMA Bystander ==
  ASSUME NEW d \in Call, Shape(d), Sends(d), Kept(d),
         call'[d] = call[d],
         AllPosts \subseteq AllPosts',
         \A p \in Sent' : p.call = d => p \in Sent
  PROVE  Shape(d)' /\ Sends(d)' /\ Kept(d)'
<1>1. Size(d)' = Size(d) /\ (Creates(d)' <=> Creates(d))
  BY DEF Size, Creates
<1>2. Shape(d)'
  BY <1>1 DEF Shape
<1>3. Sends(d)'
  BY <1>1 DEF Sends
<1>4. Kept(d)'
  BY <1>1, PublishedGrows DEF Kept
<1> QED
  BY <1>2, <1>3, <1>4

InRange(c) ==
  call[c].phase \notin {"idle", "open", "opened", "done"}
    => call[c].next \in 1..Size(c)

(* Steps that leave the ledger's posts where they are.                     *)
LEMMA QuietStep ==
  ASSUME IInv, NEW c \in Call, log' = log, pending' = pending,
         opening' \subseteq Door, doors' \subseteq Door,
         call' \in [Call -> CallState],
         \A d \in Call \ {c} : call'[d] = call[d],
         InRange(c)', Shape(c)', Sends(c)', Kept(c)'
  PROVE  IInv'
<1>1. AllPosts' = AllPosts /\ Sent' = Sent
  BY QuietLedger
<1>2. \A d \in Call : Shape(d)' /\ Sends(d)' /\ Kept(d)'
  <2>1. SUFFICES ASSUME NEW d \in Call \ {c}
                 PROVE  Shape(d)' /\ Sends(d)' /\ Kept(d)'
    OBVIOUS
  <2> QED
    BY <1>1, <2>1, Bystander DEF IInv
<1>3. \A d \in Call : InRange(d)'
  BY DEF IInv, TypeOK, InRange, Size
<1>4. TypeOK'
  BY <1>3 DEF IInv, TypeOK, InRange
<1>5. NoBlindRetry'
  BY <1>1 DEF IInv, NoBlindRetry, Sent
<1> QED
  BY <1>2, <1>4, <1>5 DEF IInv

(* Steps that send the item the call is at.                                *)
LEMMA SendStep ==
  ASSUME IInv, NEW c \in Call, NEW heard \in BOOLEAN,
         call[c].phase = "execute",
         log' = log, pending' = pending \cup {TxOf(c, heard)},
         opening' = opening, doors' = doors,
         call' \in [Call -> CallState],
         \A d \in Call \ {c} : call'[d] = call[d],
         InRange(c)', Shape(c)', Sends(c)', Kept(c)'
  PROVE  IInv'
<1>1. AllPosts' = AllPosts /\ Sent' = Sent \cup {PostOf(c, heard)}
  BY OneMore
<1>2. TxOf(c, heard) \in Tx
  BY DEF IInv, TypeOK, Shape, TxOf, PostOf, Tx, Post, CallState
<1>3. \A d \in Call : Shape(d)' /\ Sends(d)' /\ Kept(d)'
  <2>1. SUFFICES ASSUME NEW d \in Call \ {c}
                 PROVE  Shape(d)' /\ Sends(d)' /\ Kept(d)'
    OBVIOUS
  <2>2. \A p \in Sent' : p.call = d => p \in Sent
    BY <1>1, <2>1 DEF PostOf
  <2> QED
    BY <1>1, <2>1, <2>2, Bystander DEF IInv
<1>4. \A d \in Call : InRange(d)'
  BY DEF IInv, TypeOK, InRange, Size
<1>5. TypeOK'
  BY <1>2, <1>4 DEF IInv, TypeOK, InRange
<1>6. NoBlindRetry'
  <2>1. \A p \in Sent : p.call = c /\ p.item = call[c].next => ~p.heard
    BY DEF IInv, Sends
  <2>2. \A p, q \in Sent : p.call = q.call /\ p.item = q.item /\ p.heard /\ q.heard
                             => p = q
    BY DEF IInv, NoBlindRetry, Sent
  <2>3. \A p, q \in Sent' : p.call = q.call /\ p.item = q.item /\ p.heard /\ q.heard
                             => p = q
    BY <1>1, <2>1, <2>2 DEF PostOf
  <2> QED
    BY <2>3 DEF NoBlindRetry, Sent
<1> QED
  BY <1>3, <1>5, <1>6 DEF IInv

(* Before any call nothing was sent, and every idle call is well-formed.   *)
THEOREM InitInv == Init => IInv
<1>1. SUFFICES ASSUME Init PROVE IInv
  OBVIOUS
<1>2. Sent = {}
  BY <1>1 DEF Init, LedgerInit, Sent, AllPosts, Posted
<1>3. \A c \in Call : call[c] = Idle
  BY <1>1 DEF Init
<1>4. TypeOK
  <2>1. Idle \in CallState
    BY RegistrarAssumption DEF Idle, CallState, Phase, Verdict
  <2>2. log \in [Topic -> Seq(Post)]
    BY <1>1 DEF Init, LedgerInit
  <2> QED
    BY <1>1, <1>3, <2>1, <2>2 DEF TypeOK, Init, LedgerInit, Idle
<1>5. \A c \in Call : Shape(c) /\ Sends(c) /\ Kept(c)
  BY <1>2, <1>3 DEF Shape, Sends, Kept, Idle
<1>6. NoBlindRetry
  BY <1>2 DEF NoBlindRetry, Sent
<1> QED
  BY <1>4, <1>5, <1>6 DEF IInv

(***************************************************************************)
(* The steps of a call, one lemma each where they have something to say.   *)
(***************************************************************************)
(* A call that is entered has sent nothing yet.                            *)
LEMMA EnteredInv ==
  ASSUME IInv, NEW c \in Call, NEW r \in Request[c], NEW k \in Operator,
         NEW t \in Topic, NEW phase \in {"open", "sign", "done"},
         NEW verdict \in {"none", "ok", "err"},
         phase = "done" <=> verdict # "none",
         phase = "open" => r.kind = "create",
         phase = "sign" => Len(r.items) > 0,
         verdict = "ok" => Len(r.items) = 0,
         Entered(c, r, k, t, phase, verdict)
  PROVE  IInv'
<1>1. /\ call[c].phase = "idle"
      /\ call'[c] = [phase |-> phase, verdict |-> verdict, request |-> r,
                     topic |-> t, operator |-> k, next |-> 1, try |-> 1]
      /\ \A d \in Call \ {c} : call'[d] = call[d]
      /\ UNCHANGED ledgerVars
  BY DEF Entered, IInv, TypeOK
<1>2. Len(r.items) \in Nat /\ r \in Requests
  BY RegistrarAssumption DEF Requests
<1>3. call'[c] \in CallState
  BY <1>1, <1>2, RegistrarAssumption DEF CallState, Phase, Verdict
<1>4. call' \in [Call -> CallState]
  BY <1>3 DEF Entered, IInv, TypeOK
<1>5. Size(c)' = Len(r.items)
  BY <1>1 DEF Size
<1>6. InRange(c)' /\ Shape(c)'
  BY <1>1, <1>2, <1>5 DEF InRange, Shape, Creates
<1>7. Sent' = Sent /\ AllPosts' = AllPosts
  BY <1>1, QuietLedger DEF ledgerVars
<1>8. Sends(c)'
  <2>1. \A p \in Sent : p.call # c
    BY <1>1 DEF IInv, Sends
  <2> QED
    BY <1>7, <2>1 DEF Sends
<1>9. Kept(c)'
  BY <1>1, <1>5 DEF Kept
<1>10. opening' = opening /\ doors' = doors /\ log' = log /\ pending' = pending
  BY <1>1 DEF ledgerVars
<1>11. opening' \subseteq Door /\ doors' \subseteq Door
  BY <1>10 DEF IInv, TypeOK
<1> QED
  BY <1>1, <1>4, <1>6, <1>8, <1>9, <1>10, <1>11, QuietStep

(* All three calls, with their early returns.                              *)
LEMMA EnterInv ==
  ASSUME IInv, NEW c \in Call, Enter(c)
  PROVE  IInv'
<1>1. Known \subseteq Topic
  BY DEF Known, Creates, IInv, Shape
<1>2. CASE CreateDid(c)
  <2>1. PICK r \in Request[c], k \in Operator :
          r.kind = "create" /\ Entered(c, r, k, c, "open", "none")
    BY <1>2 DEF CreateDid
  <2>2. c \in Topic
    BY RegistrarAssumption
  <2> QED
    BY <2>1, <2>2, EnteredInv
<1>3. CASE UpdateDid(c)
  <2>1. PICK r \in Request[c], k \in Operator, t \in Known :
          /\ r.kind = "update"
          /\ \/ Len(r.items) = 0 /\ Entered(c, r, k, t, "done", "ok")
             \/ Len(r.items) > 0 /\ Entered(c, r, k, t, "done", "err")
             \/ Len(r.items) > 0 /\ Entered(c, r, k, t, "sign", "none")
    BY <1>3 DEF UpdateDid
  <2>2. CASE Len(r.items) = 0 /\ Entered(c, r, k, t, "done", "ok")
    BY <1>1, <2>1, <2>2, EnteredInv
  <2>3. CASE Entered(c, r, k, t, "done", "err")
    BY <1>1, <2>1, <2>3, EnteredInv
  <2>4. CASE Len(r.items) > 0 /\ Entered(c, r, k, t, "sign", "none")
    BY <1>1, <2>1, <2>4, EnteredInv
  <2> QED
    BY <2>1, <2>2, <2>3, <2>4
<1>4. CASE DeactivateDid(c)
  <2>1. PICK r \in Request[c], k \in Operator, t \in Known :
          /\ r.kind = "deactivate"
          /\ \/ Entered(c, r, k, t, "done", "err")
             \/ Entered(c, r, k, t, "sign", "none")
    BY <1>4 DEF DeactivateDid
  <2>2. Len(r.items) > 0
    <3>1. r.kind = "deactivate" => Len(r.items) = 1
      BY RegistrarAssumption
    <3>2. Len(r.items) = 1
      BY <2>1, <3>1
    <3> QED
      BY <3>2
  <2>3. CASE Entered(c, r, k, t, "done", "err")
    BY <1>1, <2>1, <2>3, EnteredInv
  <2>4. CASE Entered(c, r, k, t, "sign", "none")
    BY <1>1, <2>1, <2>2, <2>4, EnteredInv
  <2> QED
    BY <2>1, <2>3, <2>4
<1> QED
  BY <1>2, <1>3, <1>4 DEF Enter

(* A call that returns an error, with the ledger's posts left as they are. *)
LEMMA FailInv ==
  ASSUME IInv, NEW c \in Call, NEW v \in {"err", "orphan"},
         call[c].phase \in {"open", "opened", "sign", "receipt"},
         call[c].phase \in {"sign", "receipt"} => v = Failure(c),
         Return(c, v), log' = log, pending' = pending,
         opening' \subseteq Door, doors' \subseteq Door
  PROVE  IInv'
<1>1. /\ call'[c] = [call[c] EXCEPT !.phase = "done", !.verdict = v]
      /\ \A d \in Call \ {c} : call'[d] = call[d]
      /\ call[c] \in CallState
  BY DEF Return, IInv, TypeOK
<1>2. call'[c] \in CallState /\ call' \in [Call -> CallState]
  BY <1>1 DEF Return, IInv, TypeOK, CallState, Phase, Verdict
<1>3. /\ call'[c].phase = "done" /\ call'[c].verdict = v
      /\ call'[c].request = call[c].request /\ call'[c].topic = call[c].topic
      /\ call'[c].operator = call[c].operator /\ call'[c].next = call[c].next
      /\ call'[c].try = call[c].try
  BY <1>1 DEF CallState
<1>4. Size(c)' = Size(c) /\ (Creates(c)' <=> Creates(c))
  BY <1>3 DEF Size, Creates
<1>5. InRange(c)' /\ Shape(c)'
  BY <1>3, <1>4 DEF InRange, Shape, IInv
<1>6. AllPosts' = AllPosts /\ Sent' = Sent
  BY QuietLedger
<1>7. Sends(c)'
  <2>1. CASE call[c].phase \in {"open", "opened"}
    BY <1>6, <2>1 DEF Sends, IInv
  <2>2. CASE call[c].phase \in {"sign", "receipt"}
    BY <1>3, <1>4, <1>6, <2>2 DEF Sends, IInv, Failure
  <2> QED
    BY <2>1, <2>2
<1>8. Kept(c)'
  BY <1>3, <1>4, <1>6 DEF Kept, IInv, PublishedBy
<1> QED
  BY <1>1, <1>2, <1>5, <1>7, <1>8, QuietStep

(* A call that goes on to its next phase without sending anything.         *)
LEMMA AdvanceInv ==
  ASSUME IInv, NEW c \in Call, NEW phase \in {"opened", "sign", "execute"},
         call[c].phase \in {"open", "opened", "sign"},
         phase = "opened" => call[c].phase = "open",
         phase = "sign" => call[c].phase = "opened",
         phase = "execute" => call[c].phase = "sign",
         call' = [call EXCEPT ![c].phase = phase], log' = log, pending' = pending,
         opening' \subseteq Door, doors' \subseteq Door
  PROVE  IInv'
<1>1. /\ call'[c] = [call[c] EXCEPT !.phase = phase]
      /\ \A d \in Call \ {c} : call'[d] = call[d]
      /\ call[c] \in CallState
  BY DEF IInv, TypeOK
<1>2. call'[c] \in CallState /\ call' \in [Call -> CallState]
  BY <1>1 DEF IInv, TypeOK, CallState, Phase
<1>3. /\ call'[c].phase = phase /\ call'[c].verdict = call[c].verdict
      /\ call'[c].request = call[c].request /\ call'[c].topic = call[c].topic
      /\ call'[c].operator = call[c].operator /\ call'[c].next = call[c].next
      /\ call'[c].try = call[c].try
  BY <1>1 DEF CallState
<1>4. Size(c)' = Size(c) /\ (Creates(c)' <=> Creates(c))
  BY <1>3 DEF Size, Creates
<1>5. Shape(c)'
  BY <1>3, <1>4 DEF Shape, IInv
<1>6. AllPosts' = AllPosts /\ Sent' = Sent
  BY QuietLedger
<1>7. Sends(c)'
  BY <1>3, <1>4, <1>6 DEF Sends, IInv
<1>8. Kept(c)'
  BY <1>3, <1>4, <1>6 DEF Kept, IInv, PublishedBy
<1>9. PICK n \in Nat \ {0} : n = call[c].next
  BY <1>1 DEF CallState
<1>10. InRange(c)'
  <2>1. CASE call[c].phase = "opened"
    <3>1. Creates(c) /\ call[c].next = 1
      BY <2>1 DEF IInv, Shape
    <3>2. Size(c) = 1
      BY <2>1, <3>1, RegistrarAssumption DEF IInv, Shape, Size, Creates
    <3> QED
      BY <1>3, <1>4, <3>1, <3>2 DEF InRange
  <2>2. CASE call[c].phase # "opened"
    BY <1>3, <1>4, <1>9, <2>2 DEF InRange, IInv, TypeOK
  <2> QED
    BY <2>1, <2>2
<1> QED
  BY <1>1, <1>2, <1>5, <1>7, <1>8, <1>10, QuietStep

(* execute() reports that the item was taken in: first copy to be heard.   *)
LEMMA TakenInv ==
  ASSUME IInv, NEW c \in Call, ExecuteTaken(c)
  PROVE  IInv'
<1>1. /\ call[c].phase = "execute" /\ log' = log
      /\ pending' = pending \cup {TxOf(c, TRUE)}
      /\ opening' = opening /\ doors' = doors
      /\ call' = [call EXCEPT ![c].phase = "receipt"]
  BY DEF ExecuteTaken
<1>2. /\ call'[c] = [call[c] EXCEPT !.phase = "receipt"]
      /\ \A d \in Call \ {c} : call'[d] = call[d]
      /\ call[c] \in CallState
  BY <1>1 DEF IInv, TypeOK
<1>3. call'[c] \in CallState /\ call' \in [Call -> CallState]
  BY <1>1, <1>2 DEF IInv, TypeOK, CallState, Phase
<1>4. /\ call'[c].phase = "receipt" /\ call'[c].verdict = call[c].verdict
      /\ call'[c].request = call[c].request /\ call'[c].topic = call[c].topic
      /\ call'[c].operator = call[c].operator /\ call'[c].next = call[c].next
      /\ call'[c].try = call[c].try
  BY <1>2 DEF CallState
<1>5. Size(c)' = Size(c) /\ (Creates(c)' <=> Creates(c))
  BY <1>1, <1>4 DEF Size, Creates
<1>6. Shape(c)'
  BY <1>1, <1>4, <1>5 DEF Shape, IInv
<1>7. AllPosts' = AllPosts /\ Sent' = Sent \cup {PostOf(c, TRUE)}
  BY <1>1, OneMore
<1>8. call[c].next \in 1..Size(c) /\ call[c].verdict = "none"
  BY <1>1 DEF IInv, TypeOK, Shape
<1>9. InRange(c)'
  BY <1>4, <1>5, <1>8 DEF InRange
<1>10. Sends(c)'
  <2>1. SUFFICES ASSUME NEW p \in Sent', p.call = c
                 PROVE  /\ p.item \in 1..Size(c)
                        /\ p.item <= call[c].next
                        /\ p.item = call[c].next /\ p.heard => p.try = call[c].try
    BY <1>4, <1>5, <1>8 DEF Sends
  <2>2. CASE p \in Sent
    BY <1>1, <2>1, <2>2 DEF IInv, Sends
  <2>3. CASE p = PostOf(c, TRUE)
    BY <1>2, <1>8, <2>3 DEF PostOf, CallState
  <2> QED
    BY <1>7, <2>1, <2>2, <2>3
<1>11. Kept(c)'
  BY <1>4, <1>5, <1>7 DEF Kept, IInv, PublishedBy
<1> QED
  BY <1>1, <1>2, <1>3, <1>6, <1>9, <1>10, <1>11, SendStep

(* execute() fails: the copy, if there is one, is not heard, and a retry   *)
(* moves on to a try of which there is no copy yet.                        *)
LEMMA ExecuteFailsInv ==
  ASSUME IInv, NEW c \in Call, ExecuteFails(c)
  PROVE  IInv'
<1>1. /\ call[c].phase = "execute" /\ log' = log
      /\ pending' = pending \/ pending' = pending \cup {TxOf(c, FALSE)}
      /\ opening' = opening /\ doors' = doors
      /\ RetryOrFail(c)
  BY DEF ExecuteFails
<1>2. call[c] \in CallState /\ call \in [Call -> CallState]
  BY DEF IInv, TypeOK
<1>3. call[c].next \in 1..Size(c) /\ call[c].verdict = "none" /\ call[c].next \in Nat
  BY <1>1, <1>2 DEF IInv, TypeOK, Shape, CallState
<1>4. /\ call' \in [Call -> CallState]
      /\ \A d \in Call \ {c} : call'[d] = call[d]
      /\ \/ /\ call'[c].phase = "execute" /\ call'[c].verdict = "none"
         \/ /\ call'[c].phase = "done" /\ call'[c].verdict = Failure(c)
      /\ call'[c].request = call[c].request /\ call'[c].topic = call[c].topic
      /\ call'[c].operator = call[c].operator /\ call'[c].next = call[c].next
  <2>1. CASE Creates(c) /\ call[c].try < MaxTries
    <3>1. call' = [call EXCEPT ![c].try = @ + 1]
      BY <1>1, <2>1 DEF RetryOrFail
    <3>2. call'[c] = [call[c] EXCEPT !.try = @ + 1]
      BY <1>2, <3>1
    <3>3. call[c].try + 1 \in 1..MaxTries
      BY <1>2, <2>1, RegistrarAssumption DEF CallState
    <3> QED
      BY <1>1, <1>2, <1>3, <3>1, <3>2, <3>3 DEF CallState
  <2>2. CASE ~(Creates(c) /\ call[c].try < MaxTries)
    <3>1. call' = [call EXCEPT ![c].phase = "done", ![c].verdict = Failure(c)]
      BY <1>1, <2>2 DEF RetryOrFail, Return
    <3>2. call'[c] = [call[c] EXCEPT !.phase = "done", !.verdict = Failure(c)]
      BY <1>2, <3>1
    <3>3. Failure(c) \in Verdict
      BY DEF Failure, Verdict
    <3> QED
      BY <1>2, <3>1, <3>2, <3>3 DEF CallState, Phase
  <2> QED
    BY <2>1, <2>2
<1>5. Size(c)' = Size(c) /\ (Creates(c)' <=> Creates(c))
  BY <1>1, <1>4 DEF Size, Creates
<1>6. Failure(c) \in {"err", "orphan"} /\ (Failure(c) = "err" => ~Creates(c))
  BY DEF Failure
<1>7. Shape(c)'
  BY <1>1, <1>4, <1>5, <1>6 DEF Shape, IInv
<1>8. InRange(c)'
  BY <1>3, <1>4, <1>5 DEF InRange
<1>9. AllPosts' = AllPosts
  BY <1>1 DEF AllPosts, Posted
<1>10. Kept(c)'
  BY <1>3, <1>4, <1>5, <1>6, <1>9 DEF Kept, IInv, PublishedBy
<1>11. ASSUME NEW p \in Sent, p.call = c
       PROVE  /\ p.item \in 1..Size(c) /\ p.item <= call[c].next
              /\ ~(p.item = call[c].next /\ p.heard)
  BY <1>1, <1>11 DEF IInv, Sends
<1>12. CASE pending' = pending
  <2>1. Sent' = Sent
    BY <1>1, <1>12, QuietLedger
  <2>2. Sends(c)'
    BY <1>4, <1>5, <1>6, <1>11, <2>1 DEF Sends
  <2>3. opening' \subseteq Door /\ doors' \subseteq Door
    BY <1>1 DEF IInv, TypeOK
  <2> QED
    BY <1>1, <1>4, <1>7, <1>8, <1>10, <1>12, <2>2, <2>3, QuietStep
<1>13. CASE pending' = pending \cup {TxOf(c, FALSE)}
  <2>1. Sent' = Sent \cup {PostOf(c, FALSE)}
    BY <1>1, <1>13, OneMore
  <2>2. /\ PostOf(c, FALSE).item = call[c].next
        /\ PostOf(c, FALSE).heard = FALSE
    BY DEF PostOf
  <2>3. \A p \in Sent' : p.call = c => /\ p.item \in 1..Size(c)
                                       /\ p.item <= call[c].next
                                       /\ ~(p.item = call[c].next /\ p.heard)
    <3>1. call[c].next <= call[c].next
      BY <1>3
    <3> QED
      BY <1>3, <1>11, <2>1, <2>2, <3>1
  <2>4. Sends(c)'
    BY <1>4, <1>5, <1>6, <2>3 DEF Sends
  <2> QED
    BY <1>1, <1>4, <1>7, <1>8, <1>10, <1>13, <2>4, SendStep
<1> QED
  BY <1>1, <1>12, <1>13

(* A receipt that succeeds moves on to an item of which nothing was sent.  *)
LEMMA SucceedsInv ==
  ASSUME IInv, NEW c \in Call, ReceiptSucceeds(c)
  PROVE  IInv'
<1>1. /\ call[c].phase = "receipt" /\ Landed(c)
      /\ log' = log /\ pending' = pending /\ opening' = opening /\ doors' = doors
  BY DEF ReceiptSucceeds, ledgerVars
<1>2. call[c] \in CallState /\ call \in [Call -> CallState]
  BY DEF IInv, TypeOK
<1>3. /\ call[c].next \in 1..Size(c) /\ call[c].verdict = "none"
      /\ call[c].next \in Nat /\ Size(c) \in Nat
  BY <1>1, <1>2, RegistrarAssumption DEF IInv, TypeOK, Shape, CallState, Size
<1>4. call[c].next \in PublishedBy(c)
  <2>1. PostOf(c, TRUE) \in AllPosts
    BY <1>1 DEF Landed, AllPosts, IInv, Shape
  <2> QED
    BY <2>1 DEF PublishedBy, PostOf
<1>5. \A n \in 1..call[c].next : n \in PublishedBy(c)
  BY <1>3, <1>4 DEF IInv, Kept
<1>6. AllPosts' = AllPosts /\ Sent' = Sent
  BY <1>1, QuietLedger
<1>7. PublishedBy(c)' = PublishedBy(c)
  BY <1>6 DEF PublishedBy
<1>8. opening' \subseteq Door /\ doors' \subseteq Door
  BY <1>1 DEF IInv, TypeOK
<1>9. CASE call[c].next = Size(c)
  <2>1. call' = [call EXCEPT ![c].phase = "done", ![c].verdict = "ok"]
    BY <1>9 DEF ReceiptSucceeds, Return
  <2>2. call'[c] = [call[c] EXCEPT !.phase = "done", !.verdict = "ok"]
    BY <1>2, <2>1
  <2>3. /\ call' \in [Call -> CallState]
        /\ \A d \in Call \ {c} : call'[d] = call[d]
        /\ call'[c].phase = "done" /\ call'[c].verdict = "ok"
        /\ call'[c].request = call[c].request /\ call'[c].topic = call[c].topic
        /\ call'[c].operator = call[c].operator /\ call'[c].next = call[c].next
        /\ call'[c].try = call[c].try
    BY <1>2, <2>1, <2>2 DEF CallState, Phase, Verdict
  <2>4. Size(c)' = Size(c) /\ (Creates(c)' <=> Creates(c))
    BY <1>1, <2>3 DEF Size, Creates
  <2>5. InRange(c)' /\ Shape(c)'
    BY <1>1, <2>3, <2>4 DEF InRange, Shape, IInv
  <2>6. Sends(c)'
    BY <1>1, <1>6, <2>3, <2>4 DEF Sends, IInv
  <2>7. Kept(c)'
    BY <1>5, <1>7, <1>9, <2>3, <2>4 DEF Kept, IInv
  <2> QED
    BY <1>1, <1>8, <2>3, <2>5, <2>6, <2>7, QuietStep
<1>10. CASE call[c].next # Size(c)
  <2>1. call' = [call EXCEPT ![c].phase = "sign", ![c].next = @ + 1]
    BY <1>10 DEF ReceiptSucceeds
  <2>2. call'[c] = [call[c] EXCEPT !.phase = "sign", !.next = @ + 1]
    BY <1>2, <2>1
  <2>3. /\ call' \in [Call -> CallState]
        /\ \A d \in Call \ {c} : call'[d] = call[d]
        /\ call'[c].phase = "sign" /\ call'[c].verdict = "none"
        /\ call'[c].request = call[c].request /\ call'[c].topic = call[c].topic
        /\ call'[c].operator = call[c].operator /\ call'[c].next = call[c].next + 1
        /\ call'[c].try = call[c].try
    BY <1>2, <1>3, <2>1, <2>2 DEF CallState, Phase
  <2>4. Size(c)' = Size(c) /\ (Creates(c)' <=> Creates(c))
    BY <1>1, <2>3 DEF Size, Creates
  <2>5. InRange(c)' /\ Shape(c)'
    BY <1>1, <1>3, <1>10, <2>3, <2>4 DEF InRange, Shape, IInv
  <2>6. ASSUME NEW p \in Sent, p.call = c
        PROVE  p.item \in 1..Size(c) /\ p.item <= call[c].next
    BY <2>6 DEF IInv, Sends
  <2>7. Sends(c)'
    BY <1>3, <1>6, <2>3, <2>4, <2>6 DEF Sends
  <2>8. Kept(c)'
    BY <1>3, <1>5, <1>7, <2>3, <2>4 DEF Kept
  <2> QED
    BY <1>1, <1>8, <2>3, <2>5, <2>7, <2>8, QuietStep
<1> QED
  BY <1>9, <1>10

(* The network only moves what was sent from pending to the topics.        *)
LEMMA NetworkInv ==
  ASSUME IInv, Network
  PROVE  IInv'
<1>1. call' = call
  BY DEF Network
<1>2. \A c \in Call : Size(c)' = Size(c) /\ (Creates(c)' <=> Creates(c))
  BY <1>1 DEF Size, Creates
<1>3. CASE \E d \in opening : OpenTopic(d)
  <2>1. PICK d \in opening : OpenTopic(d)
    BY <1>3
  <2>2. /\ opening' \subseteq Door /\ doors' \subseteq Door
        /\ log' = log /\ pending' = pending
    BY <2>1 DEF OpenTopic, IInv, TypeOK
  <2>3. AllPosts' = AllPosts /\ Sent' = Sent
    BY <2>2, QuietLedger
  <2>4. TypeOK'
    BY <1>1, <1>2, <2>2 DEF IInv, TypeOK
  <2>5. \A c \in Call : Shape(c)' /\ Sends(c)' /\ Kept(c)'
    BY <1>1, <2>3, Bystander DEF IInv
  <2>6. NoBlindRetry'
    BY <2>3 DEF IInv, NoBlindRetry, Sent
  <2> QED
    BY <2>4, <2>5, <2>6 DEF IInv
<1>4. CASE \E tx \in pending : Decide(tx)
  <2>1. PICK tx \in pending : Decide(tx)
    BY <1>4
  <2>2. /\ log' \in [Topic -> Seq(Post)] /\ pending' \subseteq Tx
        /\ AllPosts \subseteq AllPosts' /\ Sent' \subseteq Sent
    BY <2>1, DecideSends DEF IInv, TypeOK
  <2>3. opening' = opening /\ doors' = doors
    BY <2>1 DEF Decide
  <2>4. TypeOK'
    BY <1>1, <1>2, <2>2, <2>3 DEF IInv, TypeOK
  <2>5. \A c \in Call : Shape(c)' /\ Sends(c)' /\ Kept(c)'
    BY <1>1, <2>2, Bystander DEF IInv
  <2>6. NoBlindRetry'
    BY <2>2 DEF IInv, NoBlindRetry, Sent
  <2> QED
    BY <2>4, <2>5, <2>6 DEF IInv
<1> QED
  BY <1>3, <1>4 DEF Network, Consensus

(* Every step of a call under way.                                         *)
LEMMA ProceedInv ==
  ASSUME IInv, NEW c \in Call, Proceed(c)
  PROVE  IInv'
<1>1. /\ opening \subseteq Door /\ doors \subseteq Door
      /\ Failure(c) \in {"err", "orphan"}
  BY DEF IInv, TypeOK, Failure
<1>2. ASSUME call[c].phase \in {"open", "opened"}
      PROVE  DoorOf(c) \in Door
  <2>1. /\ call[c].request \in Request[c] /\ call[c].request.kind = "create"
        /\ call[c].topic \in Topic
    BY <1>2 DEF IInv, Shape, Creates
  <2>2. \A r \in Request[c] : r.kind = "create" => r.signer \in Key
    BY RegistrarAssumption
  <2> QED
    BY <2>1, <2>2 DEF DoorOf, Door
<1>3. CASE TopicTaken(c)
  BY <1>1, <1>2, <1>3, AdvanceInv DEF TopicTaken
<1>4. CASE TopicFails(c)
  BY <1>1, <1>2, <1>4, FailInv DEF TopicFails
<1>5. CASE TopicConfirmed(c)
  BY <1>1, <1>5, AdvanceInv DEF TopicConfirmed, ledgerVars
<1>6. CASE TopicUnconfirmed(c)
  BY <1>1, <1>6, FailInv DEF TopicUnconfirmed, ledgerVars
<1>7. CASE SignItem(c)
  BY <1>1, <1>7, AdvanceInv DEF SignItem, ledgerVars
<1>8. CASE SignFails(c)
  BY <1>1, <1>8, FailInv DEF SignFails, ledgerVars
<1>9. CASE ExecuteTaken(c)
  BY <1>9, TakenInv
<1>10. CASE ExecuteFails(c)
  BY <1>10, ExecuteFailsInv
<1>11. CASE ReceiptSucceeds(c)
  BY <1>11, SucceedsInv
<1>12. CASE ReceiptFails(c)
  BY <1>1, <1>12, FailInv DEF ReceiptFails, ledgerVars
<1> QED
  BY <1>3, <1>4, <1>5, <1>6, <1>7, <1>8, <1>9, <1>10, <1>11, <1>12 DEF Proceed

(* The strengthened invariant is inductive: one case per kind of step.     *)
THEOREM StepInv ==
  ASSUME IInv, [Next]_vars
  PROVE  IInv'
<1>1. CASE Next
  BY <1>1, EnterInv, ProceedInv, NetworkInv DEF Next
<1>2. CASE UNCHANGED vars
  <2>1. /\ log' = log /\ pending' = pending /\ opening' = opening
        /\ doors' = doors /\ call' = call
    BY <1>2 DEF vars, ledgerVars
  <2>2. AllPosts' = AllPosts /\ Sent' = Sent
    BY <2>1, QuietLedger
  <2>3. \A c \in Call : Shape(c)' /\ Sends(c)' /\ Kept(c)'
    BY <2>1, <2>2, Bystander DEF IInv
  <2>4. TypeOK'
    BY <2>1 DEF IInv, TypeOK, Size
  <2>5. NoBlindRetry'
    BY <2>2 DEF IInv, NoBlindRetry, Sent
  <2> QED
    BY <2>3, <2>4, <2>5 DEF IInv
<1> QED
  BY <1>1, <1>2

(* Hence it holds in every state of every behaviour, for every set of      *)
(* calls, every bound on the retries and every batch.                      *)
THEOREM Invariance == Spec => []IInv
<1>1. IInv /\ [Next]_vars => IInv'
  BY StepInv
<1> QED
  BY InitInv, <1>1, PTL DEF Spec

(* The ledger and the calls keep their shapes.                             *)
THEOREM TypeCorrect == Spec => []TypeOK
<1>1. IInv => TypeOK
  BY DEF IInv
<1> QED
  BY Invariance, <1>1, PTL

(* However create_did's retries and the network's decisions interleave, of *)
(* all the copies of a message at most one left an execute() that reported *)
(* success: an unknown receipt is never answered with another copy.        *)
THEOREM RetriesAreNotBlind == Spec => []NoBlindRetry
<1>1. IInv => NoBlindRetry
  BY DEF IInv
<1> QED
  BY Invariance, <1>1, PTL

(* A create call that returns an error without its topic has sent nothing. *)
THEOREM DidsAreNotLost == Spec => []NoLostDid
<1>1. IInv => NoLostDid
  BY DEF IInv, Sends, NoLostDid, Sent
<1> QED
  BY Invariance, <1>1, PTL

(***************************************************************************)
(* Calls as OrderedPublisher sees them.  IInv says all there is to know:   *)
(* of each call the items before the one it is at are on topics, that one  *)
(* may be there or have copies under way, and later ones are nowhere.      *)
(***************************************************************************)
VerdictOf(c) ==
  CASE call[c].phase = "idle"    -> "none"
    [] call[c].phase # "idle" /\ call[c].verdict = "none"
                                 -> "running"
    [] call[c].verdict = "ok"    -> "ok"
    [] OTHER                     -> "failed"

Plan == [c \in Call |-> Size(c)]
Published == [c \in Call |-> PublishedBy(c)]
Undecided == [c \in Call |-> UndecidedOf(c)]
Answers == [c \in Call |-> VerdictOf(c)]

LEMMA Progress ==
  ASSUME IInv, NEW c \in Call
  PROVE  /\ call[c] \in CallState /\ call[c].next \in Nat \ {0} /\ Size(c) \in Nat
         /\ PublishedBy(c) \in {1..(call[c].next - 1), 1..call[c].next}
         /\ UndecidedOf(c) \in {{}, {call[c].next}}
         /\ UndecidedOf(c) # {} => /\ PublishedBy(c) = 1..(call[c].next - 1)
                                   /\ call[c].next \in 1..Size(c)
         /\ call[c].verdict = "ok" => PublishedBy(c) = 1..Size(c)
         /\ call[c].phase = "idle" => PublishedBy(c) = {} /\ UndecidedOf(c) = {}
<1> DEFINE n == call[c].next
<1>1. /\ call[c] \in CallState /\ n \in Nat \ {0} /\ Size(c) \in Nat
  BY RegistrarAssumption DEF IInv, TypeOK, CallState, Shape, Size
<1>2. /\ Shape(c) /\ Sends(c) /\ Kept(c)
      /\ \A p \in Sent : p.call = c => p.item \in 1..Size(c) /\ p.item \in 1..n
  BY <1>1 DEF IInv, Sends
<1>3. \A i : i \in PublishedBy(c) <=> \E p \in AllPosts : p.call = c /\ p.item = i
  BY DEF PublishedBy
<1>4. \A i \in PublishedBy(c) : i \in 1..Size(c) /\ i \in 1..n
  BY <1>2, <1>3 DEF Sent
<1>5. \A i : i \in UndecidedOf(c) =>
        i \notin PublishedBy(c) /\ \E p \in Sent : p.call = c /\ p.item = i
  BY DEF UndecidedOf, Sent
<1>6. \A i \in UndecidedOf(c) : i \in 1..Size(c) /\ i \in 1..n /\ i \notin PublishedBy(c)
  BY <1>2, <1>5
<1>7. \A i \in 1..(n - 1) : i \in PublishedBy(c)
  BY <1>2 DEF Kept
<1>8. \A i \in 1..n : i \in 1..(n - 1) \/ i = n
  BY <1>1
<1>9. PublishedBy(c) \in {1..(n - 1), 1..n}
  <2>1. CASE n \in PublishedBy(c)
    <3>1. PublishedBy(c) = 1..n
      BY <1>4, <1>7, <1>8, <2>1
    <3> QED
      BY <3>1
  <2>2. CASE n \notin PublishedBy(c)
    <3>1. PublishedBy(c) = 1..(n - 1)
      BY <1>4, <1>7, <1>8, <2>2
    <3> QED
      BY <3>1
  <2> QED
    BY <2>1, <2>2
<1>10. \A i \in UndecidedOf(c) : i = n /\ n \notin PublishedBy(c) /\ n \in 1..Size(c)
  BY <1>6, <1>7, <1>8
<1>11. UndecidedOf(c) # {} => PublishedBy(c) = 1..(n - 1) /\ n \in 1..Size(c)
  <2>1. n \in 1..n
    BY <1>1
  <2> QED
    BY <1>9, <1>10, <2>1
<1>12. call[c].verdict = "ok" => PublishedBy(c) = 1..Size(c)
  BY <1>2, <1>4 DEF Kept
<1>13. call[c].phase = "idle" => \A p \in Sent : p.call # c
  BY <1>2 DEF Sends
<1>14. call[c].phase = "idle" => PublishedBy(c) = {} /\ UndecidedOf(c) = {}
  BY <1>3, <1>5, <1>13 DEF Sent
<1> HIDE DEF n
<1>15. UndecidedOf(c) \in {{}, {n}}
  BY <1>10
<1> QED
  BY <1>1, <1>9, <1>11, <1>12, <1>14, <1>15 DEF n

(* What a step is to all calls but one.                                    *)
Alone(c) ==
  \A d \in Call \ {c} : /\ call'[d] = call[d]
                        /\ PublishedBy(d)' = PublishedBy(d)
                        /\ UndecidedOf(d)' = UndecidedOf(d)

LEMMA OneMoves ==
  ASSUME NEW c \in Call, Alone(c)
  PROVE  /\ Plan' = [Plan EXCEPT ![c] = Size(c)']
         /\ Published' = [Published EXCEPT ![c] = PublishedBy(c)']
         /\ Undecided' = [Undecided EXCEPT ![c] = UndecidedOf(c)']
         /\ Answers' = [Answers EXCEPT ![c] = VerdictOf(c)']
<1>1. \A d \in Call \ {c} : Size(d)' = Size(d) /\ VerdictOf(d)' = VerdictOf(d)
  BY DEF Alone, Size, VerdictOf
<1>2. \A d \in Call \ {c} : PublishedBy(d)' = PublishedBy(d) /\ UndecidedOf(d)' = UndecidedOf(d)
  BY DEF Alone
<1> QED
  BY <1>1, <1>2 DEF Plan, Published, Undecided, Answers

(* The actions of OrderedPublisher, in these terms.                        *)
LEMMA AbstractBegin ==
  ASSUME NEW c \in Call, Alone(c), VerdictOf(c) = "none", Size(c)' \in Nat,
         VerdictOf(c)' \in {"running", "ok", "failed"},
         VerdictOf(c)' = "ok" => Size(c)' = 0,
         PublishedBy(c)' = PublishedBy(c), UndecidedOf(c)' = UndecidedOf(c)
  PROVE  Ordered!Next
<1>1. /\ Plan'[c] = Size(c)' /\ Answers[c] = "none" /\ Answers'[c] = VerdictOf(c)'
      /\ Plan' = [Plan EXCEPT ![c] = Plan'[c]]
      /\ Answers' = [Answers EXCEPT ![c] = Answers'[c]]
      /\ Published' = Published /\ Undecided' = Undecided
  BY OneMoves DEF Plan, Answers, Published, Undecided
<1>2. Ordered!Begin(c)
  BY <1>1 DEF Ordered!Begin, Plan, Published, Undecided, Answers, VerdictOf
<1> QED
  BY <1>2 DEF Ordered!Next

LEMMA AbstractSend ==
  ASSUME NEW c \in Call, Alone(c), NEW n \in 1..Size(c), VerdictOf(c) = "running",
         UndecidedOf(c) = {}, UndecidedOf(c)' = {n}, PublishedBy(c) = 1..(n - 1),
         Size(c)' = Size(c), PublishedBy(c)' = PublishedBy(c),
         VerdictOf(c)' \in {"running", "failed"}
  PROVE  Ordered!Next
<1>1. /\ Undecided[c] = {} /\ Published[c] = 1..(n - 1) /\ n \in 1..Plan[c]
      /\ Answers[c] = "running"
      /\ Undecided' = [Undecided EXCEPT ![c] = {n}]
      /\ Plan' = Plan /\ Published' = Published
      /\ Answers' = Answers \/ Answers' = [Answers EXCEPT ![c] = "failed"]
  BY OneMoves DEF Plan, Published, Undecided, Answers
<1>2. Ordered!Offer(c)
  BY <1>1 DEF Ordered!Offer, Plan, Published, Undecided
<1>3. Ordered!Send(c) \/ Ordered!Fail(c)
  BY <1>1, <1>2 DEF Ordered!Send, Ordered!Fail, Plan, Published, Undecided, Answers, VerdictOf
<1> QED
  BY <1>3 DEF Ordered!Next

LEMMA AbstractDecide ==
  ASSUME NEW c \in Call, Alone(c), call' = call, NEW n, UndecidedOf(c) = {n}, UndecidedOf(c)' = {},
         PublishedBy(c)' \in {PublishedBy(c), PublishedBy(c) \cup {n}}
  PROVE  Ordered!Next
<1>1. Size(c)' = Size(c) /\ VerdictOf(c)' = VerdictOf(c)
  BY DEF Size, VerdictOf
<1>2. Plan' = Plan /\ Answers' = Answers
  BY <1>1, OneMoves DEF Plan, Answers
<1>3. /\ Undecided[c] = {n} /\ Undecided' = [Undecided EXCEPT ![c] = {}]
      /\ \/ Published' = Published
         \/ Published' = [Published EXCEPT ![c] = @ \cup {n}]
  BY OneMoves DEF Published, Undecided
<1>4. Ordered!Appear(c) \/ Ordered!Vanish(c)
  BY <1>2, <1>3 DEF Ordered!Appear, Ordered!Vanish, Plan, Published, Undecided, Answers, VerdictOf
<1> QED
  BY <1>4 DEF Ordered!Next

LEMMA AbstractReturn ==
  ASSUME NEW c \in Call, Alone(c), VerdictOf(c) = "running", VerdictOf(c)' \in {"ok", "failed"},
         VerdictOf(c)' = "ok" => PublishedBy(c) = 1..Size(c),
         Size(c)' = Size(c), PublishedBy(c)' = PublishedBy(c), UndecidedOf(c)' = UndecidedOf(c)
  PROVE  Ordered!Next
<1>1. /\ Answers[c] = "running"
      /\ VerdictOf(c)' = "ok" => Published[c] = 1..Plan[c]
      /\ Answers' = [Answers EXCEPT ![c] = VerdictOf(c)']
      /\ Plan' = Plan /\ Published' = Published /\ Undecided' = Undecided
  BY OneMoves DEF Plan, Published, Undecided, Answers
<1>2. Ordered!Succeed(c) \/ Ordered!Fail(c)
  BY <1>1 DEF Ordered!Succeed, Ordered!Fail, Plan, Published, Undecided, Answers, VerdictOf
<1> QED
  BY <1>2 DEF Ordered!Next

LEMMA AbstractStutter ==
  ASSUME NEW c \in Call, Alone(c), Size(c)' = Size(c), PublishedBy(c)' = PublishedBy(c),
         UndecidedOf(c)' = UndecidedOf(c), VerdictOf(c)' = VerdictOf(c)
  PROVE  UNCHANGED Ordered!vars
<1>1. Plan' = Plan /\ Published' = Published /\ Undecided' = Undecided /\ Answers' = Answers
  BY OneMoves DEF Plan, Published, Undecided, Answers
<1> QED
  BY <1>1 DEF Ordered!vars, Plan, Published, Undecided, Answers, VerdictOf

(* A call that stays where it is, and whose items stay where they are, or  *)
(* that returns.                                                           *)
LEMMA QuietOrdered ==
  ASSUME IInv, NEW c \in Call, call[c].phase \notin {"idle", "done"},
         log' = log, pending' = pending,
         call' \in [Call -> CallState],
         \A d \in Call \ {c} : call'[d] = call[d],
         call'[c].phase # "idle", call'[c].request = call[c].request,
         call'[c].verdict = "ok" => call[c].next = Size(c) /\ Landed(c)
  PROVE  [Ordered!Next]_Ordered!vars
<1>1. AllPosts' = AllPosts
  BY QuietLedger
<1>2. \A d \in Call : PublishedBy(d)' = PublishedBy(d) /\ UndecidedOf(d)' = UndecidedOf(d)
  BY <1>1 DEF PublishedBy, UndecidedOf
<1>3. Alone(c) /\ Size(c)' = Size(c)
  BY <1>2 DEF Alone, Size
<1>4. call[c].verdict = "none" /\ VerdictOf(c) = "running"
  BY DEF IInv, TypeOK, CallState, Shape, VerdictOf, Phase
<1>5. call'[c].verdict \in {"none", "ok", "err", "orphan"}
  BY DEF CallState, Verdict
<1>6. CASE call'[c].verdict = "none"
  <2>1. VerdictOf(c)' = VerdictOf(c)
    BY <1>4, <1>6 DEF VerdictOf
  <2> QED
    BY <1>2, <1>3, <2>1, AbstractStutter
<1>7. CASE call'[c].verdict \in {"err", "orphan"}
  <2>1. VerdictOf(c)' = "failed"
    BY <1>7 DEF VerdictOf
  <2> QED
    BY <1>2, <1>3, <1>4, <2>1, AbstractReturn
<1>8. CASE call'[c].verdict = "ok"
  <2>1. VerdictOf(c)' = "ok"
    BY <1>8 DEF VerdictOf
  <2>2. PostOf(c, TRUE) \in AllPosts
    BY <1>8 DEF Landed, AllPosts, IInv, Shape
  <2>3. call[c].next \in PublishedBy(c)
    BY <2>2 DEF PublishedBy, PostOf
  <2>4. call[c].next \notin 1..(call[c].next - 1)
    BY Progress
  <2>5. PublishedBy(c) = 1..Size(c)
    BY <1>8, <2>3, <2>4, Progress
  <2> QED
    BY <1>2, <1>3, <1>4, <2>1, <2>5, AbstractReturn
<1> QED
  BY <1>5, <1>6, <1>7, <1>8

(* One more copy of an item: the first one is sent, others change nothing  *)
(* unless the call gives up.                                               *)
LEMMA SendOrdered ==
  ASSUME IInv, NEW c \in Call, call[c].phase = "execute", NEW heard \in BOOLEAN,
         log' = log, pending' = pending \cup {TxOf(c, heard)},
         call' \in [Call -> CallState],
         \A d \in Call \ {c} : call'[d] = call[d],
         call'[c].phase # "idle", call'[c].request = call[c].request,
         call'[c].verdict # "ok"
  PROVE  [Ordered!Next]_Ordered!vars
<1> DEFINE n == call[c].next
           tx == TxOf(c, heard)
<1>1. \A d \in Call : PublishedBy(d)' = PublishedBy(d)
  BY OneMore DEF PublishedBy
<1>2. tx.post.call = c /\ tx.post.item = n
  BY DEF TxOf, PostOf
<1>3. \A i : i \in UndecidedOf(c) <=>
        i \notin PublishedBy(c) /\ \E x \in pending : x.post.call = c /\ x.post.item = i
  BY DEF UndecidedOf
<1>4. \A i : i \in UndecidedOf(c)' <=>
        i \notin PublishedBy(c) /\ \E x \in pending' : x.post.call = c /\ x.post.item = i
  BY <1>1 DEF UndecidedOf
<1> HIDE DEF tx
<1>5. \A i : i \in UndecidedOf(c)' <=> i \in UndecidedOf(c) \/ (i = n /\ n \notin PublishedBy(c))
  BY <1>2, <1>3, <1>4 DEF tx
<1>6. ASSUME NEW d \in Call \ {c} PROVE UndecidedOf(d)' = UndecidedOf(d)
  <2>1. {x \in pending : x.post.call = d}' = {x \in pending : x.post.call = d}
    BY <1>2 DEF tx
  <2> QED
    BY <1>1, <2>1 DEF UndecidedOf
<1>7. Alone(c) /\ Size(c)' = Size(c)
  BY <1>1, <1>6 DEF Alone, Size
<1>8. VerdictOf(c) = "running" /\ VerdictOf(c)' \in {"running", "failed"} /\ n \in 1..Size(c)
  BY DEF IInv, TypeOK, CallState, Shape, VerdictOf, Phase
<1> HIDE DEF n
<1>9. CASE n \in PublishedBy(c) \/ n \in UndecidedOf(c)
  <2>1. UndecidedOf(c)' = UndecidedOf(c)
    BY <1>5, <1>9
  <2>2. CASE VerdictOf(c)' = "running"
    BY <1>1, <1>7, <1>8, <2>1, <2>2, AbstractStutter
  <2>3. CASE VerdictOf(c)' = "failed"
    BY <1>1, <1>7, <1>8, <2>1, <2>3, AbstractReturn
  <2> QED
    BY <1>8, <2>2, <2>3
<1>10. CASE n \notin PublishedBy(c) /\ n \notin UndecidedOf(c)
  <2>1. UndecidedOf(c) = {}
    BY <1>10, Progress DEF n
  <2>2. UndecidedOf(c)' = {n}
    BY <1>5, <1>10, <2>1
  <2>3. n \in 1..n
    BY Progress DEF n
  <2>4. PublishedBy(c) = 1..(n - 1)
    BY <1>10, <2>3, Progress DEF n
  <2> QED
    BY <1>1, <1>7, <1>8, <2>1, <2>2, <2>4, AbstractSend
<1> QED
  BY <1>9, <1>10

(* The network decides about a copy.  An item disappears with its last one.*)
LEMMA DecideOrdered ==
  ASSUME IInv, NEW tx \in pending, Decide(tx), call' = call
  PROVE  [Ordered!Next]_Ordered!vars
<1> DEFINE c == tx.post.call
           i == tx.post.item
<1>1. /\ c \in Call /\ pending' = pending \ {tx}
      /\ AllPosts' = AllPosts \cup {tx.post} \/ AllPosts' = AllPosts
  BY DecideSends DEF IInv, TypeOK, Tx, Post
<1>2. ASSUME NEW d \in Call \ {c}
      PROVE  PublishedBy(d)' = PublishedBy(d) /\ UndecidedOf(d)' = UndecidedOf(d)
  <2>1. {q \in AllPosts : q.call = d}' = {q \in AllPosts : q.call = d}
    BY <1>1
  <2>2. {x \in pending : x.post.call = d}' = {x \in pending : x.post.call = d}
    BY <1>1
  <2> QED
    BY <2>1, <2>2 DEF PublishedBy, UndecidedOf
<1>3. Alone(c) /\ Size(c)' = Size(c) /\ VerdictOf(c)' = VerdictOf(c)
  BY <1>2 DEF Alone, Size, VerdictOf
<1>4. /\ PublishedBy(c)' \in {PublishedBy(c), PublishedBy(c) \cup {i}}
      /\ i \notin PublishedBy(c) => i \in UndecidedOf(c)
  <2>1. \A j : j \in PublishedBy(c) <=> \E p \in AllPosts : p.call = c /\ p.item = j
    BY DEF PublishedBy
  <2>2. \A j : j \in PublishedBy(c)' <=> \E p \in AllPosts' : p.call = c /\ p.item = j
    BY DEF PublishedBy
  <2>3. AllPosts' = AllPosts => PublishedBy(c)' = PublishedBy(c)
    BY DEF PublishedBy
  <2>4. ASSUME AllPosts' = AllPosts \cup {tx.post}
        PROVE  PublishedBy(c)' = PublishedBy(c) \cup {i}
    <3>1. \A j : j \in PublishedBy(c)' <=> j \in PublishedBy(c) \/ j = i
      BY <2>1, <2>2, <2>4
    <3> QED
      BY <3>1
  <2>5. i \notin PublishedBy(c) => i \in UndecidedOf(c)
    BY DEF UndecidedOf
  <2> QED
    BY <1>1, <2>3, <2>4, <2>5
<1>5. \A j : j \in UndecidedOf(c) <=>
        j \notin PublishedBy(c) /\ \E x \in pending : x.post.call = c /\ x.post.item = j
  BY DEF UndecidedOf
<1>6. \A j : j \in UndecidedOf(c)' <=>
        j \notin PublishedBy(c)' /\ \E x \in pending' : x.post.call = c /\ x.post.item = j
  BY DEF UndecidedOf
<1> HIDE DEF c, i
<1>7. CASE i \in PublishedBy(c)
  <2>1. PublishedBy(c)' = PublishedBy(c)
    BY <1>4, <1>7
  <2>2. \A j : j \in UndecidedOf(c)' <=> j \in UndecidedOf(c)
    BY <1>1, <1>5, <1>6, <1>7, <2>1 DEF c, i
  <2>3. UndecidedOf(c)' = UndecidedOf(c)
    <3>1. \A j \in UndecidedOf(c)' : j \in UndecidedOf(c)
      BY <2>2
    <3>2. \A j \in UndecidedOf(c) : j \in UndecidedOf(c)'
      BY <2>2
    <3> QED
      BY <2>2
  <2> QED
    BY <1>1, <1>3, <2>1, <2>3, AbstractStutter
<1>8. CASE i \notin PublishedBy(c)
  <2>1. UndecidedOf(c) = {i}
    BY <1>1, <1>4, <1>8, Progress
  <2>2. \A j \in UndecidedOf(c)' : j = i
    BY <1>1, <1>4, <1>5, <1>6, <2>1
  <2>3. UndecidedOf(c)' = {} \/ UndecidedOf(c)' = {i}
    BY <2>2
  <2>4. CASE UndecidedOf(c)' = {}
    BY <1>1, <1>3, <1>4, <2>1, <2>4, AbstractDecide
  <2>5. CASE UndecidedOf(c)' = {i}
    <3>1. PublishedBy(c)' = PublishedBy(c)
      BY <1>4, <1>6, <2>5
    <3> QED
      BY <1>1, <1>3, <2>1, <2>5, <3>1, AbstractStutter
  <2> QED
    BY <2>3, <2>4, <2>5
<1> QED
  BY <1>7, <1>8

(* A call is entered, and may return at once: with success only when it    *)
(* has nothing to send.                                                    *)
LEMMA EnteredOrdered ==
  ASSUME IInv, NEW c \in Call, NEW r \in Request[c], NEW k, NEW t,
         NEW phase \in {"open", "sign", "done"}, NEW verdict \in {"none", "ok", "err"},
         Entered(c, r, k, t, phase, verdict), verdict = "ok" => Len(r.items) = 0
  PROVE  Ordered!Next
<1>2. /\ call[c].phase = "idle" /\ log' = log /\ pending' = pending
      /\ call'[c] = [phase |-> phase, verdict |-> verdict, request |-> r,
                     topic |-> t, operator |-> k, next |-> 1, try |-> 1]
      /\ \A d \in Call \ {c} : call'[d] = call[d]
  BY DEF Entered, ledgerVars, IInv, TypeOK
<1>3. AllPosts' = AllPosts
  BY <1>2, QuietLedger
<1>4. \A d \in Call : PublishedBy(d)' = PublishedBy(d) /\ UndecidedOf(d)' = UndecidedOf(d)
  BY <1>2, <1>3 DEF PublishedBy, UndecidedOf
<1>5. Alone(c) /\ Size(c)' = Len(r.items) /\ Len(r.items) \in Nat
  BY <1>2, <1>4, RegistrarAssumption DEF Alone, Size
<1>6. VerdictOf(c) = "none"
  BY <1>2 DEF VerdictOf, IInv, Shape, Idle
<1>7. /\ VerdictOf(c)' \in {"running", "ok", "failed"}
      /\ VerdictOf(c)' = "ok" => verdict = "ok"
  BY <1>2 DEF VerdictOf
<1> QED
  BY <1>4, <1>5, <1>6, <1>7, AbstractBegin

LEMMA EnterOrdered ==
  ASSUME IInv, NEW c \in Call, Enter(c)
  PROVE  Ordered!Next
<1>1. CASE CreateDid(c)
  <2>1. PICK r \in Request[c], k \in Operator : Entered(c, r, k, c, "open", "none")
    BY <1>1 DEF CreateDid
  <2> QED
    BY <2>1, EnteredOrdered
<1>2. CASE UpdateDid(c)
  <2>1. PICK r \in Request[c], k \in Operator, t \in Known :
          \/ Len(r.items) = 0 /\ Entered(c, r, k, t, "done", "ok")
          \/ Entered(c, r, k, t, "done", "err")
          \/ Entered(c, r, k, t, "sign", "none")
    BY <1>2 DEF UpdateDid
  <2> QED
    BY <2>1, EnteredOrdered
<1>3. CASE DeactivateDid(c)
  <2>1. PICK r \in Request[c], k \in Operator, t \in Known :
          Entered(c, r, k, t, "done", "err") \/ Entered(c, r, k, t, "sign", "none")
    BY <1>3 DEF DeactivateDid
  <2> QED
    BY <2>1, EnteredOrdered
<1> QED
  BY <1>1, <1>2, <1>3 DEF Enter

LEMMA ProceedOrdered ==
  ASSUME IInv, NEW c \in Call, Proceed(c)
  PROVE  [Ordered!Next]_Ordered!vars
<1>1. IInv' /\ call[c] \in CallState /\ call \in [Call -> CallState]
  BY ProceedInv DEF IInv, TypeOK
<1>2. call' \in [Call -> CallState] /\ Failure(c) # "ok"
  BY <1>1 DEF IInv, TypeOK, Failure
<1>3. /\ call[c].phase \notin {"idle", "done"} /\ call[c].verdict = "none"
      /\ \A d \in Call \ {c} : call'[d] = call[d]
      /\ call'[c].phase # "idle" /\ call'[c].request = call[c].request
  <2>1. call[c].phase \notin {"idle", "done"}
    BY DEF Proceed, TopicTaken, TopicFails, TopicConfirmed, TopicUnconfirmed, SignItem, SignFails,
       ExecuteTaken, ExecuteFails, ReceiptSucceeds, ReceiptFails
  <2>2. call[c].verdict = "none"
    BY <1>1, <2>1 DEF IInv, Shape, CallState, Verdict
  <2> DEFINE Stays == /\ \A d \in Call \ {c} : call'[d] = call[d]
                      /\ call'[c].phase # "idle" /\ call'[c].request = call[c].request
  <2>3. ASSUME NEW v, Return(c, v) PROVE Stays
    BY <1>1, <2>3 DEF Return, CallState
  <2>4. ASSUME NEW p \in Phase \ {"idle"}, call' = [call EXCEPT ![c].phase = p] PROVE Stays
    BY <1>1, <2>4 DEF CallState
  <2>5. ASSUME TopicTaken(c) \/ TopicConfirmed(c) \/ SignItem(c) \/ ExecuteTaken(c)
        PROVE  Stays
    <3>1. \/ call' = [call EXCEPT ![c].phase = "opened"]
          \/ call' = [call EXCEPT ![c].phase = "sign"]
          \/ call' = [call EXCEPT ![c].phase = "execute"]
          \/ call' = [call EXCEPT ![c].phase = "receipt"]
      BY <2>5 DEF TopicTaken, TopicConfirmed, SignItem, ExecuteTaken
    <3>2. {"opened", "sign", "execute", "receipt"} \subseteq Phase \ {"idle"}
      BY DEF Phase
    <3> HIDE DEF Stays
    <3> QED
      BY <2>4, <3>1, <3>2
  <2>6. ASSUME TopicFails(c) \/ TopicUnconfirmed(c) \/ SignFails(c) \/ ReceiptFails(c)
        PROVE  Stays
    <3>1. Return(c, "err") \/ Return(c, Failure(c))
      BY <2>6 DEF TopicFails, TopicUnconfirmed, SignFails, ReceiptFails
    <3> HIDE DEF Stays
    <3> QED
      BY <2>3, <3>1
  <2>7. ASSUME ExecuteFails(c) \/ ReceiptSucceeds(c)
        PROVE  Stays
    <3>1. \/ Return(c, "ok") \/ Return(c, Failure(c))
          \/ call' = [call EXCEPT ![c].try = @ + 1]
          \/ call' = [call EXCEPT ![c].phase = "sign", ![c].next = @ + 1]
      BY <2>7 DEF ExecuteFails, RetryOrFail, ReceiptSucceeds
    <3>2. call' = [call EXCEPT ![c].try = @ + 1] => Stays
      BY <1>1, <2>1 DEF CallState
    <3>3. call' = [call EXCEPT ![c].phase = "sign", ![c].next = @ + 1] => Stays
      BY <1>1 DEF CallState
    <3> HIDE DEF Stays
    <3> QED
      BY <2>3, <3>1, <3>2, <3>3
  <2> QED
    BY <2>1, <2>2, <2>5, <2>6, <2>7 DEF Proceed
<1>4. CASE \/ TopicTaken(c) \/ TopicFails(c) \/ TopicConfirmed(c) \/ TopicUnconfirmed(c)
           \/ SignItem(c) \/ SignFails(c) \/ ReceiptFails(c)
  <2>1. log' = log /\ pending' = pending /\ call'[c].verdict # "ok"
    BY <1>1, <1>2, <1>3, <1>4 DEF TopicTaken, TopicFails, TopicConfirmed, TopicUnconfirmed, SignItem,
       SignFails, ReceiptFails, Return, ledgerVars, CallState
  <2> QED
    BY <1>2, <1>3, <2>1, QuietOrdered
<1>5. CASE ReceiptSucceeds(c)
  <2>1. /\ log' = log /\ pending' = pending
        /\ call'[c].verdict = "ok" => call[c].next = Size(c) /\ Landed(c)
    BY <1>1, <1>3, <1>5 DEF ReceiptSucceeds, Return, ledgerVars, CallState
  <2> QED
    BY <1>2, <1>3, <2>1, QuietOrdered
<1>6. CASE ExecuteTaken(c)
  <2>1. /\ call[c].phase = "execute" /\ log' = log
        /\ pending' = pending \cup {TxOf(c, TRUE)} /\ call'[c].verdict # "ok"
    BY <1>1, <1>3, <1>6 DEF ExecuteTaken, CallState
  <2> QED
    BY <1>2, <1>3, <2>1, SendOrdered
<1>7. CASE ExecuteFails(c)
  <2>1. call[c].phase = "execute" /\ log' = log /\ call'[c].verdict # "ok"
    BY <1>1, <1>2, <1>3, <1>7 DEF ExecuteFails, RetryOrFail, Return, CallState
  <2>2. CASE pending' = pending
    BY <1>2, <1>3, <2>1, <2>2, QuietOrdered
  <2>3. CASE pending' = pending \cup {TxOf(c, FALSE)}
    BY <1>2, <1>3, <2>1, <2>3, SendOrdered
  <2> QED
    BY <1>7, <2>2, <2>3 DEF ExecuteFails
<1> QED
  BY <1>4, <1>5, <1>6, <1>7 DEF Proceed

(* Steps of which no call sees anything.                                   *)
LEMMA NoneMoves ==
  ASSUME call' = call, log' = log, pending' = pending
  PROVE  UNCHANGED Ordered!vars
<1>1. AllPosts' = AllPosts
  BY QuietLedger
<1>2. \A d \in Call : PublishedBy(d)' = PublishedBy(d) /\ UndecidedOf(d)' = UndecidedOf(d)
  BY <1>1 DEF PublishedBy, UndecidedOf
<1>3. \A d \in Call : Size(d)' = Size(d) /\ VerdictOf(d)' = VerdictOf(d)
  BY DEF Size, VerdictOf
<1> QED
  BY <1>2, <1>3 DEF Ordered!vars, VerdictOf

LEMMA StepOrdered ==
  ASSUME IInv, [Next]_vars
  PROVE  [Ordered!Next]_Ordered!vars
<1>1. CASE \E c \in Call : Enter(c) \/ Proceed(c)
  BY <1>1, EnterOrdered, ProceedOrdered
<1>2. CASE Network
  BY <1>2, DecideOrdered, NoneMoves DEF Network, Consensus, OpenTopic
<1>3. CASE UNCHANGED vars
  BY <1>3, NoneMoves DEF vars, ledgerVars
<1> QED
  BY <1>1, <1>2, <1>3 DEF Next

LEMMA InitOrdered == Init => Ordered!Init
<1> SUFFICES ASSUME Init PROVE Ordered!Init
  OBVIOUS
<1>1. AllPosts = {} /\ pending = {}
  BY DEF Init, LedgerInit, AllPosts, Posted
<1>2. ASSUME NEW c \in Call
      PROVE  /\ Size(c) = 0 /\ PublishedBy(c) = {} /\ UndecidedOf(c) = {}
             /\ VerdictOf(c) = "none"
  BY <1>1 DEF Init, Idle, Size, PublishedBy, UndecidedOf, VerdictOf
<1> QED
  BY <1>2 DEF Ordered!Init, VerdictOf

(* The own-key calls publish as OrderedPublisher says, for any calls,      *)
(* batches and number of tries: retries of a creation are copies of one    *)
(* message, and late copies of it are no news.                             *)
THEOREM Refinement == Spec => PublishesInOrder
<1>1. Init => IInv /\ Ordered!Init
  BY InitInv, InitOrdered
<1>2. IInv /\ [Next]_vars => IInv' /\ [Ordered!Next]_Ordered!vars
  BY StepInv, StepOrdered
<1> QED
  BY <1>1, <1>2, PTL DEF Spec, PublishesInOrder, Ordered!Spec

(***************************************************************************)
(* What readers make of what the calls write.                              *)
(***************************************************************************)

(* What the three calls post: readers see the DID's own key established,   *)
(* an edit, or the tombstone, under the key the call was given.            *)
Establishes(m) ==
  m \in OwnerMessage /\ m.id = "this" /\ m.signer = Anchor /\ EffectiveKeyBytes(m) = Anchor
                     /\ EffectiveKeyMultibase(m) = Anchor

Means(r, m) ==
  /\ m \in AnyMessage
  /\ m.did = "this"
  /\ m.signer = r.signer
  /\ r.kind = "create" => Establishes(m)
  /\ r.kind = "update" => m.kind \in EditKind
  /\ r.kind = "deactivate" => m.kind = "delete"

(* Whatever the request, an item of it is read as the call meant it.       *)
LEMMA Meaning ==
  ASSUME NEW c \in Call, NEW r \in Request[c], NEW i \in 1..Len(r.items)
  PROVE  Means(r, ReadBack(r.items[i], r.signer))
<1> DEFINE asked == r.items[i]
           m == ReadBack(asked, r.signer)
           aim == [asked EXCEPT !.signer = Anchor]
<1> SUFFICES Means(r, m)
  OBVIOUS
<1>1. /\ r.kind \in Kind /\ r.signer \in Key \cup {Nil} /\ Len(r.items) \in Nat
      /\ r.kind = "create" => Len(r.items) = 1
      /\ r.kind = "deactivate" => Len(r.items) = 1
  BY RegistrarAssumption
<1>2. /\ r.kind = "create" =>
           r.signer = Anchor /\ r.items[1].kind = "owner" /\ r.items[1].multibase = Anchor
      /\ r.kind = "deactivate" => r.items[1].kind = "delete"
      /\ aim \in AnyMessage
      /\ asked.did = "this"
      /\ asked.kind # "delete" => Payload(asked).event # Nil
      /\ r.kind = "update" => asked.kind \in EditKind
  BY SystemAssumption
<1>3. r.kind \in {"create", "deactivate"} => i = 1
  <2>1. ASSUME Len(r.items) = 1 PROVE i = 1
    BY <2>1
  <2> QED
    BY <1>1, <2>1
<1>4. aim.kind = asked.kind
  BY <1>2 DEF AnyMessage, UndecodableMessage, DeleteMessage, OwnerMessage,
              AddMethodMessage, RemoveMethodMessage, AddServiceMessage,
              RemoveServiceMessage, NoticeMessage
<1>5. /\ asked.kind = "owner" => aim \in OwnerMessage
      /\ asked.kind = "delete" => aim \in DeleteMessage
  BY <1>2, <1>4 DEF AnyMessage, UndecodableMessage, DeleteMessage, OwnerMessage,
                    AddMethodMessage, RemoveMethodMessage, AddServiceMessage,
                    RemoveServiceMessage, NoticeMessage
<1>6. CASE r.kind = "create"
  <2>1. /\ asked.kind = "owner" /\ asked.multibase = Anchor /\ r.signer = Anchor
        /\ aim \in OwnerMessage /\ Payload(asked).event # Nil
    BY <1>2, <1>3, <1>5, <1>6
  <2>2. /\ m \in OwnerMessage
        /\ m = [kind |-> "owner", did |-> asked.did, signer |-> r.signer,
                stamp |-> asked.stamp, id |-> asked.did,
                multibase |-> asked.multibase, base58 |-> Nil,
                controller |-> asked.controller]
    BY <1>1, <2>1, OwnerWritten
  <2>3. /\ m.did = "this" /\ m.id = "this" /\ m.signer = Anchor
        /\ m.multibase = Anchor /\ m.base58 = Nil
    BY <1>2, <2>1, <2>2
  <2>4. Anchor # Nil
    BY KeyAssumption, AbsentKeyAssumption
  <2>5. EffectiveKeyBytes(m) = Anchor /\ EffectiveKeyMultibase(m) = Anchor
    BY <2>3, <2>4 DEF EffectiveKeyBytes, EffectiveKeyMultibase
  <2>6. m \in AnyMessage
    BY <2>2 DEF AnyMessage
  <2> HIDE DEF m
  <2> QED
    BY <1>6, <2>1, <2>2, <2>3, <2>5, <2>6 DEF Means, Establishes
<1>7. CASE r.kind = "update"
  <2>1. asked.kind \in EditKind /\ Payload(asked).event # Nil
    BY <1>2, <1>7 DEF EditKind
  <2>2. /\ m \in AnyMessage /\ m.kind \in EditKind /\ m.did = "this"
        /\ m.signer = r.signer
    BY <1>1, <1>2, <2>1, EditWritten
  <2> HIDE DEF m
  <2> QED
    BY <1>7, <2>2 DEF Means
<1>8. CASE r.kind = "deactivate"
  <2>1. aim \in DeleteMessage
    BY <1>2, <1>3, <1>5, <1>8
  <2>2. /\ m \in DeleteMessage
        /\ m = [kind |-> "delete", did |-> asked.did, signer |-> r.signer,
                stamp |-> asked.stamp]
    BY <1>1, <2>1, DeleteWritten
  <2>3. m \in AnyMessage /\ m.kind = "delete" /\ m.did = "this" /\ m.signer = r.signer
    BY <1>2, <2>2 DEF AnyMessage
  <2> HIDE DEF m
  <2> QED
    BY <1>8, <2>3 DEF Means
<1> QED
  BY <1>1, <1>6, <1>7, <1>8 DEF Kind

(* A post that was sent is an item of its call's request.                  *)
LEMMA SentMeans ==
  ASSUME IInv, NEW p \in Sent
  PROVE  /\ p.call \in Call
         /\ call[p.call].phase # "idle"
         /\ Means(call[p.call].request, MessageOf(p))
<1>1. p \in Post
  BY DEF IInv, TypeOK, Sent, AllPosts, Posted, Tx
<1>2. p.call \in Call
  BY <1>1 DEF Post
<1>3. call[p.call].phase # "idle" /\ p.item \in 1..Size(p.call)
  BY <1>2 DEF IInv, Sends
<1>4. call[p.call].request \in Request[p.call]
  BY <1>2, <1>3 DEF IInv, Shape
<1>5. p.item \in 1..Len(call[p.call].request.items)
  BY <1>3 DEF Size
<1> QED
  BY <1>2, <1>3, <1>4, <1>5, Meaning DEF MessageOf

(***************************************************************************)
(* What such a message does to the state of the fold.                      *)
(***************************************************************************)
OwnHands(s) ==
  /\ s \in State
  /\ s.current = Anchor
  /\ s.exists => s.methods[RootKey] = Anchor

(* An edit that counts leaves control and existence alone.                 *)
LEMMA EditsOnly ==
  ASSUME NEW s \in State, NEW m \in AnyMessage, m.kind \in EditKind
  PROVE  EditOnly(s, Effect(s, m))
<1>1. m.stamp \in Stamp
  BY DEF AnyMessage, UndecodableMessage, DeleteMessage, OwnerMessage,
         AddMethodMessage, RemoveMethodMessage, AddServiceMessage,
         RemoveServiceMessage, NoticeMessage
<1>2. /\ m.kind = "addMethod" => m \in AddMethodMessage
      /\ m.kind = "removeMethod" => m \in RemoveMethodMessage
      /\ m.kind = "addService" => m \in AddServiceMessage
      /\ m.kind = "removeService" => m \in RemoveServiceMessage
  BY DEF AnyMessage, UndecodableMessage, DeleteMessage, OwnerMessage,
         AddMethodMessage, RemoveMethodMessage, AddServiceMessage,
         RemoveServiceMessage, NoticeMessage
<1>3. CASE m.kind = "addMethod"
  BY <1>1, <1>2, <1>3, AddMethodEdits DEF Effect
<1>4. CASE m.kind = "removeMethod"
  BY <1>1, <1>2, <1>4, RemoveMethodEdits DEF Effect
<1>5. CASE m.kind = "addService"
  BY <1>1, <1>2, <1>5, AddServiceEdits DEF Effect
<1>6. CASE m.kind = "removeService"
  BY <1>1, <1>2, <1>6, RemoveServiceEdits DEF Effect
<1> QED
  BY <1>3, <1>4, <1>5, <1>6 DEF EditKind

(* One case per kind of call.                                              *)
LEMMA StepKept ==
  ASSUME NEW s, OwnHands(s), NEW r, NEW m, Means(r, m), r.kind \in Kind
  PROVE  /\ OwnHands(Step(s, m))
         /\ s.deactivated => Step(s, m).deactivated
         /\ s.exists => Step(s, m).exists
         /\ r.kind # "deactivate" => Step(s, m).deactivated = s.deactivated
         /\ r.kind = "create" /\ ~s.deactivated => Step(s, m).exists
         /\ r.kind = "deactivate" /\ r.signer = Anchor => Step(s, m).deactivated
<1>1. s \in State /\ m \in AnyMessage /\ m.did = "this" /\ m.signer = r.signer
  BY DEF OwnHands, Means
<1>2. s.deactivated \in BOOLEAN /\ s.exists \in BOOLEAN
  BY <1>1 DEF State
<1>3. CASE r.kind = "create"
  <2>1. /\ m \in OwnerMessage /\ m.id = "this" /\ m.signer = Anchor
        /\ EffectiveKeyBytes(m) = Anchor /\ EffectiveKeyMultibase(m) = Anchor
    BY <1>3 DEF Means, Establishes
  <2>2. m.kind = "owner"
    BY <2>1 DEF OwnerMessage
  <2>3. CASE s.deactivated
    <3>1. Step(s, m) = s
      BY <2>3 DEF Step, Counts
    <3> QED
      BY <1>3, <2>3, <3>1
  <2>4. CASE ~s.deactivated
    <3>1. Counts(s, m)
      BY <1>1, <2>1, <2>2, <2>4 DEF Counts, OwnHands
    <3>2. OwnerAccepted(s, m) /\ EffectiveKeyBytes(m) \in Key
      BY <2>1, KeyAssumption DEF OwnerAccepted
    <3>3. Step(s, m) = OwnerEstablished(s, m)
      BY <2>2, <3>1, <3>2 DEF Step, Effect, ApplyOwner
    <3>4. OwnerEstablished(s, m) \in State
      BY <1>1, <2>1, <3>2, OwnerEstablishedType
    <3>5. /\ OwnerEstablished(s, m).current = Anchor
          /\ OwnerEstablished(s, m).methods[RootKey] = Anchor
          /\ OwnerEstablished(s, m).exists = TRUE
          /\ OwnerEstablished(s, m).deactivated = s.deactivated
      BY <1>1, <2>1 DEF OwnerEstablished, State, FragmentId
    <3> QED
      BY <1>3, <3>3, <3>4, <3>5 DEF OwnHands
  <2> QED
    BY <2>3, <2>4
<1>4. CASE r.kind = "update"
  <2>1. m.kind \in EditKind
    BY <1>4 DEF Means
  <2>2. Step(s, m) = s \/ EditOnly(s, Step(s, m))
    <3>1. CASE ~Counts(s, m)
      BY <3>1 DEF Step
    <3>2. CASE Counts(s, m)
      BY <1>1, <2>1, <3>2, EditsOnly DEF Step
    <3> QED
      BY <3>1, <3>2
  <2>3. Step(s, m) \in State
    BY <1>1, StepType
  <2> QED
    BY <1>4, <2>2, <2>3 DEF OwnHands, EditOnly
<1>5. CASE r.kind = "deactivate"
  <2>1. m.kind = "delete"
    BY <1>5 DEF Means
  <2>2. Step(s, m) = s \/ Step(s, m) = [s EXCEPT !.deactivated = TRUE]
    BY <2>1 DEF Step, Effect, Tombstone
  <2>3. [s EXCEPT !.deactivated = TRUE] \in State
    BY <1>1 DEF State
  <2>4. r.signer = Anchor /\ ~s.deactivated => Counts(s, m)
    BY <1>1, <2>1 DEF Counts, OwnHands
  <2>5. Counts(s, m) => Step(s, m) = [s EXCEPT !.deactivated = TRUE]
    BY <2>1 DEF Step, Effect, Tombstone
  <2>6. LET t == [s EXCEPT !.deactivated = TRUE]
        IN  t.deactivated = TRUE /\ t.current = s.current /\ t.exists = s.exists
            /\ t.methods = s.methods
    BY <1>1 DEF State
  <2> QED
    BY <1>2, <1>5, <2>2, <2>3, <2>4, <2>5, <2>6 DEF OwnHands
<1> QED
  BY <1>3, <1>4, <1>5 DEF Kind

(***************************************************************************)
(* The invariant of the whole.  A call's posts are for its topic and       *)
(* nobody but its creator writes to a topic before the creator is done;    *)
(* so the owner message that create_did waits for finds no tombstone.      *)
(***************************************************************************)
Sited ==
  /\ \A c \in Call : Creates(c) => call[c].topic = c
  /\ \A c \in Call : call[c].phase # "idle" /\ ~Creates(c) => call[c].topic \in Known
  /\ \A t \in Topic : \A p \in Posted(t) : call[p.call].topic = t
  /\ \A tx \in pending : call[tx.post.call].topic = tx.topic

Revokes(c) ==
  call[c].request.kind = "deactivate" /\ call[c].request.signer = Anchor

Faithful ==
  /\ doc \in [Topic -> State]
  /\ \A t \in Topic : OwnHands(doc[t])
  /\ \A t \in Topic : \A p \in Posted(t) : Revokes(p.call) => doc[t].deactivated
  /\ \A c \in Call :
       call[c].phase = "idle" \/ (Creates(c) /\ call[c].verdict = "none")
         => ~doc[c].deactivated
  /\ \A c \in Call :
       /\ Creates(c)
       /\ call[c].verdict \in {"none", "ok"}
       /\ PublishedBy(c) # {}
       => doc[c].exists

SysInv == IInv /\ Sited /\ Faithful

(* Before any call there are no posts and no documents.                    *)
LEMMA SysInitInv == SysInit => SysInv
<1> SUFFICES ASSUME SysInit PROVE SysInv
  OBVIOUS
<1>1. IInv
  BY InitInv DEF SysInit
<1>2. /\ \A c \in Call : call[c].phase = "idle" /\ ~Creates(c)
      /\ \A t \in Topic : Posted(t) = {}
      /\ pending = {}
  BY DEF SysInit, Init, LedgerInit, Idle, Creates, Posted
<1>3. Sited
  BY <1>2 DEF Sited
<1>4. Start \in State /\ OwnHands(Start) /\ Start.deactivated = FALSE
  BY StartType DEF OwnHands, Start
<1>5. doc \in [Topic -> State] /\ \A t \in Topic : doc[t] = Start
  BY <1>4 DEF SysInit
<1>6. Call \subseteq Topic
  BY RegistrarAssumption
<1>7. Faithful
  BY <1>2, <1>4, <1>5, <1>6 DEF Faithful
<1> QED
  BY <1>1, <1>3, <1>7 DEF SysInv

(* As long as nothing is appended, readers see what they saw.              *)
LEMMA Unread ==
  ASSUME doc \in [Topic -> State], log' = log, doc' = [t \in Topic |-> Read(t)]
  PROVE  doc' = doc
BY DEF Read

(* A step of one call that appends nothing.                                *)
Moves(c) ==
  /\ log' = log
  /\ \A d \in Call \ {c} : call'[d] = call[d]
  /\ call'[c].phase # "idle"
  /\ \/ /\ call[c].phase = "idle"
        /\ Creates(c)' => call'[c].topic = c
        /\ ~Creates(c)' => call'[c].topic \in Known
     \/ /\ call[c].phase # "idle" /\ call[c].verdict = "none"
        /\ call'[c].request = call[c].request /\ call'[c].topic = call[c].topic
  /\ \A tx \in pending' :
       \/ tx \in pending
       \/ /\ call[c].phase # "idle"
          /\ tx.post.call = c /\ tx.topic = call[c].topic

(* Entering, with or without an early return.                              *)
LEMMA EnteredMoves ==
  ASSUME IInv, NEW c \in Call, NEW r, NEW k, NEW t, NEW phase, NEW verdict,
         Entered(c, r, k, t, phase, verdict), phase # "idle",
         r.kind = "create" => t = c,
         r.kind # "create" => t \in Known
  PROVE  Moves(c)
<1>1. /\ call[c].phase = "idle"
      /\ call'[c] = [phase |-> phase, verdict |-> verdict, request |-> r,
                     topic |-> t, operator |-> k, next |-> 1, try |-> 1]
      /\ \A d \in Call \ {c} : call'[d] = call[d]
      /\ log' = log /\ pending' = pending
  BY DEF Entered, IInv, TypeOK, ledgerVars
<1>2. call'[c].phase # "idle" /\ call'[c].request = r /\ call'[c].topic = t
  BY <1>1
<1> QED
  BY <1>1, <1>2 DEF Moves, Creates

(* All three calls enter in this way.                                      *)
LEMMA EnterMoves ==
  ASSUME IInv, NEW c \in Call, Enter(c)
  PROVE  Moves(c)
<1>1. CASE CreateDid(c)
  <2>1. PICK r \in Request[c], k \in Operator :
          r.kind = "create" /\ Entered(c, r, k, c, "open", "none")
    BY <1>1 DEF CreateDid
  <2> QED
    BY <2>1, EnteredMoves
<1>2. CASE UpdateDid(c)
  <2>1. PICK r \in Request[c], k \in Operator, t \in Known :
          /\ r.kind = "update"
          /\ \/ Entered(c, r, k, t, "done", "ok")
             \/ Entered(c, r, k, t, "done", "err")
             \/ Entered(c, r, k, t, "sign", "none")
    BY <1>2 DEF UpdateDid
  <2> QED
    BY <2>1, EnteredMoves
<1>3. CASE DeactivateDid(c)
  <2>1. PICK r \in Request[c], k \in Operator, t \in Known :
          /\ r.kind = "deactivate"
          /\ \/ Entered(c, r, k, t, "done", "err")
             \/ Entered(c, r, k, t, "sign", "none")
    BY <1>3 DEF DeactivateDid
  <2> QED
    BY <2>1, EnteredMoves
<1> QED
  BY <1>1, <1>2, <1>3 DEF Enter

(* So do the steps of a call that is under way.                            *)
LEMMA ProceedMoves ==
  ASSUME IInv, NEW c \in Call, Proceed(c)
  PROVE  Moves(c)
<1>1. call[c].phase \notin {"idle", "done"}
  BY DEF Proceed, TopicTaken, TopicFails, TopicConfirmed, TopicUnconfirmed, SignItem,
         SignFails, ExecuteTaken, ExecuteFails, ReceiptSucceeds, ReceiptFails
<1>2. call[c].phase # "idle" /\ call[c].verdict = "none"
  BY <1>1 DEF IInv, Shape
<1>3. /\ log' = log
      /\ \A tx \in pending' : tx \in pending \/ \E heard \in BOOLEAN : tx = TxOf(c, heard)
  BY DEF Proceed, TopicTaken, TopicFails, TopicConfirmed, TopicUnconfirmed, SignItem,
         SignFails, ExecuteTaken, ExecuteFails, ReceiptSucceeds, ReceiptFails, ledgerVars
<1>4. \A heard \in BOOLEAN :
        TxOf(c, heard).post.call = c /\ TxOf(c, heard).topic = call[c].topic
  BY DEF TxOf, PostOf
<1>5. /\ \A d \in Call \ {c} : call'[d] = call[d]
      /\ call'[c].phase # "idle"
      /\ call'[c].request = call[c].request /\ call'[c].topic = call[c].topic
  <2>1. call \in [Call -> CallState] /\ call[c] \in CallState
    BY DEF IInv, TypeOK
  <2>2. CASE TopicTaken(c)
    BY <2>1, <2>2 DEF TopicTaken, CallState
  <2>3. CASE TopicFails(c)
    BY <2>1, <2>3 DEF TopicFails, Return, CallState
  <2>4. CASE TopicConfirmed(c)
    BY <2>1, <2>4 DEF TopicConfirmed, CallState
  <2>5. CASE TopicUnconfirmed(c)
    BY <2>1, <2>5 DEF TopicUnconfirmed, Return, CallState
  <2>6. CASE SignItem(c)
    BY <2>1, <2>6 DEF SignItem, CallState
  <2>7. CASE SignFails(c)
    BY <2>1, <2>7 DEF SignFails, Return, CallState
  <2>8. CASE ExecuteTaken(c)
    BY <2>1, <2>8 DEF ExecuteTaken, CallState
  <2>9. CASE ExecuteFails(c)
    BY <2>1, <2>9 DEF ExecuteFails, RetryOrFail, Return, CallState
  <2>10. CASE ReceiptSucceeds(c)
    BY <2>1, <2>10 DEF ReceiptSucceeds, Return, CallState
  <2>11. CASE ReceiptFails(c)
    BY <2>1, <2>11 DEF ReceiptFails, Return, CallState
  <2> QED
    BY <2>2, <2>3, <2>4, <2>5, <2>6, <2>7, <2>8, <2>9, <2>10, <2>11 DEF Proceed
<1> QED
  BY <1>2, <1>3, <1>4, <1>5 DEF Moves

(* Such steps leave what readers see, and what they owe the calls.         *)
LEMMA MovesInv ==
  ASSUME IInv, Sited, Faithful, NEW c \in Call, Moves(c), doc' = doc
  PROVE  Sited' /\ Faithful'
<1>1. \A d \in Call \ {c} : /\ call'[d] = call[d] /\ (Creates(d)' <=> Creates(d))
  BY DEF Moves, Creates
<1>2. call[c].phase # "idle" => (Creates(c)' <=> Creates(c))
  BY DEF Moves, Creates
<1>3. /\ \A t : Posted(t)' = Posted(t)
      /\ \A d \in Call : PublishedBy(d)' = PublishedBy(d)
      /\ AllPosts' = AllPosts
  BY DEF Moves, Posted, PublishedBy, AllPosts
<1>4. call[c].phase # "idle" => call[c].verdict = "none"
  BY DEF Moves
<1>5. Known \subseteq Known'
  <2>1. \A d \in Call : Creates(d) /\ call[d].verdict \in {"ok", "orphan"} => d # c
    BY <1>4 DEF Creates
  <2> QED
    BY <1>1, <2>1 DEF Known
<1>6. \A p \in Sent : p.call \in Call /\ call[p.call].phase # "idle"
  BY SentMeans
<1>7. \A t \in Topic : \A p \in Posted(t) : p \in Sent
  BY DEF Sent, AllPosts
<1>8. \A tx \in pending : tx.post \in Sent
  BY DEF Sent
<1>9. \A d \in Call : call[d].phase # "idle" =>
        call'[d].topic = call[d].topic /\ call'[d].request = call[d].request
  BY DEF Moves
<1>10. Sited'
  <2>1. \A d \in Call : Creates(d)' => call'[d].topic = d
    BY <1>1, <1>2 DEF Sited, Moves
  <2>2. \A d \in Call : call'[d].phase # "idle" /\ ~Creates(d)' => call'[d].topic \in Known'
    BY <1>1, <1>2, <1>5 DEF Sited, Moves
  <2>3. \A t \in Topic : \A p \in Posted(t)' : call'[p.call].topic = t
    BY <1>3, <1>6, <1>7, <1>9 DEF Sited
  <2>4. \A tx \in pending' : call'[tx.post.call].topic = tx.topic
    <3>1. SUFFICES ASSUME NEW tx \in pending' PROVE call'[tx.post.call].topic = tx.topic
      OBVIOUS
    <3>2. CASE tx \in pending
      BY <1>6, <1>8, <1>9, <3>2 DEF Sited
    <3>3. CASE call[c].phase # "idle" /\ tx.post.call = c /\ tx.topic = call[c].topic
      BY <1>9, <3>3
    <3> QED
      BY <3>1, <3>2, <3>3 DEF Moves
  <2> QED
    BY <2>1, <2>2, <2>3, <2>4 DEF Sited
<1>11. Faithful'
  <2>1. \A t \in Topic : \A p \in Posted(t)' : Revokes(p.call)' => doc[t].deactivated
    BY <1>3, <1>6, <1>7, <1>9 DEF Faithful, Revokes
  <2>2. \A d \in Call :
          call'[d].phase = "idle" \/ (Creates(d)' /\ call'[d].verdict = "none")
            => ~doc[d].deactivated
    BY <1>1, <1>2 DEF Faithful, Moves
  <2>3. call[c].phase = "idle" => PublishedBy(c) = {}
    BY <1>6 DEF PublishedBy, Sent
  <2>4. \A d \in Call :
          /\ Creates(d)'
          /\ call'[d].verdict \in {"none", "ok"}
          /\ PublishedBy(d)' # {}
          => doc[d].exists
    BY <1>1, <1>2, <1>3, <1>4, <2>3 DEF Faithful
  <2> QED
    BY <2>1, <2>2, <2>4 DEF Faithful
<1> QED
  BY <1>10, <1>11

(* A decision that appends nothing, and the opening of a topic.            *)
LEMMA SettledInv ==
  ASSUME Sited, Faithful, call' = call, log' = log, pending' \subseteq pending,
         doc' = doc
  PROVE  Sited' /\ Faithful'
<1>1. /\ \A t : Posted(t)' = Posted(t)
      /\ AllPosts' = AllPosts
      /\ \A c : (Creates(c)' <=> Creates(c)) /\ (Revokes(c)' <=> Revokes(c))
  BY DEF Posted, AllPosts, Creates, Revokes
<1>2. /\ \A c : PublishedBy(c)' = PublishedBy(c)
      /\ Known' = Known
  BY <1>1 DEF PublishedBy, Known
<1> QED
  BY <1>1, <1>2 DEF Sited, Faithful

(* What is appended to a topic is the last post on it.                     *)
LEMMA Appending ==
  ASSUME log \in [Topic -> Seq(Post)], NEW t \in Topic, NEW p \in Post,
         log' = [log EXCEPT ![t] = Append(@, p)]
  PROVE  /\ \A u \in Topic \ {t} : log'[u] = log[u] /\ Posted(u)' = Posted(u)
         /\ log'[t] # log[t]
         /\ Last(log'[t]) = p
         /\ Posted(t)' = Posted(t) \cup {p}
<1>1. log'[t] = Append(log[t], p) /\ log[t] \in Seq(Post)
  OBVIOUS
<1>2. \A u \in Topic \ {t} : log'[u] = log[u]
  OBVIOUS
<1>3. /\ Len(log'[t]) = Len(log[t]) + 1 /\ Len(log[t]) \in Nat
      /\ \A i \in 1..Len(log[t]) : log'[t][i] = log[t][i]
      /\ log'[t][Len(log[t]) + 1] = p
  BY <1>1
<1>4. log'[t] # log[t] /\ Last(log'[t]) = p
  BY <1>3 DEF Last
<1>5. \A x : x \in Posted(t)' <=> x \in Posted(t) \/ x = p
  BY <1>3 DEF Posted
<1> QED
  BY <1>2, <1>4, <1>5 DEF Posted

(* A post that reaches its topic: nobody but the creator's own owner       *)
(* message meets a DID whose creator is still at work.                     *)
LEMMA LandedInv ==
  ASSUME IInv, IInv', Sited, Faithful, NEW tx \in pending, Decide(tx), Admitted(tx),
         call' = call, doc' = [t \in Topic |-> Read(t)]
  PROVE  Sited' /\ Faithful'
<1> DEFINE t == tx.topic
           p == tx.post
           c == p.call
           m == MessageOf(p)
<1>1. /\ log \in [Topic -> Seq(Post)] /\ t \in Topic /\ p \in Post
      /\ doc \in [Topic -> State]
  BY DEF IInv, TypeOK, Tx, Faithful
<1>2. log' = [log EXCEPT ![t] = Append(@, p)] /\ pending' \subseteq pending
  BY DEF Decide, Appended
<1>3. p \in Sent
  BY DEF Sent
<1>4. c \in Call /\ call[c].phase # "idle" /\ Means(call[c].request, m)
  BY <1>3, SentMeans
<1>5. call[c].topic = t
  BY DEF Sited
<1>6. call[c].request.kind \in Kind
  BY <1>4, RegistrarAssumption DEF IInv, Shape
<1>7. /\ \A u \in Topic \ {t} : log'[u] = log[u]
      /\ log'[t] # log[t] /\ Last(log'[t]) = p
  BY <1>1, <1>2, Appending
<1>8. doc'[t] = Step(doc[t], m) /\ \A u \in Topic \ {t} : doc'[u] = doc[u]
  BY <1>1, <1>7 DEF Read
<1>9. OwnHands(doc[t])
  BY <1>1 DEF Faithful
<1>10. /\ OwnHands(doc'[t])
       /\ doc[t].deactivated => doc'[t].deactivated
       /\ doc[t].exists => doc'[t].exists
       /\ call[c].request.kind # "deactivate" => doc'[t].deactivated = doc[t].deactivated
       /\ call[c].request.kind = "create" /\ ~doc[t].deactivated => doc'[t].exists
       /\ Revokes(c) => doc'[t].deactivated
  <2> HIDE DEF m, p, c, t
  <2> QED
    BY <1>4, <1>6, <1>8, <1>9, StepKept DEF Revokes
<1>11. /\ \A u \in Topic : \A q \in Posted(u)' : q \in Posted(u) \/ (u = t /\ q = p)
       /\ AllPosts' = AllPosts \cup {p}
  <2>1. /\ Posted(t)' = Posted(t) \cup {p}
        /\ \A u \in Topic \ {t} : Posted(u)' = Posted(u)
    BY <1>1, <1>2, Appending
  <2>2. AllPosts' = AllPosts \cup {p}
    BY <1>1, <1>2, PostedOne
  <2> QED
    BY <2>1, <2>2
<1>12. \A d \in Call : (Creates(d)' <=> Creates(d)) /\ (Revokes(d)' <=> Revokes(d))
  BY DEF Creates, Revokes
<1>13. Known' = Known
  BY <1>12 DEF Known
<1>14. Call \subseteq Topic
  BY RegistrarAssumption
<1> HIDE DEF m, p, c, t
<1>15. Sited'
  <2>1. \A u \in Topic : \A q \in Posted(u)' : call'[q.call].topic = u
    BY <1>5, <1>11 DEF Sited, c
  <2> QED
    BY <1>2, <1>12, <1>13, <2>1 DEF Sited
<1>16. doc' \in [Topic -> State] /\ \A u \in Topic : OwnHands(doc'[u])
  <2>1. \A u \in Topic : OwnHands(doc'[u])
    BY <1>8, <1>10 DEF Faithful
  <2>2. \A u \in Topic : doc'[u] \in State
    BY <2>1 DEF OwnHands
  <2> QED
    BY <2>1, <2>2
<1>17. \A u \in Topic : \A q \in Posted(u)' : Revokes(q.call)' => doc'[u].deactivated
  <2>1. SUFFICES ASSUME NEW u \in Topic, NEW q \in Posted(u)', Revokes(q.call)'
                 PROVE  doc'[u].deactivated
    OBVIOUS
  <2>2. Revokes(q.call)
    BY <2>1 DEF Revokes
  <2>3. CASE u = t /\ q = p
    BY <1>10, <2>2, <2>3 DEF c
  <2>4. CASE q \in Posted(u)
    BY <1>8, <1>10, <2>2, <2>4 DEF Faithful
  <2> QED
    BY <1>11, <2>3, <2>4
<1>18. ASSUME NEW d \in Call,
              call[d].phase = "idle" \/ (Creates(d) /\ call[d].verdict = "none")
       PROVE  ~doc'[d].deactivated
  <2>1. ~doc[d].deactivated
    BY <1>18 DEF Faithful
  <2>2. CASE d = t
    <3>1. call[c].request.kind # "deactivate"
      <4>1. SUFFICES ASSUME call[c].request.kind = "deactivate" PROVE FALSE
        OBVIOUS
      <4>2. t \in Known
        BY <1>4, <1>5, <4>1 DEF Sited, Creates
      <4>3. PICK e \in Call : /\ Creates(e) /\ call[e].verdict \in {"ok", "orphan"}
                              /\ call[e].topic = t
        BY <4>2 DEF Known
      <4>4. e = d
        BY <2>2, <4>3 DEF Sited
      <4> QED
        BY <1>18, <4>3, <4>4 DEF Creates
    <3> QED
      BY <1>10, <2>1, <2>2, <3>1
  <2>3. CASE d # t
    BY <1>8, <1>14, <2>1, <2>3
  <2> QED
    BY <2>2, <2>3
<1>19. ASSUME NEW d \in Call, Creates(d), call[d].verdict \in {"none", "ok"},
              PublishedBy(d)' # {}
       PROVE  doc'[d].exists
  <2>1. CASE PublishedBy(d) # {}
    <3>1. doc[d].exists
      BY <1>19, <2>1 DEF Faithful
    <3> QED
      BY <1>8, <1>10, <1>14, <3>1
  <2>2. CASE PublishedBy(d) = {}
    <3>1. c = d
      BY <1>11, <1>19, <2>2 DEF PublishedBy, c
    <3>2. t = d
      BY <1>5, <1>19, <3>1 DEF Sited
    <3>3. call[d].verdict = "none"
      <4>1. Size(d) = 1
        BY <1>19, RegistrarAssumption DEF Size, Creates, IInv, Shape
      <4>2. call[d].verdict = "ok" => 1 \in PublishedBy(d)
        BY <4>1 DEF IInv, Kept
      <4> QED
        BY <1>19, <2>2, <4>2
    <3>4. ~doc[d].deactivated
      BY <1>19, <3>3 DEF Faithful
    <3> QED
      BY <1>10, <1>19, <3>1, <3>2, <3>4 DEF Creates
  <2> QED
    BY <2>1, <2>2
<1>20. Faithful'
  BY <1>12, <1>16, <1>17, <1>18, <1>19 DEF Faithful
<1> QED
  BY <1>15, <1>20

(* One case per kind of step.                                              *)
LEMMA SysStepInv ==
  ASSUME SysInv, [SysNext]_sysVars
  PROVE  SysInv'
<1>1. [Next]_vars
  BY DEF SysNext, sysVars
<1>2. IInv /\ Sited /\ Faithful /\ IInv'
  BY <1>1, StepInv DEF SysInv
<1>3. doc \in [Topic -> State]
  BY <1>2 DEF Faithful
<1>4. CASE SysNext
  <2>1. doc' = [t \in Topic |-> Read(t)]
    BY <1>4 DEF SysNext
  <2>2. log' = log => doc' = doc
    BY <1>3, <2>1, Unread
  <2>3. CASE \E c \in Call : Enter(c) \/ Proceed(c)
    <3>1. PICK c \in Call : Enter(c) \/ Proceed(c)
      BY <2>3
    <3>2. Moves(c) /\ log' = log
      BY <1>2, <3>1, EnterMoves, ProceedMoves DEF Moves
    <3> QED
      BY <1>2, <2>2, <3>2, MovesInv DEF SysInv
  <2>4. CASE Network
    <3>1. call' = call
      BY <2>4 DEF Network
    <3>2. CASE \E d \in opening : OpenTopic(d)
      BY <1>2, <2>2, <3>1, <3>2, SettledInv DEF OpenTopic, SysInv
    <3>3. CASE \E tx \in pending : Decide(tx)
      <4>1. PICK tx \in pending : Decide(tx)
        BY <3>3
      <4>2. CASE Admitted(tx)
        BY <1>2, <2>1, <3>1, <4>1, <4>2, LandedInv DEF SysInv
      <4>3. CASE ~Admitted(tx)
        BY <1>2, <2>2, <3>1, <4>1, <4>3, SettledInv DEF Decide, SysInv
      <4> QED
        BY <4>2, <4>3
    <3> QED
      BY <2>4, <3>2, <3>3 DEF Network, Consensus
  <2> QED
    BY <1>4, <2>3, <2>4 DEF SysNext, Next
<1>5. CASE UNCHANGED sysVars
  BY <1>2, <1>5, SettledInv DEF sysVars, vars, ledgerVars, SysInv
<1> QED
  BY <1>4, <1>5

(* What is proved about the calls alone holds of them beside their readers.*)
THEOREM CallsUnread == SysSpec => Spec
<1>1. SysInit => Init
  BY DEF SysInit
<1>2. [SysNext]_sysVars => [Next]_vars
  BY DEF SysNext, sysVars
<1> QED
  BY <1>1, <1>2, PTL DEF SysSpec, Spec

(* It holds in every state of the calls and their readers together.        *)
LEMMA SysInvariance == SysSpec => []SysInv
BY SysInitInv, SysStepInv, PTL DEF SysSpec

(* Every DID whose create_did reported success resolves under its own key, *)
(* whatever other calls do on it or elsewhere: its owner message was on    *)
(* the topic before anybody else could know of the topic, and only the     *)
(* tombstone ends it (create.rs 56-63, builder.rs 97-104, 141-182).        *)
THEOREM AckedDidsResolve == SysSpec => []AckedDidResolves
<1>1. SysInv => AckedDidResolves
  <2>1. SUFFICES ASSUME SysInv, NEW c \in Call, Creates(c), call[c].verdict = "ok"
                 PROVE  /\ doc[c].exists /\ doc[c].current = Anchor
                        /\ doc[c].methods[RootKey] = Anchor
    BY DEF AckedDidResolves
  <2>2. c \in Topic
    BY RegistrarAssumption
  <2>3. Size(c) = 1
    BY <2>1, RegistrarAssumption DEF Size, Creates, SysInv, IInv, Shape
  <2>4. 1 \in PublishedBy(c)
    BY <2>1, <2>3 DEF SysInv, IInv, Kept
  <2>5. doc[c].exists
    BY <2>1, <2>4 DEF SysInv, Faithful
  <2> QED
    BY <2>1, <2>2, <2>5 DEF SysInv, Faithful, OwnHands
<1> QED
  BY SysInvariance, <1>1, PTL

(* A deactivation that its owner was told of cannot be undone, not even by *)
(* copies of earlier messages that arrive after it.                        *)
THEOREM TombstonesAreFinal == SysSpec => []TombstoneFinal
<1>1. SysInv => TombstoneFinal
  <2>1. SUFFICES ASSUME SysInv, NEW c \in Call, call[c].verdict = "ok", Revokes(c)
                 PROVE  LET t == call[c].topic
                        IN  Outcome(doc[t]) = NotFound \/ Outcome(doc[t]).deactivated
    BY DEF TombstoneFinal, Revokes
  <2> DEFINE t == call[c].topic
  <2>2. /\ call[c].phase # "idle" /\ call[c].request \in Request[c]
    BY <2>1 DEF SysInv, IInv, Shape, Idle
  <2>3. Size(c) = 1
    BY <2>1, <2>2, RegistrarAssumption DEF Size, Revokes
  <2>4. 1 \in PublishedBy(c)
    BY <2>1, <2>3 DEF SysInv, IInv, Kept
  <2>5. PICK u \in Topic : \E p \in Posted(u) : p.call = c
    BY <2>4 DEF PublishedBy, AllPosts
  <2>6. u = t /\ doc[u].deactivated
    BY <2>1, <2>5 DEF SysInv, Sited, Faithful
  <2> QED
    BY <2>6 DEF Outcome
<1> QED
  BY SysInvariance, <1>1, PTL

(***************************************************************************)
(* Repeats.                                                                *)
(***************************************************************************)
Blind(s) == [s EXCEPT !.updated = Nil]

LEMMA BlindType ==
  ASSUME NEW s \in State
  PROVE  /\ Blind(s) \in State
         /\ Blind(Blind(s)) = Blind(s)
         /\ \A x \in Stamp : Blind(Touched(s, [stamp |-> x])) = Blind(s)
BY DEF Blind, State, Touched

(* The time of the last change is not looked at by the fold.               *)
LEMMA StepBlind ==
  ASSUME NEW s \in State, NEW m \in AnyMessage
  PROVE  Blind(Step(Blind(s), m)) = Blind(Step(s, m))
<1> DEFINE b == Blind(s)
<1>1. /\ b \in State
      /\ b.current = s.current /\ b.methods = s.methods /\ b.bucket = s.bucket
      /\ b.services = s.services /\ b.controller = s.controller
      /\ b.created = s.created /\ b.deactivated = s.deactivated /\ b.exists = s.exists
      /\ Blind(b) = b
  BY DEF Blind, State
<1>2. Counts(b, m) <=> Counts(s, m)
  BY <1>1 DEF Counts
<1>3. Blind(Effect(b, m)) = Blind(Effect(s, m))
  <2>1. CASE m.kind = "delete"
    <3>1. Effect(b, m) = [b EXCEPT !.deactivated = TRUE]
          /\ Effect(s, m) = [s EXCEPT !.deactivated = TRUE]
      BY <2>1 DEF Effect, Tombstone
    <3>2. Blind([b EXCEPT !.deactivated = TRUE]) = Blind([s EXCEPT !.deactivated = TRUE])
      BY <1>1 DEF Blind, State
    <3> HIDE DEF b
    <3> QED
      BY <3>1, <3>2
  <2>2. CASE m.kind = "owner"
    <3>1. OwnerAccepted(b, m) <=> OwnerAccepted(s, m)
      BY <1>1 DEF OwnerAccepted
    <3>2. Blind([b EXCEPT !.exists = TRUE]) = Blind([s EXCEPT !.exists = TRUE])
      BY <1>1 DEF Blind, State
    <3>3. Blind(OwnerEstablished(b, m)) = Blind(OwnerEstablished(s, m))
      BY <1>1 DEF Blind, State, OwnerEstablished
    <3>4. Effect(b, m) = ApplyOwner(b, m) /\ Effect(s, m) = ApplyOwner(s, m)
      BY <2>2 DEF Effect
    <3> HIDE DEF b
    <3>5. CASE ~OwnerAccepted(s, m)
      BY <1>1, <3>1, <3>4, <3>5 DEF ApplyOwner, b
    <3>6. CASE OwnerAccepted(s, m) /\ EffectiveKeyBytes(m) \notin Key
      BY <3>1, <3>2, <3>4, <3>6 DEF ApplyOwner
    <3>7. CASE OwnerAccepted(s, m) /\ EffectiveKeyBytes(m) \in Key
      BY <3>1, <3>3, <3>4, <3>7 DEF ApplyOwner
    <3> QED
      BY <3>5, <3>6, <3>7
  <2>3. CASE m.kind = "addMethod"
    <3>1. Effect(b, m) = Touched(ApplyAddMethod(b, m), m)
          /\ Effect(s, m) = Touched(ApplyAddMethod(s, m), m)
      BY <2>3 DEF Effect
    <3>2. Blind(Touched(ApplyAddMethod(b, m), m)) = Blind(Touched(ApplyAddMethod(s, m), m))
      BY <1>1 DEF Blind, State, Touched, ApplyAddMethod
    <3> HIDE DEF b
    <3> QED
      BY <3>1, <3>2
  <2>4. CASE m.kind = "removeMethod"
    <3>1. Effect(b, m) = Touched(ApplyRemoveMethod(b, m), m)
          /\ Effect(s, m) = Touched(ApplyRemoveMethod(s, m), m)
      BY <2>4 DEF Effect
    <3>2. Blind(Touched(ApplyRemoveMethod(b, m), m)) = Blind(Touched(ApplyRemoveMethod(s, m), m))
      BY <1>1 DEF Blind, State, Touched, ApplyRemoveMethod
    <3> HIDE DEF b
    <3> QED
      BY <3>1, <3>2
  <2>5. CASE m.kind = "addService"
    <3>1. Effect(b, m) = Touched(ApplyAddService(b, m), m)
          /\ Effect(s, m) = Touched(ApplyAddService(s, m), m)
      BY <2>5 DEF Effect
    <3>2. Blind(Touched(ApplyAddService(b, m), m)) = Blind(Touched(ApplyAddService(s, m), m))
      BY <1>1 DEF Blind, State, Touched, ApplyAddService
    <3> HIDE DEF b
    <3> QED
      BY <3>1, <3>2
  <2>6. CASE m.kind = "removeService"
    <3>1. Effect(b, m) = Touched(ApplyRemoveService(b, m), m)
          /\ Effect(s, m) = Touched(ApplyRemoveService(s, m), m)
      BY <2>6 DEF Effect
    <3>2. Blind(Touched(ApplyRemoveService(b, m), m)) = Blind(Touched(ApplyRemoveService(s, m), m))
      BY <1>1 DEF Blind, State, Touched, ApplyRemoveService
    <3> HIDE DEF b
    <3> QED
      BY <3>1, <3>2
  <2>7. CASE m.kind \notin {"delete", "owner", "addMethod", "removeMethod", "addService",
                            "removeService"}
    <3>1. Effect(b, m) = Touched(b, m) /\ Effect(s, m) = Touched(s, m)
      BY <2>7 DEF Effect
    <3>2. Blind(Touched(b, m)) = Blind(Touched(s, m))
      BY <1>1 DEF Blind, State, Touched
    <3> HIDE DEF b
    <3> QED
      BY <3>1, <3>2
  <2> QED
    BY <2>1, <2>2, <2>3, <2>4, <2>5, <2>6, <2>7
<1> HIDE DEF b
<1> QED
  <2>1. CASE Counts(s, m)
    BY <1>2, <1>3, <2>1 DEF Step, b
  <2>2. CASE ~Counts(s, m)
    BY <1>1, <1>2, <2>2 DEF Step, b
  <2> QED
    BY <2>1, <2>2

(* The DID's own owner message has done all it can do.                     *)
Established(s, m) ==
  s.deactivated \/ (s.exists /\ s.controller = m.controller /\ s.created # Nil)

LEMMA Settles ==
  ASSUME NEW s, OwnHands(s), NEW m, Establishes(m), m \in AnyMessage, m.did = "this"
  PROVE  /\ Established(Step(s, m), m)
         /\ Established(s, m) => Blind(Step(s, m)) = Blind(s)
<1>1. /\ s \in State /\ m \in OwnerMessage /\ m.kind = "owner" /\ m.stamp \in Stamp
      /\ m.controller \in Controller
  BY DEF OwnHands, Establishes, OwnerMessage
<1>2. s.deactivated \in BOOLEAN
  BY <1>1 DEF State
<1>3. CASE s.deactivated
  <2>1. Step(s, m) = s
    BY <1>3 DEF Step, Counts
  <2> QED
    BY <1>3, <2>1 DEF Established
<1>4. CASE ~s.deactivated
  <2>1. Counts(s, m)
    BY <1>1, <1>4 DEF Counts, OwnHands, Establishes
  <2>2. OwnerAccepted(s, m) /\ EffectiveKeyBytes(m) \in Key
    BY KeyAssumption DEF OwnerAccepted, Establishes
  <2>3. Step(s, m) = OwnerEstablished(s, m)
    BY <1>1, <2>1, <2>2 DEF Step, Effect, ApplyOwner
  <2>4. m.stamp # Nil
    BY <1>1, NilAssumption
  <2>5. Established(OwnerEstablished(s, m), m)
    BY <1>1, <2>4 DEF Established, OwnerEstablished, State
  <2>6. ASSUME s.exists, s.controller = m.controller, s.created # Nil
        PROVE  Blind(OwnerEstablished(s, m)) = Blind(s)
    <3>1. s.current = Anchor /\ s.methods[RootKey] = Anchor /\ s.exists = TRUE
      BY <1>1, <2>6 DEF OwnHands, State
    <3>2. EffectiveKeyBytes(m) = Anchor /\ EffectiveKeyMultibase(m) = Anchor
      BY DEF Establishes
    <3>3. [s.methods EXCEPT ![RootKey] = Anchor] = s.methods
      BY <1>1, <3>1 DEF State
    <3>4. OwnerEstablished(s, m) =
            [s EXCEPT !.exists = TRUE, !.current = Anchor, !.methods = s.methods,
                      !.controller = s.controller, !.created = s.created, !.updated = m.stamp]
      BY <1>1, <2>6, <3>2, <3>3 DEF OwnerEstablished, State
    <3> QED
      BY <1>1, <3>1, <3>4 DEF Blind, State
  <2> QED
    BY <1>4, <2>3, <2>5, <2>6 DEF Established
<1> QED
  BY <1>2, <1>3, <1>4

(* Nothing but another owner message undoes this.                          *)
LEMMA SettledStays ==
  ASSUME NEW s, OwnHands(s), NEW r, NEW m, Means(r, m), r.kind \in {"update", "deactivate"},
         NEW n, Established(s, n)
  PROVE  Established(Step(s, m), n)
<1>1. s \in State /\ m \in AnyMessage
  BY DEF OwnHands, Means
<1>2. CASE r.kind = "update"
  <2>1. m.kind \in EditKind
    BY <1>2 DEF Means
  <2>2. Step(s, m) = s \/ EditOnly(s, Step(s, m))
    BY <1>1, <2>1, EditsOnly DEF Step
  <2> QED
    BY <2>2 DEF EditOnly, Established
<1>3. CASE r.kind = "deactivate"
  <2>1. m.kind = "delete"
    BY <1>3 DEF Means
  <2>2. Step(s, m) = s \/ Step(s, m) = [s EXCEPT !.deactivated = TRUE]
    BY <2>1 DEF Step, Effect, Tombstone
  <2>3. [s EXCEPT !.deactivated = TRUE].deactivated
    BY <1>1 DEF State
  <2> QED
    BY <2>2, <2>3 DEF Established
<1> QED
  BY <1>2, <1>3
(***************************************************************************)
(* Only create_did repeats itself, and only its own owner message.         *)
(***************************************************************************)
Same(p, q) == p.call = q.call /\ p.item = q.item

(* What another call sends, it sends once.                                 *)
Once ==
  \A c \in Call :
    ~Creates(c) =>
      /\ \A tx, ux \in pending : tx.post.call = c /\ Same(tx.post, ux.post) => tx = ux
      /\ \A tx \in pending : tx.post.call = c => \A p \in AllPosts : ~Same(p, tx.post)
      /\ call[c].phase = "execute" => \A p \in Sent : p.call = c => p.item # call[c].next

(* An owner message that is on a topic has done all it can do there.       *)
Settled ==
  \A t \in Topic : \A p \in Posted(t) :
    Creates(p.call) => Established(doc[t], MessageOf(p))

OnceInv == SysInv /\ Once /\ Settled /\ DuplicatesHarmless

SendsOnce(c) ==
  /\ log' = log
  /\ \A d \in Call \ {c} : call'[d] = call[d]
  /\ call[c].phase # "idle" => call'[c].request = call[c].request /\ call'[c].phase # "idle"
  /\ \/ pending' = pending
     \/ /\ call[c].phase = "execute"
        /\ \E heard \in BOOLEAN : pending' = pending \cup {TxOf(c, heard)}
        /\ Creates(c) \/ call'[c].phase # "execute"
  /\ call'[c].phase = "execute" /\ ~Creates(c)
       => \A p \in Sent : p.call = c => p.item # call'[c].next

LEMMA EnterOnce ==
  ASSUME IInv, NEW c \in Call, Enter(c)
  PROVE  SendsOnce(c)
<1>1. call \in [Call -> CallState]
  BY DEF IInv, TypeOK
<1>2. \A r, k, t, phase, verdict :
        Entered(c, r, k, t, phase, verdict) =>
          /\ log' = log /\ pending' = pending
          /\ \A d \in Call \ {c} : call'[d] = call[d]
          /\ call[c].phase = "idle" /\ call'[c].phase = phase
  BY <1>1 DEF Entered, ledgerVars
<1>3. /\ log' = log /\ pending' = pending
      /\ \A d \in Call \ {c} : call'[d] = call[d]
      /\ call[c].phase = "idle" /\ call'[c].phase \in {"open", "sign", "done"}
  BY <1>2 DEF Enter, CreateDid, UpdateDid, DeactivateDid
<1> QED
  BY <1>3 DEF SendsOnce

LEMMA ProceedOnce ==
  ASSUME IInv, Once, NEW c \in Call, Proceed(c)
  PROVE  SendsOnce(c)
<1>1. Moves(c)
  BY ProceedMoves
<1>2. call[c] \in CallState /\ call \in [Call -> CallState] /\ call[c].phase # "idle"
  BY DEF IInv, TypeOK, Proceed, TopicTaken, TopicFails, TopicConfirmed, TopicUnconfirmed,
         SignItem, SignFails, ExecuteTaken, ExecuteFails, ReceiptSucceeds, ReceiptFails
<1>3. /\ log' = log
      /\ \A d \in Call \ {c} : call'[d] = call[d]
      /\ call'[c].request = call[c].request /\ call'[c].phase # "idle"
  BY <1>1, <1>2 DEF Moves
<1> SUFFICES
      /\ \/ pending' = pending
         \/ /\ call[c].phase = "execute"
            /\ \E heard \in BOOLEAN : pending' = pending \cup {TxOf(c, heard)}
            /\ Creates(c) \/ call'[c].phase # "execute"
      /\ call'[c].phase = "execute" /\ ~Creates(c)
           => \A p \in Sent : p.call = c => p.item # call'[c].next
  BY <1>3 DEF SendsOnce
<1>4. CASE TopicTaken(c)
  BY <1>2, <1>4 DEF TopicTaken
<1>5. CASE TopicFails(c)
  BY <1>2, <1>5 DEF TopicFails, Return
<1>6. CASE TopicConfirmed(c)
  BY <1>2, <1>6 DEF TopicConfirmed, ledgerVars
<1>7. CASE TopicUnconfirmed(c)
  BY <1>2, <1>7 DEF TopicUnconfirmed, Return, ledgerVars
<1>8. CASE SignItem(c)
  <2>1. pending' = pending /\ call'[c].next = call[c].next /\ call[c].phase = "sign"
    BY <1>2, <1>8 DEF SignItem, ledgerVars, CallState
  <2> QED
    BY <2>1 DEF IInv, Sends
<1>9. CASE SignFails(c)
  BY <1>2, <1>9 DEF SignFails, Return, ledgerVars
<1>10. CASE ExecuteTaken(c)
  <2>1. /\ call[c].phase = "execute" /\ pending' = pending \cup {TxOf(c, TRUE)}
        /\ call' = [call EXCEPT ![c].phase = "receipt"]
    BY <1>10 DEF ExecuteTaken
  <2>2. call'[c].phase = "receipt"
    BY <1>2, <2>1 DEF CallState
  <2> QED
    BY <2>1, <2>2
<1>11. CASE ExecuteFails(c)
  <2>1. /\ call[c].phase = "execute"
        /\ pending' = pending \/ pending' = pending \cup {TxOf(c, FALSE)}
    BY <1>11 DEF ExecuteFails
  <2>2. ~Creates(c) => call'[c].phase = "done"
    <3>1. ~Creates(c) => call' = [call EXCEPT ![c].phase = "done", ![c].verdict = Failure(c)]
      BY <1>11 DEF ExecuteFails, RetryOrFail, Return
    <3> QED
      BY <1>2, <3>1 DEF CallState
  <2> QED
    BY <2>1, <2>2
<1>12. CASE ReceiptSucceeds(c)
  <2>1. /\ pending' = pending
        /\ \/ call' = [call EXCEPT ![c].phase = "done", ![c].verdict = "ok"]
           \/ call' = [call EXCEPT ![c].phase = "sign", ![c].next = @ + 1]
    BY <1>12 DEF ReceiptSucceeds, Return, ledgerVars
  <2>2. call'[c].phase \in {"done", "sign"}
    BY <1>2, <2>1 DEF CallState
  <2> QED
    BY <2>1, <2>2
<1>13. CASE ReceiptFails(c)
  BY <1>2, <1>13 DEF ReceiptFails, Return, ledgerVars
<1> QED
  BY <1>4, <1>5, <1>6, <1>7, <1>8, <1>9, <1>10, <1>11, <1>12, <1>13 DEF Proceed

LEMMA SendOnceInv ==
  ASSUME IInv, Once, NEW c \in Call, SendsOnce(c)
  PROVE  Once'
<1>1. AllPosts' = AllPosts /\ \A d \in Call \ {c} : Creates(d)' <=> Creates(d)
  BY DEF SendsOnce, AllPosts, Posted, Creates
<1>2. \A heard \in BOOLEAN :
        TxOf(c, heard).post.call = c /\ TxOf(c, heard).post.item = call[c].next
  BY DEF TxOf, PostOf
<1>3. \A p \in Sent : p.call = c => call[c].phase # "idle"
  BY DEF IInv, Sends
<1>4. call[c].phase # "idle" => (Creates(c)' <=> Creates(c))
  BY DEF SendsOnce, Creates
<1>5. SUFFICES ASSUME NEW d \in Call, ~Creates(d)'
               PROVE  /\ \A tx, ux \in pending' :
                            tx.post.call = d /\ Same(tx.post, ux.post) => tx = ux
                      /\ \A tx \in pending' : tx.post.call = d =>
                            \A p \in AllPosts : ~Same(p, tx.post)
                      /\ call'[d].phase = "execute" =>
                            \A p \in Sent' : p.call = d => p.item # call'[d].next
  BY <1>1 DEF Once
<1>6. CASE pending' = pending
  <2>1. Sent' = Sent
    BY <1>1, <1>6 DEF Sent
  <2>2. CASE d # c
    BY <1>1, <1>5, <1>6, <2>1, <2>2 DEF Once, SendsOnce
  <2>3. CASE d = c /\ call[c].phase = "idle"
    <3>1. \A p \in Sent : p.call # c
      BY <1>3, <2>3
    <3>2. \A tx \in pending : tx.post.call # c
      BY <3>1 DEF Sent
    <3> QED
      BY <1>6, <2>1, <2>3, <3>1, <3>2
  <2>4. CASE d = c /\ call[c].phase # "idle"
    <3>1. ~Creates(c)
      BY <1>4, <1>5, <2>4
    <3> QED
      BY <1>6, <2>1, <2>4, <3>1 DEF Once, SendsOnce
  <2> QED
    BY <2>2, <2>3, <2>4
<1>7. CASE pending' # pending
  <2>1. PICK heard \in BOOLEAN : pending' = pending \cup {TxOf(c, heard)}
    BY <1>7 DEF SendsOnce
  <2>2. call[c].phase = "execute" /\ (Creates(c) \/ call'[c].phase # "execute")
    BY <1>7 DEF SendsOnce
  <2> DEFINE new == TxOf(c, heard)
  <2>3. new.post.call = c /\ new.post.item = call[c].next
    BY <1>2
  <2>4. \A p : p \in Sent' <=> p \in Sent \/ p = new.post
    <3>1. \A p : p \in {tx.post : tx \in pending'}
                   <=> p \in {tx.post : tx \in pending} \/ p = new.post
      BY <2>1
    <3> QED
      BY <1>1, <3>1 DEF Sent
  <2>5. \A tx \in pending : tx.post \in Sent
    BY DEF Sent
  <2>6. AllPosts \subseteq Sent
    BY DEF Sent
  <2> HIDE DEF new
  <2>7. \A tx : tx \in pending' <=> tx \in pending \/ tx = new
    BY <2>1 DEF new
  <2>8. CASE d # c
    <3>1. ~Creates(d) /\ call'[d] = call[d]
      BY <1>1, <1>5, <2>8 DEF SendsOnce
    <3> QED
      BY <2>3, <2>4, <2>7, <2>8, <3>1 DEF Once, Same
  <2>9. CASE d = c
    <3>1. ~Creates(c) /\ call'[c].phase # "execute"
      BY <1>4, <1>5, <2>2, <2>9
    <3>2. \A p \in Sent : p.call = c => p.item # call[c].next
      BY <2>2, <3>1 DEF Once
    <3>3. \A p \in Sent : ~Same(p, new.post) /\ ~Same(new.post, p)
      BY <2>3, <3>2 DEF Same
    <3>4. \A tx, ux \in pending' : tx.post.call = d /\ Same(tx.post, ux.post) => tx = ux
      BY <2>5, <2>7, <2>9, <3>1, <3>3 DEF Once
    <3>5. \A tx \in pending' : tx.post.call = d => \A p \in AllPosts : ~Same(p, tx.post)
      BY <2>6, <2>7, <2>9, <3>1, <3>3 DEF Once
    <3> QED
      BY <2>9, <3>1, <3>4, <3>5
  <2> QED
    BY <2>8, <2>9
<1> QED
  BY <1>6, <1>7

LEMMA DecideOnce ==
  ASSUME IInv, Once, NEW tx \in pending, Decide(tx), call' = call
  PROVE  Once'
<1>1. log \in [Topic -> Seq(Post)] /\ pending \subseteq Tx
  BY DEF IInv, TypeOK
<1>2. /\ pending' = pending \ {tx} /\ Sent' \subseteq Sent
      /\ AllPosts' = AllPosts \cup {tx.post} \/ AllPosts' = AllPosts
  BY <1>1, DecideSends
<1>3. \A d \in Call : Creates(d)' <=> Creates(d)
  BY DEF Creates
<1>4. SUFFICES ASSUME NEW d \in Call, ~Creates(d)
               PROVE  /\ \A vx, ux \in pending' :
                            vx.post.call = d /\ Same(vx.post, ux.post) => vx = ux
                      /\ \A vx \in pending' : vx.post.call = d =>
                            \A p \in AllPosts' : ~Same(p, vx.post)
                      /\ call[d].phase = "execute" =>
                            \A p \in Sent' : p.call = d => p.item # call[d].next
  BY <1>3 DEF Once
<1>5. \A vx \in pending' : vx \in pending /\ vx # tx
  BY <1>2
<1>6. \A vx \in pending' : vx.post.call = d => ~Same(tx.post, vx.post)
  BY <1>4, <1>5 DEF Once, Same
<1> QED
  BY <1>2, <1>4, <1>5, <1>6 DEF Once
(***************************************************************************)
(* Readers of a topic with repeats see what they would see without them.   *)
(***************************************************************************)

(* What was posted means the same ever after.                              *)
LEMMA Reread ==
  ASSUME IInv, log' = log,
         \A c \in Call : call[c].phase # "idle" => /\ call'[c].request = call[c].request
                                                   /\ call'[c].phase # "idle"
  PROVE  /\ \A t \in Topic : \A p \in Posted(t) :
              MessageOf(p)' = MessageOf(p) /\ (Creates(p.call)' <=> Creates(p.call))
         /\ \A t \in Topic : Messages(log[t])' = Messages(log[t])
<1>1. log \in [Topic -> Seq(Post)]
  BY DEF IInv, TypeOK
<1>2. ASSUME NEW t \in Topic, NEW p \in Posted(t)
      PROVE  MessageOf(p)' = MessageOf(p) /\ (Creates(p.call)' <=> Creates(p.call))
  <2>1. p \in Sent
    BY <1>2 DEF Sent, AllPosts
  <2>2. p.call \in Call /\ call[p.call].phase # "idle"
    BY <2>1, SentMeans
  <2> QED
    BY <2>2 DEF MessageOf, Creates
<1>3. ASSUME NEW t \in Topic
      PROVE  Messages(log[t])' = Messages(log[t])
  <2>1. \A i \in DOMAIN log[t] : log[t][i] \in Posted(t)
    BY <1>1 DEF Posted
  <2>2. \A i \in DOMAIN log[t] : MessageOf(log[t][i])' = MessageOf(log[t][i])
    BY <1>2, <2>1
  <2> QED
    BY <2>2 DEF Messages
<1> QED
  BY <1>2, <1>3

LEMMA StillHarmless ==
  ASSUME OnceInv, log' = log, doc' = doc,
         \A c \in Call : call[c].phase # "idle" => /\ call'[c].request = call[c].request
                                                   /\ call'[c].phase # "idle"
  PROVE  Settled' /\ DuplicatesHarmless'
<1>1. IInv
  BY DEF OnceInv, SysInv
<1>2. /\ \A t \in Topic : \A p \in Posted(t) :
              MessageOf(p)' = MessageOf(p) /\ (Creates(p.call)' <=> Creates(p.call))
      /\ \A t \in Topic : Messages(log[t])' = Messages(log[t])
  BY <1>1, Reread
<1>3. \A t \in Topic : Posted(t)' = Posted(t)
  BY DEF Posted
<1>4. Settled'
  BY <1>2, <1>3 DEF OnceInv, Settled
<1>5. DuplicatesHarmless'
  BY <1>2 DEF OnceInv, DuplicatesHarmless
<1> QED
  BY <1>4, <1>5

(* One post more on a topic is one message more, or one copy more.         *)
LEMMA MorePosts ==
  ASSUME NEW posts \in Seq(Post), NEW p \in Post
  PROVE  LET more == Append(posts, p)
             n == Len(posts)
         IN  /\ Len(Messages(posts)) = n /\ Len(Messages(more)) = n + 1
             /\ \A i \in 1 .. n : Messages(more)[i] = Messages(posts)[i]
             /\ Messages(more)[n + 1] = MessageOf(p)
             /\ \A i \in 1 .. n : i \in Copies(more) <=> i \in Copies(posts)
             /\ n + 1 \in Copies(more) <=> \E i \in 1 .. n : Same(posts[i], p)
<1> DEFINE more == Append(posts, p)
           n == Len(posts)
<1>1. /\ n \in Nat /\ DOMAIN posts = 1 .. n
      /\ DOMAIN more = 1 .. (n + 1) /\ more[n + 1] = p
      /\ \A i \in 1 .. n : more[i] = posts[i]
  OBVIOUS
<1> HIDE DEF more, n
<1>2. /\ Messages(posts) = [i \in 1 .. n |-> MessageOf(posts[i])]
      /\ Messages(more) = [i \in 1 .. (n + 1) |-> MessageOf(more[i])]
  BY <1>1 DEF Messages
<1>3. Len(Messages(posts)) = n /\ Len(Messages(more)) = n + 1
  BY <1>1, <1>2
<1>4. \A i \in 1 .. n : i \in 1 .. (n + 1) /\ Messages(more)[i] = Messages(posts)[i]
  BY <1>1, <1>2
<1>5. Messages(more)[n + 1] = MessageOf(p)
  BY <1>1, <1>2
<1>6. ASSUME NEW i \in 1 .. n PROVE i \in Copies(more) <=> i \in Copies(posts)
  <2>1. i \in 1 .. (n + 1) /\ \A j \in 1 .. i - 1 : j \in 1 .. n
    BY <1>1
  <2> QED
    BY <1>1, <2>1 DEF Copies
<1>7. n + 1 \in Copies(more) <=> \E i \in 1 .. n : Same(posts[i], p)
  <2>1. (n + 1) - 1 = n /\ n + 1 \in 1 .. (n + 1)
    BY <1>1
  <2> QED
    BY <1>1, <2>1 DEF Copies, Same
<1> QED
  BY <1>3, <1>4, <1>5, <1>6, <1>7 DEF more, n
(* A post that lands: either it is the first of its kind, and both readers *)
(* take the same step, or it is the owner message once more, and neither   *)
(* sees a difference.                                                      *)
LEMMA LandedOnce ==
  ASSUME OnceInv, NEW tx \in pending, Decide(tx), Admitted(tx),
         call' = call, doc' = [t \in Topic |-> Read(t)]
  PROVE  Settled' /\ DuplicatesHarmless'
<1> DEFINE t == tx.topic
           p == tx.post
           c == p.call
           m == MessageOf(p)
           s == doc[t]
<1>1. /\ IInv /\ log \in [Topic -> Seq(Post)] /\ t \in Topic /\ p \in Post
      /\ doc \in [Topic -> State] /\ OwnHands(s)
  BY DEF OnceInv, SysInv, IInv, TypeOK, Tx, Faithful
<1>2. log' = [log EXCEPT ![t] = Append(@, p)]
  BY DEF Decide, Appended
<1>3. p \in Sent
  BY DEF Sent
<1>4. c \in Call /\ call[c].phase # "idle" /\ Means(call[c].request, m)
  BY <1>1, <1>3, SentMeans
<1>5. call[c].request.kind \in Kind
  BY <1>1, <1>4, RegistrarAssumption DEF IInv, Shape
<1>6. /\ \A u \in Topic \ {t} : log'[u] = log[u] /\ Posted(u)' = Posted(u)
      /\ log'[t] # log[t] /\ Last(log'[t]) = p
      /\ Posted(t)' = Posted(t) \cup {p}
  BY <1>1, <1>2, Appending
<1>7. doc'[t] = Step(s, m) /\ \A u \in Topic \ {t} : doc'[u] = doc[u]
  BY <1>1, <1>6 DEF Read
<1>8. \A q : MessageOf(q)' = MessageOf(q)
  BY DEF MessageOf
<1>10. \A d : Creates(d)' <=> Creates(d)
  BY DEF Creates
<1>11. \A q \in Posted(t) : q \in AllPosts /\ q \in Sent
  BY <1>1 DEF AllPosts, Sent
<1>12. \A q \in Sent : Creates(q.call) => q.item = 1
  <2>1. SUFFICES ASSUME NEW q \in Sent, Creates(q.call) PROVE q.item = 1
    OBVIOUS
  <2>2. q.call \in Call /\ q.item \in 1..Size(q.call)
    BY <1>1, SentMeans DEF IInv, Sends
  <2>3. Size(q.call) = 1
    BY <1>1, <2>1, <2>2, RegistrarAssumption DEF Size, Creates, IInv, Shape
  <2> QED
    BY <2>2, <2>3
<1>13. ASSUME NEW q \in Posted(t), Creates(q.call) PROVE q.call = t
  <2>1. q.call \in Call
    BY <1>1, <1>11, <1>13, SentMeans
  <2> QED
    BY <1>1, <1>13, <2>1 DEF OnceInv, SysInv, Sited
<1>14. Creates(c) => c = t
  BY <1>4 DEF OnceInv, SysInv, Sited
<1>15. ASSUME NEW q \in Posted(t), Creates(q.call), Creates(c)
       PROVE  MessageOf(q) = m
  <2>1. q.call = c /\ q.item = p.item
    BY <1>3, <1>11, <1>12, <1>13, <1>14, <1>15
  <2> QED
    BY <2>1 DEF MessageOf
<1>16. m \in AnyMessage /\ m.did = "this" /\ (Creates(c) => Establishes(m))
  BY <1>4 DEF Means, Creates
<1> HIDE DEF m, p, c, t, s
<1>17. Creates(c) => /\ Established(doc'[t], m)
                     /\ Established(s, m) => Blind(doc'[t]) = Blind(s)
  BY <1>1, <1>7, <1>16, Settles
<1>18. ASSUME NEW q \in Posted(t), Creates(q.call)
       PROVE  Established(s, MessageOf(q)) /\ Established(doc'[t], MessageOf(q))
  <2>1. Established(s, MessageOf(q))
    BY <1>1, <1>18 DEF OnceInv, Settled, s
  <2>2. CASE Creates(c)
    BY <1>15, <1>17, <1>18, <2>1, <2>2
  <2>3. CASE ~Creates(c)
    <3>1. call[c].request.kind \in {"update", "deactivate"}
      BY <1>4, <1>5, <2>3 DEF Creates, Kind
    <3> QED
      BY <1>1, <1>4, <1>7, <2>1, <3>1, SettledStays
  <2> QED
    BY <2>1, <2>2, <2>3
<1>19. Settled'
  <2>1. SUFFICES ASSUME NEW u \in Topic, NEW q \in Posted(u)', Creates(q.call)
                 PROVE  Established(doc'[u], MessageOf(q))
    BY <1>8, <1>10 DEF Settled
  <2>2. CASE u # t
    BY <1>6, <1>7, <2>1, <2>2 DEF OnceInv, Settled
  <2>3. CASE u = t /\ q \in Posted(t)
    BY <1>18, <2>1, <2>3
  <2>4. CASE u = t /\ q = p
    BY <1>17, <2>1, <2>4 DEF c, m
  <2> QED
    BY <1>6, <2>1, <2>2, <2>3, <2>4
<1>20. \A u \in Topic : Messages(log[u])' = Messages(log'[u])
  BY DEF Messages, MessageOf
<1> DEFINE once(posts) == Folded(Messages(posts), Copies(posts))
<1>21. \A u \in Topic : Blind(once(log[u])) = Blind(doc[u])
  BY DEF OnceInv, DuplicatesHarmless, Blind
<1>22. Blind(once(log'[t])) = Blind(doc'[t])
  <2> DEFINE posts == log[t]
             more == Append(posts, p)
             n == Len(posts)
  <2>1. posts \in Seq(Post) /\ log'[t] = more /\ n \in Nat
    BY <1>1, <1>2
  <2>2. /\ Len(Messages(posts)) = n /\ Len(Messages(more)) = n + 1
        /\ \A i \in 1 .. n : Messages(more)[i] = Messages(posts)[i]
        /\ Messages(more)[n + 1] = m
        /\ \A i \in 1 .. n : i \in Copies(more) <=> i \in Copies(posts)
        /\ n + 1 \in Copies(more) <=> \E i \in 1 .. n : Same(posts[i], p)
    BY <1>1, <2>1, MorePosts DEF m
  <2>3. \A i \in 1 .. n : posts[i] \in Posted(t)
    BY <2>1 DEF Posted
  <2> HIDE DEF posts, more, n
  <2>4. once(more) = IF n + 1 \in Copies(more) THEN once(posts) ELSE Step(once(posts), m)
    BY <2>1, <2>2, FoldAppend
  <2>5. once(posts) \in State
    <3>1. \A i \in 1 .. n : MessageOf(posts[i]) \in AnyMessage
      BY <1>1, <1>11, <2>3, SentMeans DEF Means
    <3>2. \A i \in 1 .. n : Messages(posts)[i] = MessageOf(posts[i])
      BY <2>1 DEF Messages, n
    <3> QED
      BY <2>1, <2>2, <3>1, <3>2, FoldType
  <2>6. Blind(once(posts)) = Blind(s)
    BY <1>1, <1>21 DEF posts, s
  <2> HIDE DEF once
  <2>7. CASE n + 1 \in Copies(more)
    <3>1. PICK i \in 1 .. n : Same(posts[i], p)
      BY <2>2, <2>7
    <3>2. posts[i] \in Posted(t) /\ posts[i].call = c
      BY <2>3, <3>1 DEF Same, c
    <3>3. Creates(c)
      BY <1>4, <1>11, <3>1, <3>2 DEF OnceInv, Once, c, p
    <3>4. Established(s, m)
      BY <1>15, <1>18, <3>2, <3>3
    <3> QED
      BY <1>17, <2>1, <2>4, <2>6, <2>7, <3>3, <3>4
  <2>8. CASE n + 1 \notin Copies(more)
    <3>1. s \in State
      BY <1>1 DEF s
    <3>2. Blind(Step(once(posts), m)) = Blind(Step(s, m))
      BY <1>16, <2>5, <2>6, <3>1, StepBlind
    <3> QED
      BY <1>7, <2>1, <2>4, <2>8, <3>2
  <2> QED
    BY <2>7, <2>8
<1>23. DuplicatesHarmless'
  <2>1. SUFFICES ASSUME NEW u \in Topic
                 PROVE  Blind(Folded(Messages(log[u])', Copies(log'[u]))) = Blind(doc'[u])
    BY DEF DuplicatesHarmless, Blind
  <2>2. Blind(once(log'[u])) = Blind(doc'[u])
    BY <1>6, <1>7, <1>21, <1>22
  <2> QED
    BY <1>20, <2>2
<1> QED
  BY <1>19, <1>23
LEMMA OnceInitInv == SysInit => OnceInv
<1> SUFFICES ASSUME SysInit PROVE OnceInv
  OBVIOUS
<1>1. SysInv
  BY SysInitInv
<1>2. /\ pending = {} /\ \A t \in Topic : log[t] = <<>>
      /\ \A t \in Topic : doc[t] = Start
      /\ \A c \in Call : call[c].phase = "idle"
  BY DEF SysInit, Init, LedgerInit, Idle
<1>3. Once /\ Settled
  BY <1>2 DEF Once, Settled, Posted
<1>4. DuplicatesHarmless
  <2>1. ASSUME NEW t \in Topic PROVE Folded(Messages(log[t]), Copies(log[t])) = Start
    <3>1. Messages(log[t]) = <<>>
      BY <1>2, <2>1 DEF Messages
    <3>2. Len(Messages(log[t])) = 0
      BY <3>1
    <3> QED
      BY <3>2, FoldEmpty
  <2> QED
    BY <1>2, <2>1 DEF DuplicatesHarmless
<1> QED
  BY <1>1, <1>3, <1>4 DEF OnceInv

LEMMA OnceStepInv ==
  ASSUME OnceInv, [SysNext]_sysVars
  PROVE  OnceInv'
<1>1. SysInv /\ SysInv' /\ IInv /\ Once
  BY SysStepInv DEF OnceInv, SysInv
<1>2. doc \in [Topic -> State]
  BY <1>1 DEF SysInv, Faithful
<1>3. CASE SysNext
  <2>1. doc' = [t \in Topic |-> Read(t)]
    BY <1>3 DEF SysNext
  <2>2. log' = log => doc' = doc
    BY <1>2, <2>1, Unread
  <2>3. CASE \E c \in Call : Enter(c) \/ Proceed(c)
    <3>1. PICK c \in Call : Enter(c) \/ Proceed(c)
      BY <2>3
    <3>2. SendsOnce(c)
      BY <1>1, <3>1, EnterOnce, ProceedOnce
    <3>3. Once'
      BY <1>1, <3>2, SendOnceInv
    <3>4. /\ log' = log
          /\ \A d \in Call : call[d].phase # "idle" => /\ call'[d].request = call[d].request
                                                       /\ call'[d].phase # "idle"
      BY <3>2 DEF SendsOnce
    <3> QED
      BY <1>1, <2>2, <3>3, <3>4, StillHarmless DEF OnceInv
  <2>4. CASE Network
    <3>1. call' = call
      BY <2>4 DEF Network
    <3>2. CASE \E d \in opening : OpenTopic(d)
      <4>1. log' = log /\ pending' = pending
        BY <3>2 DEF OpenTopic
      <4>2. Once'
        BY <1>1, <3>1, <4>1, QuietLedger DEF Once, Creates
      <4> QED
        BY <1>1, <2>2, <3>1, <4>1, <4>2, StillHarmless DEF OnceInv
    <3>3. CASE \E tx \in pending : Decide(tx)
      <4>1. PICK tx \in pending : Decide(tx)
        BY <3>3
      <4>2. Once'
        BY <1>1, <3>1, <4>1, DecideOnce
      <4>3. CASE Admitted(tx)
        BY <1>1, <2>1, <3>1, <4>1, <4>2, <4>3, LandedOnce DEF OnceInv
      <4>4. CASE ~Admitted(tx)
        <5>1. log' = log
          BY <4>1, <4>4 DEF Decide
        <5> QED
          BY <1>1, <2>2, <3>1, <4>2, <5>1, StillHarmless DEF OnceInv
      <4> QED
        BY <4>3, <4>4
    <3> QED
      BY <2>4, <3>2, <3>3 DEF Network, Consensus
  <2> QED
    BY <1>3, <2>3, <2>4 DEF SysNext, Next
<1>4. CASE UNCHANGED sysVars
  <2>1. log' = log /\ pending' = pending /\ call' = call /\ doc' = doc
    BY <1>4 DEF sysVars, vars, ledgerVars
  <2>2. Once'
    BY <1>1, <2>1, QuietLedger DEF Once, Creates
  <2> QED
    BY <1>1, <2>1, <2>2, StillHarmless DEF OnceInv
<1> QED
  BY <1>3, <1>4

(* However often create_did submits its owner message, and wherever on the *)
(* topic the copies end up: a resolver shows the document it would show    *)
(* had every message been sent once, but for the time of the last change   *)
(* (create.rs 165-200, builder.rs 97-182).                                 *)
THEOREM RepeatsAreHarmless == SysSpec => []DuplicatesHarmless
<1>1. OnceInv => DuplicatesHarmless
  BY DEF OnceInv
<1> QED
  BY OnceInitInv, OnceStepInv, <1>1, PTL DEF SysSpec

(* What every document is of the topic it is read from.                    *)
Reproduced == \A t \in Topic : doc[t] = Folded(Messages(log[t]), {})

LEMMA ReproducedStep ==
  ASSUME SysInv, Reproduced, [SysNext]_sysVars
  PROVE  Reproduced'
<1>1. IInv /\ log \in [Topic -> Seq(Post)] /\ doc \in [Topic -> State]
  BY DEF SysInv, IInv, TypeOK, Faithful
<1>2. CASE log' = log /\ doc' = doc /\ \E c \in Call : Moves(c)
  <2>1. \A t \in Topic : Messages(log[t])' = Messages(log[t])
    BY <1>1, <1>2, Reread DEF Moves
  <2> QED
    BY <1>2, <2>1 DEF Reproduced
<1>3. CASE log' = log /\ doc' = doc /\ call' = call
  BY <1>3 DEF Reproduced, Messages, MessageOf
<1>4. CASE doc' = [t \in Topic |-> Read(t)] /\ call' = call
           /\ \E tx \in pending : Decide(tx) /\ Admitted(tx)
  <2>1. PICK tx \in pending : Decide(tx) /\ Admitted(tx)
    BY <1>4
  <2> DEFINE t == tx.topic
             p == tx.post
             posts == log[t]
             more == Append(posts, p)
  <2>2. t \in Topic /\ p \in Post /\ posts \in Seq(Post)
    BY <1>1 DEF IInv, TypeOK, Tx
  <2>3. log' = [log EXCEPT ![t] = more]
    BY <2>1 DEF Decide, Appended
  <2>4. /\ \A u \in Topic \ {t} : log'[u] = log[u]
        /\ log'[t] = more /\ log'[t] # log[t] /\ Last(log'[t]) = p
    BY <1>1, <2>2, <2>3, Appending
  <2>5. doc'[t] = Step(doc[t], MessageOf(p)) /\ \A u \in Topic \ {t} : doc'[u] = doc[u]
    BY <1>4, <2>2, <2>4 DEF Read, MessageOf
  <2>6. \A u \in Topic : Messages(log[u])' = Messages(log'[u])
    BY <1>4 DEF Messages, MessageOf
  <2>7. Folded(Messages(more), {}) = Step(Folded(Messages(posts), {}), MessageOf(p))
    <3>1. Len(posts) \in Nat
      BY <2>2
    <3> HIDE DEF more, posts, p, t
    <3> QED
      BY <2>2, <3>1, MorePosts, FoldAppend DEF more
  <2> HIDE DEF more, posts, p
  <2>8. doc[t] = Folded(Messages(posts), {})
    BY <2>2 DEF Reproduced, posts
  <2> QED
    BY <2>4, <2>5, <2>6, <2>7, <2>8 DEF Reproduced
<1>5. CASE SysNext
  <2>1. doc' = [t \in Topic |-> Read(t)]
    BY <1>5 DEF SysNext
  <2>2. log' = log => doc' = doc
    BY <1>1, <2>1, Unread
  <2>3. CASE \E c \in Call : Enter(c) \/ Proceed(c)
    BY <1>1, <1>2, <2>2, <2>3, EnterMoves, ProceedMoves DEF Moves
  <2>4. CASE Network
    BY <1>3, <1>4, <2>1, <2>2, <2>4 DEF Network, Consensus, OpenTopic, Decide
  <2> QED
    BY <1>5, <2>3, <2>4 DEF SysNext, Next
<1>6. CASE UNCHANGED sysVars
  BY <1>3, <1>6 DEF sysVars, vars, ledgerVars
<1> QED
  BY <1>5, <1>6

(* doc, which takes a step with every post, is what a reader who starts    *)
(* over makes of the whole topic, whenever it does (builder.rs 75-110).    *)
THEOREM DocumentsAreFolds == SysSpec => []Reproduced
<1>1. SysInit => Reproduced
  <2>1. SUFFICES ASSUME SysInit, NEW t \in Topic PROVE doc[t] = Folded(Messages(log[t]), {})
    BY DEF Reproduced
  <2>2. log[t] = <<>> /\ doc[t] = Start
    BY <2>1 DEF SysInit, Init, LedgerInit
  <2>3. Messages(log[t]) = <<>>
    BY <2>2 DEF Messages
  <2> QED
    BY <2>2, <2>3, FoldEmpty
<1> QED
  BY SysInvariance, <1>1, ReproducedStep, PTL DEF SysSpec

(***************************************************************************)
(* What writers and readers together promise.                              *)
(***************************************************************************)

(* The key that the last message on a topic verifies under.                *)
Author(t) == IF log[t] = <<>> THEN Nil ELSE MessageOf(Last(log[t])).signer

Promise(t) ==
  INSTANCE ControlledDid
    WITH holder   <- doc[t].current,
         stage    <- StageOf(doc[t]),
         contents <- ContentsOf(doc[t]),
         author   <- Author(t)

PromisesKept ==
  /\ \A t \in Topic : Promise(t)!Init
  /\ [][\A t \in Topic : Promise(t)!Next]_sysVars

LEMMA PromiseInit == SysInit => \A t \in Topic : Promise(t)!Init
BY DEF SysInit, Init, LedgerInit, Start, StageOf, Author, Promise!Init

(* What a reader is told changes with what consensus puts on the topic.    *)
LEMMA PromiseStep ==
  ASSUME SysInv, [SysNext]_sysVars
  PROVE  \A t \in Topic : Promise(t)!Next
<1>1. IInv /\ log \in [Topic -> Seq(Post)] /\ doc \in [Topic -> State]
  BY DEF SysInv, IInv, TypeOK, Faithful
<1>2. SUFFICES ASSUME NEW t \in Topic PROVE Promise(t)!Next
  OBVIOUS
<1>3. CASE doc'[t] = doc[t]
  BY <1>3 DEF Promise!Next, Promise!Ignored
<1>4. CASE doc'[t] # doc[t]
  <2>1. doc'[t] = Read(t) /\ log' # log /\ Next
    BY <1>1, <1>4 DEF SysNext, Read, sysVars, vars, ledgerVars
  <2>2. PICK tx \in pending : Decide(tx) /\ Admitted(tx) /\ call' = call
    BY <1>1, <2>1, EnterMoves, ProceedMoves DEF Next, Network, Consensus, OpenTopic, Decide, Moves
  <2> DEFINE p == tx.post
  <2>3. tx.topic \in Topic /\ p \in Post /\ p \in Sent
    BY <1>1, <2>2 DEF IInv, TypeOK, Tx, Sent
  <2>4. log' = [log EXCEPT ![tx.topic] = Append(log[tx.topic], p)]
    BY <2>2 DEF Decide, Appended
  <2>5. t = tx.topic /\ log'[t] = Append(log[t], p) /\ Last(log'[t]) = p
    BY <1>1, <1>4, <2>1, <2>3, <2>4, Appending DEF Read
  <2>6. MessageOf(p)' = MessageOf(p) /\ MessageOf(p) \in AnyMessage
    BY <1>1, <2>2, <2>3, SentMeans DEF MessageOf, Means
  <2>7. doc'[t] = Step(doc[t], MessageOf(p)) /\ Author(t)' = MessageOf(p).signer
    <3>1. doc'[t] = Step(doc[t], MessageOf(p)) \/ doc'[t] = doc[t]
      BY <2>1, <2>2, <2>5 DEF Read, MessageOf
    <3>2. log'[t] # <<>>
      BY <1>1, <2>3, <2>5
    <3>3. Author(t)' = MessageOf(p)'.signer
      BY <2>5, <3>2 DEF Author, MessageOf
    <3> QED
      BY <1>4, <2>6, <3>1, <3>3
  <2>8. doc[t] \in State /\ (~doc[t].exists => doc[t].current = Anchor)
    BY <1>1 DEF SysInv, Faithful, OwnHands
  <2>9. Author(t)' = doc[t].current /\ Evolves(doc[t], doc'[t])
    BY <1>4, <2>6, <2>7, <2>8, StepEvolves
  <2> QED
    BY <2>9 DEF Evolves, Promise!Next, Promise!Edit, Promise!Establish, Promise!HandOver,
                Promise!End
<1> QED
  BY <1>3, <1>4

(* Whatever the calls, the networks and the order of consensus: on every   *)
(* topic, what successive readers are told of the DID changes only as an   *)
(* abstract DID may, by its controlling key and never after its end        *)
(* (create.rs 40-209, update.rs 88-127, builder.rs 75-224).                *)
THEOREM DocumentsKeepThePromise == SysSpec => PromisesKept
<1> QED
  BY SysInvariance, PromiseInit, PromiseStep, PTL DEF SysSpec, PromisesKept
================================================================================
