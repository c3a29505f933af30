----------------------------- MODULE CsmFlow_proofs -----------------------------
(***************************************************************************)
(* Proofs about CsmFlow and CsmSystem, for any set of sessions,            *)
(* submissions, requests and operators, and any reading of the clock.      *)
(***************************************************************************)
EXTENDS CsmSystem, DidDocument_proofs

Running(x) == call[x].phase \in {"check", "execute", "receipt"}

(* The submission is of a request that had not expired when it began.      *)
InTime(x) ==
  session[call[x].session].request.expires # Nil
    => call[x].began <= session[call[x].session].request.expires

(* A session that got past its preparation has messages and a topic.       *)
SessionShape(s) ==
  /\ session[s].phase # "idle" => session[s].request \in Request[s]
  /\ session[s].phase \in {"open", "opened", "prepared"}
       => /\ Len(session[s].request.items) \in Nat \ {0}
          /\ session[s].topic \in Topic

(* An item that was accepted is still authentic when it goes out, and its  *)
(* submission began before the expiry.                                     *)
CallShape(x) ==
  /\ call[x].began <= now
  /\ Running(x) => /\ call[x].session \in Session
                   /\ call[x].operator \in Operator
  /\ call[x].phase \in {"execute", "receipt"}
       => Verifies(call[x].signatures[call[x].next], call[x].next) /\ InTime(x)

(* Whatever was sent came from a submission of a prepared session.         *)
Origin(p) ==
  /\ p.call \in Call
  /\ call[p.call].phase # "idle"
  /\ call[p.call].session \in Session
  /\ session[call[p.call].session].phase = "prepared"
  /\ InTime(p.call)

IInv ==
  /\ TypeOK
  /\ \A s \in Session : SessionShape(s)
  /\ \A x \in Call : CallShape(x)
  /\ \A p \in SentPosts : Origin(p) /\ Verifies(p.signature, p.item)

USE DEF SessionPhase, CallPhase

(***************************************************************************)
(* Lemmas about the ledger.                                                *)
(***************************************************************************)

(* A decision about a submission sends nothing new.                        *)
LEMMA DecideSends ==
  ASSUME log \in [Topic -> Seq(Post)], pending \subseteq Tx,
         NEW tx \in pending, Decide(tx)
  PROVE  /\ log' \in [Topic -> Seq(Post)]
         /\ pending' \subseteq Tx
         /\ SentPosts' \subseteq SentPosts
<1>1. tx.topic \in Topic /\ tx.post \in Post /\ tx.post \in SentPosts
  BY DEF Tx, SentPosts
<1>2. pending' \subseteq pending
  BY DEF Decide
<1>3. CASE Admitted(tx)
  <2>1. log' = [log EXCEPT ![tx.topic] = Append(@, tx.post)]
    BY <1>3 DEF Decide, Appended
  <2>2. log' \in [Topic -> Seq(Post)]
    BY <1>1, <2>1
  <2>3. ASSUME NEW t \in Topic, NEW p \in Posted(t)'
        PROVE  p \in Posted(t) \cup {tx.post}
    <3>1. log[t] \in Seq(Post) /\ Len(log[t]) \in Nat
      OBVIOUS
    <3>2. PICK i \in 1..Len(log'[t]) : p = log'[t][i]
      BY <2>3 DEF Posted
    <3>3. CASE t = tx.topic
      <4>1. log'[t] = Append(log[t], tx.post)
        BY <2>1, <3>3
      <4> QED
        BY <1>1, <3>1, <3>2, <4>1 DEF Posted
    <3>4. CASE t # tx.topic
      BY <2>1, <3>2, <3>4 DEF Posted
    <3> QED
      BY <3>3, <3>4
  <2>4. AllPosts' \subseteq SentPosts
    BY <1>1, <2>3 DEF AllPosts, SentPosts
  <2> QED
    BY <1>2, <2>2, <2>4 DEF SentPosts
<1>4. CASE ~Admitted(tx)
  <2>1. log' = log
    BY <1>4 DEF Decide
  <2>2. AllPosts' = AllPosts
    BY <2>1 DEF AllPosts, Posted
  <2> QED
    BY <1>2, <2>1, <2>2 DEF SentPosts
<1> QED
  BY <1>3, <1>4

(* Steps that touch neither pending nor log leave what was sent as it was. *)
LEMMA QuietLedger ==
  ASSUME log' = log, pending' = pending
  PROVE  SentPosts' = SentPosts
BY DEF SentPosts, AllPosts, Posted

(* The lists an application may hand in have a signature for each message. *)
LEMMA SignatureListsType ==
  ASSUME NEW x \in Call, NEW s \in Session, Len(Messages(s)) \in Nat,
         NEW g \in SignatureLists(x, s)
  PROVE  g \in Seq(Signature) /\ Len(g) = Len(Messages(s))
<1> DEFINE n == Len(Messages(s))
<1>1. Signer[x] \subseteq Key
  BY CsmAssumption
<1>2. g \in [1..n -> Signature]
  BY <1>1 DEF SignatureLists, Signature
<1> QED
  BY <1>2

(***************************************************************************)
(* The inductive invariant.                                                *)
(***************************************************************************)
LEMMA Initially == Init => IInv
<1> SUFFICES ASSUME Init PROVE IInv
  OBVIOUS
<1>1. AllPosts = {} /\ SentPosts = {}
  BY DEF Init, LedgerInit, AllPosts, SentPosts, Posted
<1>2. TypeOK
  BY CsmAssumption DEF Init, LedgerInit, TypeOK, NewSession, NewCall, SessionState,
     CallState, Door
<1>3. \A s \in Session : SessionShape(s)
  BY DEF Init, SessionShape, NewSession
<1>4. \A x \in Call : CallShape(x)
  BY DEF Init, CallShape, NewCall, Running
<1> QED
  BY <1>1, <1>2, <1>3, <1>4 DEF IInv

(* Steps that prepare a session: no submission is of it yet.               *)
LEMMA SessionChanges ==
  ASSUME IInv, NEW s \in Session, session[s].phase \in {"idle", "open", "opened"},
         log' = log, pending' = pending, doors' = doors, opening' \subseteq Door,
         now' = now, call' = call,
         session' \in [Session -> SessionState],
         \A z \in Session \ {s} : session'[z] = session[z],
         SessionShape(s)'
  PROVE  IInv'
<1>1. SentPosts' = SentPosts
  BY QuietLedger
<1>2. \A z \in Session : session[z].phase = "prepared" => session'[z] = session[z]
  OBVIOUS
<1>3. ASSUME NEW x \in Call, Running(x)
      PROVE  session'[call[x].session] = session[call[x].session]
  BY <1>2, <1>3 DEF IInv, TypeOK, CallShape, Running
<1>4. TypeOK'
  <2>1. \A x \in Call : call[x].phase \notin {"idle", "done"} => Running(x)
    BY DEF IInv, TypeOK, CallState, Running
  <2> QED
    BY <1>3, <2>1 DEF IInv, TypeOK, Size, Messages
<1>5. \A z \in Session : SessionShape(z)'
  BY DEF IInv, SessionShape
<1>6. ASSUME NEW x \in Call
      PROVE  CallShape(x)'
  BY <1>3 DEF IInv, CallShape, Running, InTime, Verifies
<1>7. ASSUME NEW p \in SentPosts
      PROVE  Origin(p)' /\ Verifies(p.signature, p.item)
  BY <1>2 DEF IInv, Origin, InTime
<1> QED
  BY <1>1, <1>4, <1>5, <1>6, <1>7 DEF IInv, Verifies

(* Steps of one submission; what they send must come from it.              *)
LEMMA CallChanges ==
  ASSUME IInv, NEW x \in Call,
         session' = session, now' = now, opening' = opening, doors' = doors,
         log' = log, pending' \subseteq Tx,
         call' \in [Call -> CallState],
         \A y \in Call \ {x} : call'[y] = call[y],
         call'[x].phase # "idle",
         call[x].phase # "idle" => /\ call'[x].session = call[x].session
                                   /\ call'[x].began = call[x].began,
         call'[x].phase # "done" =>
           /\ session[call'[x].session].phase = "prepared"
           /\ Size(x)' = Len(Messages(call'[x].session))
           /\ call'[x].next \in 1..Size(x)',
         CallShape(x)',
         \A p \in SentPosts' :
           p \in SentPosts \/ (Origin(p)' /\ Verifies(p.signature, p.item))
  PROVE  IInv'
<1>1. \A y \in Call : CallShape(y)'
  BY DEF IInv, CallShape, Running, InTime, Verifies
<1>2. TypeOK'
  BY DEF IInv, TypeOK, Size, Messages
<1>3. \A s \in Session : SessionShape(s)'
  BY DEF IInv, SessionShape
<1>4. ASSUME NEW p \in SentPosts
      PROVE  Origin(p)' /\ Verifies(p.signature, p.item)
  BY DEF IInv, Origin, InTime
<1> QED
  BY <1>1, <1>2, <1>3, <1>4 DEF IInv, Verifies

(* A submission that returns.                                              *)
LEMMA Returns ==
  ASSUME IInv, NEW x \in Call, NEW v \in {"ok", "err", "expired"}, Return(x, v),
         session' = session, now' = now, opening' = opening, doors' = doors,
         log' = log, pending' \subseteq Tx,
         \A p \in SentPosts' :
           p \in SentPosts \/ (Origin(p)' /\ Verifies(p.signature, p.item))
  PROVE  IInv'
<1>1. call \in [Call -> CallState]
  BY DEF IInv, TypeOK
<1>2. /\ call' \in [Call -> CallState]
      /\ \A y \in Call \ {x} : call'[y] = call[y]
      /\ call'[x].phase = "done" /\ call'[x].session = call[x].session
      /\ call'[x].began = call[x].began
  <2>1. call' = [call EXCEPT ![x] = [call[x] EXCEPT !.phase = "done", !.verdict = v]]
    BY DEF Return
  <2>2. [call[x] EXCEPT !.phase = "done", !.verdict = v] \in CallState
    BY <1>1 DEF CallState
  <2> QED
    BY <1>1, <2>1, <2>2 DEF CallState
<1>3. CallShape(x)'
  BY <1>2 DEF IInv, CallShape, Running
<1> QED
  BY <1>2, <1>3, CallChanges

(* What a step that sends an item adds to what was sent.                   *)
LEMMA OneMore ==
  ASSUME IInv, NEW x \in Call, NEW heard \in BOOLEAN, call[x].phase = "execute",
         log' = log, pending' = pending \cup {TxOf(x, heard)}
  PROVE  /\ pending' \subseteq Tx
         /\ \A p \in SentPosts' : p \in SentPosts \/ p = PostOf(x, heard)
         /\ PostOf(x, heard).call = x
         /\ Verifies(PostOf(x, heard).signature, PostOf(x, heard).item)
         /\ Origin(PostOf(x, heard))
<1>1. /\ call[x] \in CallState /\ call[x].session \in Session
      /\ call[x].operator \in Operator
      /\ session[call[x].session].phase = "prepared"
      /\ Size(x) = Len(call[x].signatures) /\ call[x].next \in 1..Size(x)
      /\ Verifies(call[x].signatures[call[x].next], call[x].next) /\ InTime(x)
  BY DEF IInv, TypeOK, CallShape, Running, Size
<1>2. call[x].signatures[call[x].next] \in Signature /\ call[x].next \in Nat \ {0}
  BY <1>1 DEF CallState
<1>3. session[call[x].session].topic \in Topic
  BY <1>1 DEF IInv, SessionShape
<1>4. TxOf(x, heard) \in Tx
  BY <1>1, <1>2, <1>3 DEF TxOf, PostOf, Tx, Post
<1>5. AllPosts' = AllPosts
  BY DEF AllPosts, Posted
<1>6. TxOf(x, heard).post = PostOf(x, heard)
  BY DEF TxOf
<1>7. \A p \in SentPosts' : p \in SentPosts \/ p = PostOf(x, heard)
  BY <1>5, <1>6 DEF SentPosts
<1>8. Origin(PostOf(x, heard)) /\ Verifies(PostOf(x, heard).signature, PostOf(x, heard).item)
  BY <1>1 DEF Origin, PostOf
<1> QED
  BY <1>4, <1>7, <1>8 DEF IInv, TypeOK, PostOf

(* Preparing a request, whichever operation it is for.                     *)
LEMMA Prepares ==
  ASSUME IInv, NEW s \in Session, NEW r \in Request[s], NEW t \in Topic,
         NEW phase \in {"open", "prepared", "failed"},
         phase # "failed" => Len(r.items) \in Nat \ {0},
         Prepare(s, r, t, phase)
  PROVE  IInv'
<1>1. r \in Requests
  BY DEF Requests
<1>2. session \in [Session -> SessionState] /\ opening \subseteq Door
  BY DEF IInv, TypeOK
<1>3. /\ session' \in [Session -> SessionState]
      /\ \A z \in Session \ {s} : session'[z] = session[z]
      /\ session'[s] = [phase |-> phase, request |-> r, topic |-> t]
  BY <1>1, <1>2 DEF Prepare, SessionState
<1>4. SessionShape(s)'
  BY <1>3 DEF SessionShape
<1> QED
  BY <1>2, <1>3, <1>4, SessionChanges DEF Prepare, ledgerVars

LEMMA PrepareInv ==
  ASSUME IInv, NEW s \in Session,
         PrepareCreate(s) \/ PrepareUpdate(s) \/ PrepareDeactivate(s)
  PROVE  IInv'
<1>1. s \in Topic /\ KnownTopics \subseteq Topic
  BY CsmAssumption DEF IInv, SessionShape, KnownTopics
<1>2. \A r \in Request[s] : Len(r.items) \in Nat /\ (r.kind # "update" => Len(r.items) = 1)
  BY CsmAssumption
<1>3. CASE PrepareCreate(s)
  BY <1>1, <1>2, <1>3, Prepares DEF PrepareCreate
<1>4. CASE PrepareUpdate(s)
  BY <1>1, <1>2, <1>4, Prepares DEF PrepareUpdate
<1>5. CASE PrepareDeactivate(s)
  BY <1>1, <1>2, <1>5, Prepares DEF PrepareDeactivate
<1> QED
  BY <1>3, <1>4, <1>5

(* The topic of a create session is taken in, confirmed, or not.           *)
LEMMA TopicInv ==
  ASSUME IInv, NEW s \in Session,
         TopicTaken(s) \/ TopicFails(s) \/ TopicConfirmed(s) \/ TopicUnconfirmed(s)
  PROVE  IInv'
<1>1. /\ session \in [Session -> SessionState] /\ opening \subseteq Door
      /\ SessionShape(s) /\ KeylessDoor(s) \in Door
  BY CsmAssumption DEF IInv, TypeOK, KeylessDoor, Door
<1>2. PICK phase \in {"opened", "failed", "prepared"} :
        session' = [session EXCEPT ![s].phase = phase]
  BY DEF TopicTaken, TopicFails, TopicConfirmed, TopicUnconfirmed
<1>3. /\ session' \in [Session -> SessionState]
      /\ \A z \in Session \ {s} : session'[z] = session[z]
      /\ session'[s].request = session[s].request
      /\ session'[s].topic = session[s].topic
  BY <1>1, <1>2 DEF SessionState
<1>4. session[s].phase \in {"open", "opened"}
  BY DEF TopicTaken, TopicFails, TopicConfirmed, TopicUnconfirmed
<1>5. SessionShape(s)'
  BY <1>1, <1>3, <1>4 DEF SessionShape
<1>6. /\ opening' \subseteq Door /\ doors' = doors /\ log' = log /\ pending' = pending
      /\ now' = now /\ call' = call
  BY <1>1 DEF TopicTaken, TopicFails, TopicConfirmed, TopicUnconfirmed, ledgerVars
<1> QED
  BY <1>3, <1>4, <1>5, <1>6, SessionChanges

(* A submission begins with any list of signatures of the right length.    *)
LEMMA SubmitInv ==
  ASSUME IInv, NEW x \in Call, Submit(x)
  PROVE  IInv'
<1>1. PICK s \in Target[x] :
        /\ session[s].phase = "prepared"
        /\ \E k \in Operator : \E sigs \in SignatureLists(x, s) :
             call' = [call EXCEPT ![x] =
               [phase |-> "check", verdict |-> "none", session |-> s,
                signatures |-> sigs, operator |-> k, next |-> 1, began |-> now]]
  BY DEF Submit
<1>2. PICK k \in Operator, g \in SignatureLists(x, s) :
        call' = [call EXCEPT ![x] =
             [phase |-> "check", verdict |-> "none", session |-> s,
              signatures |-> g, operator |-> k, next |-> 1, began |-> now]]
  BY <1>1
<1>3. s \in Session
  BY CsmAssumption
<1>4. Len(Messages(s)) \in Nat \ {0}
  BY <1>1, <1>3 DEF IInv, SessionShape, Messages
<1>5. g \in Seq(Signature) /\ Len(g) = Len(Messages(s))
  BY <1>3, <1>4, SignatureListsType
<1>6. call \in [Call -> CallState] /\ now \in 0..Horizon /\ Horizon \in Nat
  BY CsmAssumption DEF IInv, TypeOK
<1>7. /\ call'[x] = [phase |-> "check", verdict |-> "none", session |-> s,
                     signatures |-> g, operator |-> k, next |-> 1, began |-> now]
      /\ \A y \in Call \ {x} : call'[y] = call[y]
      /\ call' \in [Call -> CallState]
  BY <1>2, <1>3, <1>5, <1>6 DEF CallState
<1>8. /\ session' = session /\ now' = now /\ opening' = opening /\ doors' = doors
      /\ log' = log /\ pending' = pending /\ pending \subseteq Tx
      /\ call[x].phase = "idle"
  BY DEF Submit, ledgerVars, IInv, TypeOK
<1>9. CallShape(x)'
  BY <1>3, <1>6, <1>7, <1>8 DEF CallShape, Running
<1>10. Size(x)' = Len(Messages(call'[x].session)) /\ call'[x].next \in 1..Size(x)'
  BY <1>4, <1>5, <1>7 DEF Size
<1> QED
  BY <1>1, <1>7, <1>8, <1>9, <1>10, QuietLedger, CallChanges

(* What is known of a submission under way.                                *)
LEMMA UnderWay ==
  ASSUME IInv, NEW x \in Call, Running(x)
  PROVE  /\ call[x] \in CallState
         /\ call[x].session \in Session
         /\ session[call[x].session].phase = "prepared"
         /\ Size(x) = Len(call[x].signatures)
         /\ Size(x) = Len(Messages(call[x].session))
         /\ call[x].next \in 1..Size(x)
         /\ CallShape(x)
BY DEF IInv, TypeOK, CallShape, Running, Size

(* Only what moves on within a submission: no ledger, no return.           *)
LEMMA MovesOn ==
  ASSUME IInv, NEW x \in Call, Running(x),
         NEW phase \in {"check", "execute", "receipt"}, NEW next \in 1..Size(x),
         call' = [call EXCEPT ![x] = [call[x] EXCEPT !.phase = phase, !.next = next]],
         phase # "check" => /\ next = call[x].next /\ InTime(x)
                            /\ Verifies(call[x].signatures[next], next),
         session' = session, now' = now, opening' = opening, doors' = doors, log' = log,
         pending' \subseteq Tx,
         \A p \in SentPosts' :
           p \in SentPosts \/ (Origin(p)' /\ Verifies(p.signature, p.item))
  PROVE  IInv'
<1>1. call[x] \in CallState /\ call \in [Call -> CallState] /\ Size(x) \in Nat
  BY UnderWay DEF IInv, TypeOK, CallState
<1>2. [call[x] EXCEPT !.phase = phase, !.next = next] \in CallState
  <2>1. next \in Nat \ {0} /\ phase \in CallPhase
    BY <1>1
  <2> QED
    BY <1>1, <2>1 DEF CallState
<1>3. /\ call' \in [Call -> CallState]
      /\ \A y \in Call \ {x} : call'[y] = call[y]
      /\ call'[x].phase = phase /\ call'[x].next = next
      /\ call'[x].session = call[x].session /\ call'[x].began = call[x].began
      /\ call'[x].signatures = call[x].signatures
      /\ call'[x].operator = call[x].operator
  BY <1>1, <1>2 DEF CallState
<1>4. CallShape(x)'
  BY <1>3, UnderWay DEF CallShape, Running, InTime, Verifies
<1>5. Size(x)' = Size(x)
  BY <1>3, UnderWay DEF Size, Running
<1>6. call'[x].phase # "idle"
  BY <1>3
<1>7. /\ session[call'[x].session].phase = "prepared"
      /\ Size(x)' = Len(Messages(call'[x].session))
      /\ call'[x].next \in 1..Size(x)'
  BY <1>3, <1>5, UnderWay
<1> QED
  BY <1>3, <1>4, <1>6, <1>7, CallChanges

LEMMA ProceedInv ==
  ASSUME IInv, NEW x \in Call, Proceed(x)
  PROVE  IInv'
<1> DEFINE same == /\ session' = session /\ now' = now /\ opening' = opening
                   /\ doors' = doors /\ log' = log
<1>1. Running(x)
  BY DEF Proceed, ItemAccepted, ItemRejected, ExecuteTaken, ExecuteFails, ReceiptSucceeds,
     ReceiptFails, Running
<1>2. /\ call[x] \in CallState /\ call[x].next \in 1..Size(x) /\ Size(x) \in Nat
      /\ session[call[x].session] \in SessionState /\ call[x].session \in Session
      /\ call[x].began <= now /\ now \in Nat /\ call[x].began \in Nat
      /\ session[call[x].session].phase = "prepared"
      /\ pending \subseteq Tx
  <2>1. Horizon \in Nat
    BY CsmAssumption
  <2>2. Len(call[x].signatures) \in Nat
    BY <1>1, UnderWay DEF CallState
  <2> QED
    BY <1>1, <2>1, <2>2, UnderWay DEF IInv, TypeOK, CallShape, CallState
<1>3. session[call[x].session].request.expires \in Nat \cup {Nil}
  <2>1. session[call[x].session].request \in Request[call[x].session]
    BY <1>2 DEF IInv, SessionShape
  <2> QED
    BY <1>2, <2>1, CsmAssumption
<1>4. CASE ItemAccepted(x)
  <2>1. InTime(x)
    BY <1>2, <1>3, <1>4 DEF ItemAccepted, NextIsValid, ValidForSubmit, Expired, InTime
  <2>2. call' = [call EXCEPT ![x] = [call[x] EXCEPT !.phase = "execute", !.next = call[x].next]]
    BY <1>2, <1>4 DEF ItemAccepted, IInv, TypeOK, CallState
  <2>3. Verifies(call[x].signatures[call[x].next], call[x].next)
    BY <1>4 DEF ItemAccepted, NextIsValid, ValidForSubmit
  <2>4. same /\ pending' = pending
    BY <1>4 DEF ItemAccepted, ledgerVars
  <2> QED
    BY <1>1, <1>2, <2>1, <2>2, <2>3, <2>4, QuietLedger, MovesOn
<1>5. CASE ItemRejected(x)
  <2>1. \E v \in {"ok", "err", "expired"} : Return(x, v)
    BY <1>5 DEF ItemRejected
  <2>2. same /\ pending' = pending
    BY <1>5 DEF ItemRejected, ledgerVars
  <2> QED
    BY <1>2, <2>1, <2>2, QuietLedger, Returns
<1>6. CASE ExecuteTaken(x)
  <2>1. /\ same /\ pending' = pending \cup {TxOf(x, TRUE)}
        /\ call' = [call EXCEPT ![x] = [call[x] EXCEPT !.phase = "receipt", !.next = call[x].next]]
    BY <1>2, <1>6 DEF ExecuteTaken, IInv, TypeOK, CallState
  <2>2. CallShape(x) /\ call[x].phase = "execute"
    BY <1>6 DEF ExecuteTaken, IInv
  <2>3. /\ pending' \subseteq Tx
        /\ \A p \in SentPosts' : p \in SentPosts \/ p = PostOf(x, TRUE)
        /\ PostOf(x, TRUE).call = x
        /\ Verifies(PostOf(x, TRUE).signature, PostOf(x, TRUE).item)
        /\ Origin(PostOf(x, TRUE))
    BY <2>1, <2>2, OneMore
  <2>4. ASSUME NEW p, p = PostOf(x, TRUE)
      PROVE  Origin(p)' /\ Verifies(p.signature, p.item)
    BY <1>2, <2>1, <2>3, <2>4 DEF Origin, InTime, IInv, TypeOK, CallState, PostOf
  <2> QED
    BY <1>1, <1>2, <2>1, <2>2, <2>3, <2>4, MovesOn DEF CallShape
<1>7. CASE ExecuteFails(x)
  <2>1. same /\ Return(x, "err") /\ call[x].phase = "execute"
    BY <1>7 DEF ExecuteFails
  <2>2. CASE pending' = pending
    BY <1>2, <2>1, <2>2, QuietLedger, Returns
  <2>3. CASE pending' = pending \cup {TxOf(x, FALSE)}
    <3>1. /\ pending' \subseteq Tx
          /\ \A p \in SentPosts' : p \in SentPosts \/ p = PostOf(x, FALSE)
          /\ PostOf(x, FALSE).call = x
          /\ Verifies(PostOf(x, FALSE).signature, PostOf(x, FALSE).item)
          /\ Origin(PostOf(x, FALSE))
      BY <2>1, <2>3, OneMore
    <3>2. ASSUME NEW p, p = PostOf(x, FALSE)
        PROVE  Origin(p)' /\ Verifies(p.signature, p.item)
      BY <1>2, <2>1, <3>1, <3>2 DEF Origin, InTime, IInv, TypeOK, CallState, PostOf, Return
    <3> QED
      BY <2>1, <3>1, <3>2, Returns
  <2> QED
    BY <1>7, <2>2, <2>3 DEF ExecuteFails
<1>8. CASE ReceiptSucceeds(x)
  <2>1. same /\ pending' = pending
    BY <1>8 DEF ReceiptSucceeds, ledgerVars
  <2>2. CASE call[x].next = Size(x)
    BY <1>2, <1>8, <2>1, <2>2, QuietLedger, Returns DEF ReceiptSucceeds
  <2>3. CASE call[x].next # Size(x)
    <3>1. call' = [call EXCEPT ![x] = [call[x] EXCEPT !.phase = "check", !.next = call[x].next + 1]]
      BY <1>8, <2>3 DEF ReceiptSucceeds
    <3>2. call[x].next + 1 \in 1..Size(x)
      BY <1>2, <2>3
    <3> QED
      BY <1>1, <1>2, <2>1, <3>1, <3>2, QuietLedger, MovesOn
  <2> QED
    BY <2>2, <2>3
<1>9. CASE ReceiptFails(x)
  BY <1>2, <1>9, QuietLedger, Returns DEF ReceiptFails, ledgerVars
<1> QED
  BY <1>4, <1>5, <1>6, <1>7, <1>8, <1>9 DEF Proceed

(* The network decides, or the clock goes on.                              *)
LEMMA NetworkInv ==
  ASSUME IInv, Network
  PROVE  IInv'
<1>1. /\ log \in [Topic -> Seq(Post)] /\ pending \subseteq Tx
      /\ opening \subseteq Door /\ doors \subseteq Door
  BY DEF IInv, TypeOK
<1>2. /\ session' = session /\ call' = call /\ now' = now
  BY DEF Network, flowVars
<1>3. /\ log' \in [Topic -> Seq(Post)] /\ pending' \subseteq Tx
      /\ opening' \subseteq Door /\ doors' \subseteq Door
      /\ SentPosts' \subseteq SentPosts
  <2>1. CASE \E d \in opening : OpenTopic(d)
    BY <1>1, <2>1, QuietLedger DEF OpenTopic
  <2>2. CASE \E tx \in pending : Decide(tx)
    BY <1>1, <2>2, DecideSends DEF Decide
  <2> QED
    BY <2>1, <2>2 DEF Network, Consensus
<1>4. TypeOK'
  BY <1>2, <1>3 DEF IInv, TypeOK, Size, Messages
<1>5. /\ \A s \in Session : SessionShape(s)'
      /\ \A x \in Call : CallShape(x)'
      /\ \A p \in SentPosts : Origin(p)'
  BY <1>2 DEF IInv, SessionShape, CallShape, Running, InTime, Origin, Verifies
<1> QED
  BY <1>3, <1>4, <1>5 DEF IInv, Verifies

LEMMA TickInv ==
  ASSUME IInv, Tick
  PROVE  IInv'
<1>1. /\ session' = session /\ call' = call /\ log' = log /\ pending' = pending
      /\ opening' = opening /\ doors' = doors
  BY DEF Tick, flowVars, ledgerVars
<1>2. /\ now' \in 0..Horizon /\ now <= now' /\ now \in Nat /\ now' \in Nat
  BY CsmAssumption DEF Tick, IInv, TypeOK
<1>3. SentPosts' = SentPosts
  BY <1>1, QuietLedger
<1>4. TypeOK'
  BY <1>1, <1>2 DEF IInv, TypeOK, Size, Messages
<1>5. /\ \A s \in Session : SessionShape(s)'
      /\ \A p \in SentPosts : Origin(p)'
  BY <1>1 DEF IInv, SessionShape, InTime, Origin
<1>6. ASSUME NEW x \in Call
      PROVE  CallShape(x)'
  <2>1. call[x].began \in Nat /\ call[x].began <= now
    BY CsmAssumption DEF IInv, TypeOK, CallState, CallShape
  <2>2. call[x].began <= now'
    BY <1>2, <2>1
  <2> QED
    BY <1>1, <2>2 DEF IInv, CallShape, Running, InTime, Verifies
<1> QED
  BY <1>3, <1>4, <1>5, <1>6 DEF IInv, Verifies

LEMMA StepInv ==
  ASSUME IInv, [Next]_vars
  PROVE  IInv'
<1>1. CASE \E s \in Session : SessionStep(s)
  BY <1>1, PrepareInv, TopicInv DEF SessionStep
<1>2. CASE \E x \in Call : Submit(x) \/ Proceed(x)
  BY <1>2, SubmitInv, ProceedInv
<1>3. ASSUME NEW x \in Call, SubmitElsewhere(x)
      PROVE  IInv'
  <2>1. /\ session' = session /\ now' = now /\ opening' = opening /\ doors' = doors
        /\ log' = log /\ pending' = pending /\ pending \subseteq Tx /\ Return(x, "err")
    BY <1>3 DEF SubmitElsewhere, ledgerVars, IInv, TypeOK
  <2> QED
    BY <2>1, QuietLedger, Returns
<1>4. CASE Network
  BY <1>4, NetworkInv
<1>5. CASE Tick
  BY <1>5, TickInv
<1>6. CASE UNCHANGED vars
  <2>1. /\ session' = session /\ call' = call /\ log' = log /\ pending' = pending
        /\ opening' = opening /\ doors' = doors /\ now' = now
    BY <1>6 DEF vars, flowVars, ledgerVars
  <2> QED
    BY <2>1, QuietLedger DEF IInv, TypeOK, Size, Messages, SessionShape, CallShape,
       Running, InTime, Origin, Verifies
<1> QED
  BY <1>1, <1>2, <1>3, <1>4, <1>5, <1>6 DEF Next

(* It holds in every state, for any requests, signatures and expiries.     *)
THEOREM Invariance == Spec => []IInv
<1>1. IInv /\ [Next]_vars => IInv'
  BY StepInv
<1> QED
  BY Initially, <1>1, PTL DEF Spec

(* Sessions, submissions and the ledger keep their shapes, and no          *)
(* submission looks past its last message (csm.rs 442-463).                *)
THEOREM TypeCorrect == Spec => []TypeOK
<1>1. IInv => TypeOK
  BY DEF IInv
<1> QED
  BY Invariance, <1>1, PTL

(* Whatever lists of signatures an application hands in, and however often *)
(* and late: what is sent carries the signature of the DID's key over that *)
(* very message (csm.rs 357-363, 401-409, 424-431).                        *)
THEOREM AuthenticOnly == Spec => []OnlyAuthentic
<1>1. IInv => OnlyAuthentic
  BY DEF IInv, OnlyAuthentic
<1> QED
  BY Invariance, <1>1, PTL

(* A submission that begins after the expiry sends nothing (csm.rs 391-399)*)
THEOREM ExpiredSendsNothing == Spec => []ExpiredStaysOut
<1>1. IInv => ExpiredStaysOut
  BY DEF IInv, Origin, InTime, ExpiredStaysOut
<1> QED
  BY Invariance, <1>1, PTL

(***************************************************************************)
(* Submissions as OrderedPublisher sees them.  Of each submission a number *)
(* of items is on topics, the first ones of its batch; at most one more is *)
(* under way, the next one, and its phase says which that is.              *)
(***************************************************************************)
TxsOf(x) == {tx \in pending : tx.post.call = x}

Account(x, m) ==
  /\ m \in 0..Size(x)
  /\ PublishedBy(x) = 1..m
  /\ \A tx \in TxsOf(x) : tx.post.item = m + 1 /\ m < Size(x)
  /\ \A tx, ty \in TxsOf(x) : tx = ty
  /\ call[x].phase \in {"check", "execute"} => m = call[x].next - 1 /\ TxsOf(x) = {}
  /\ call[x].phase = "receipt" =>
       m = call[x].next - 1 \/ (m = call[x].next /\ TxsOf(x) = {})
  /\ call[x].verdict = "ok" => m = Size(x) /\ TxsOf(x) = {}

Accounts(x) ==
  /\ call[x].verdict = "none" <=> call[x].phase # "done"
  /\ \E m \in Nat : Account(x, m)

AccountInv == \A x \in Call : Accounts(x)

VerdictOf(x) ==
  CASE call[x].phase = "idle"    -> "none"
    [] call[x].phase # "idle" /\ call[x].verdict = "none"
                                 -> "running"
    [] call[x].verdict = "ok"    -> "ok"
    [] OTHER                     -> "failed"

Plan == [x \in Call |-> Size(x)]
Published == [x \in Call |-> PublishedBy(x)]
Undecided == [x \in Call |-> UndecidedOf(x)]
Verdict == [x \in Call |-> VerdictOf(x)]

(* The actions of OrderedPublisher, in these terms.                        *)
LEMMA AbstractBegin ==
  ASSUME NEW x \in Call, VerdictOf(x) = "none", Size(x)' \in Nat,
         Plan' = [Plan EXCEPT ![x] = Size(x)'],
         VerdictOf(x)' \in {"running", "failed"},
         Verdict' = [Verdict EXCEPT ![x] = VerdictOf(x)'],
         Published' = Published, Undecided' = Undecided
  PROVE  Ordered!Next
<1>1. Plan'[x] = Size(x)' /\ Verdict[x] = "none" /\ Verdict'[x] = VerdictOf(x)'
  BY DEF Plan, Verdict
<1>2. Ordered!Begin(x)
  BY <1>1 DEF Ordered!Begin, Plan, Published, Undecided, Verdict, VerdictOf
<1> QED
  BY <1>2 DEF Ordered!Next

LEMMA AbstractSend ==
  ASSUME NEW x \in Call, NEW n \in 1..Size(x), VerdictOf(x) = "running",
         UndecidedOf(x) = {}, PublishedBy(x) = 1..(n - 1),
         Undecided' = [Undecided EXCEPT ![x] = {n}],
         Plan' = Plan, Published' = Published,
         Verdict' = Verdict \/ Verdict' = [Verdict EXCEPT ![x] = "failed"]
  PROVE  Ordered!Next
<1>1. Undecided[x] = {} /\ Published[x] = 1..(n - 1) /\ n \in 1..Plan[x] /\ Verdict[x] = "running"
  BY DEF Plan, Published, Undecided, Verdict
<1>2. Ordered!Offer(x)
  BY <1>1 DEF Ordered!Offer, Plan, Published, Undecided
<1>3. Ordered!Send(x) \/ Ordered!Fail(x)
  BY <1>1, <1>2 DEF Ordered!Send, Ordered!Fail, Plan, Published, Undecided, Verdict, VerdictOf
<1> QED
  BY <1>3 DEF Ordered!Next

LEMMA AbstractDecide ==
  ASSUME NEW x \in Call, NEW n, UndecidedOf(x) = {n},
         Undecided' = [Undecided EXCEPT ![x] = {}],
         Plan' = Plan, Verdict' = Verdict,
         Published' = Published \/ Published' = [Published EXCEPT ![x] = @ \cup {n}]
  PROVE  Ordered!Next
<1>1. Undecided[x] = {n}
  BY DEF Undecided
<1>2. Ordered!Appear(x) \/ Ordered!Vanish(x)
  BY <1>1 DEF Ordered!Appear, Ordered!Vanish, Plan, Published, Undecided, Verdict, VerdictOf
<1> QED
  BY <1>2 DEF Ordered!Next

LEMMA AbstractReturn ==
  ASSUME NEW x \in Call, VerdictOf(x) = "running", NEW v \in {"ok", "failed"},
         v = "ok" => PublishedBy(x) = 1..Size(x),
         Verdict' = [Verdict EXCEPT ![x] = v],
         Plan' = Plan, Published' = Published, Undecided' = Undecided
  PROVE  Ordered!Next
<1>1. Verdict[x] = "running" /\ (v = "ok" => Published[x] = 1..Plan[x])
  BY DEF Plan, Published, Verdict
<1>2. Ordered!Succeed(x) \/ Ordered!Fail(x)
  BY <1>1 DEF Ordered!Succeed, Ordered!Fail, Plan, Published, Undecided, Verdict, VerdictOf
<1> QED
  BY <1>2 DEF Ordered!Next

LEMMA AbstractStutter ==
  ASSUME Plan' = Plan, Published' = Published, Undecided' = Undecided, Verdict' = Verdict
  PROVE  UNCHANGED Ordered!vars
BY DEF Ordered!vars, Plan, Published, Undecided, Verdict, VerdictOf

(* What of the ledger a submission sees, when the ledger rests.            *)
LEMMA LedgerRests ==
  ASSUME log' = log, pending' = pending
  PROVE  /\ \A y : PublishedBy(y)' = PublishedBy(y) /\ TxsOf(y)' = TxsOf(y)
         /\ Published' = Published /\ Undecided' = Undecided
<1>1. AllPosts' = AllPosts
  BY DEF AllPosts, Posted
<1>2. /\ \A y : PublishedBy(y)' = PublishedBy(y)
      /\ \A y : UndecidedOf(y)' = UndecidedOf(y)
  BY <1>1 DEF PublishedBy, UndecidedOf
<1> QED
  BY <1>2 DEF TxsOf, Published, Undecided

LEMMA UndecidedItems ==
  ASSUME NEW x, NEW m \in Nat, Account(x, m)
  PROVE  /\ TxsOf(x) = {} => UndecidedOf(x) = {}
         /\ TxsOf(x) # {} => UndecidedOf(x) = {m + 1}
<1>1. UndecidedOf(x) = {tx.post.item : tx \in TxsOf(x)} \ 1..m
  BY DEF UndecidedOf, TxsOf, Account
<1>2. \A tx \in TxsOf(x) : tx.post.item = m + 1
  BY DEF Account
<1>3. m + 1 \notin 1..m
  OBVIOUS
<1> QED
  BY <1>1, <1>2, <1>3

(* The other submissions, when one moves on and sends at most its own item.*)
LEMMA OthersRest ==
  ASSUME AccountInv, NEW x \in Call, \A y \in Call \ {x} : call'[y] = call[y],
         \A y \in Call \ {x} : PublishedBy(y)' = PublishedBy(y) /\ TxsOf(y)' = TxsOf(y),
         Accounts(x)'
  PROVE  /\ AccountInv'
         /\ Plan' = [Plan EXCEPT ![x] = Size(x)']
         /\ Verdict' = [Verdict EXCEPT ![x] = VerdictOf(x)']
<1>1. \A y \in Call \ {x} : Size(y)' = Size(y) /\ VerdictOf(y)' = VerdictOf(y)
  BY DEF Size, VerdictOf
<1>2. ASSUME NEW y \in Call, y # x PROVE Accounts(y)'
  <2>1. Accounts(y) /\ call'[y] = call[y] /\ Size(y)' = Size(y)
    BY <1>1, <1>2 DEF AccountInv
  <2> QED
    BY <1>2, <2>1 DEF Accounts, Account
<1> QED
  BY <1>1, <1>2 DEF AccountInv, Plan, Verdict

(* A submission that moves on while the ledger rests.                      *)
LEMMA OneRests ==
  ASSUME IInv, AccountInv, NEW x \in Call, Running(x), NEW phase \in {"check", "execute"},
         NEW next, NEW m \in Nat, Account(x, m), TxsOf(x) = {}, m = next - 1,
         call' = [call EXCEPT ![x] = [call[x] EXCEPT !.phase = phase, !.next = next]],
         log' = log, pending' = pending
  PROVE  AccountInv' /\ UNCHANGED Ordered!vars
<1>1. /\ call[x] \in CallState /\ call \in [Call -> CallState]
      /\ call[x].verdict = "none" /\ call[x].phase # "idle"
  BY UnderWay DEF IInv, TypeOK, AccountInv, Accounts, Running
<1>2. /\ call'[x].phase = phase /\ call'[x].next = next /\ call'[x].verdict = "none"
      /\ call'[x].signatures = call[x].signatures
      /\ \A y \in Call \ {x} : call'[y] = call[y]
  BY <1>1 DEF CallState
<1>3. Size(x)' = Size(x) /\ VerdictOf(x)' = VerdictOf(x)
  BY <1>1, <1>2 DEF Size, VerdictOf
<1>4. Account(x, m)'
  BY <1>2, <1>3, LedgerRests DEF Account
<1>5. Accounts(x)'
  BY <1>2, <1>4 DEF Accounts
<1>6. AccountInv' /\ Plan' = Plan /\ Verdict' = Verdict
  BY <1>2, <1>3, <1>5, LedgerRests, OthersRest DEF Plan, Verdict
<1> QED
  BY <1>6, LedgerRests, AbstractStutter

(* A submission that returns while the ledger rests.                       *)
LEMMA OneReturns ==
  ASSUME IInv, AccountInv, NEW x \in Call, Running(x), NEW v \in {"ok", "err", "expired"},
         Return(x, v), log' = log, pending' = pending,
         v = "ok" => Account(x, Size(x)) /\ TxsOf(x) = {}
  PROVE  AccountInv' /\ Ordered!Next
<1>1. /\ call[x] \in CallState /\ call \in [Call -> CallState] /\ Size(x) \in Nat
      /\ call[x].verdict = "none" /\ call[x].phase # "idle"
  BY UnderWay DEF IInv, TypeOK, AccountInv, Accounts, Running, CallState
<1>2. /\ call'[x].phase = "done" /\ call'[x].verdict = v
      /\ call'[x].signatures = call[x].signatures
      /\ \A y \in Call \ {x} : call'[y] = call[y]
  BY <1>1 DEF CallState, Return
<1>3. Size(x)' = Size(x) /\ VerdictOf(x) = "running"
  BY <1>1, <1>2 DEF Size, VerdictOf
<1>4. VerdictOf(x)' = IF v = "ok" THEN "ok" ELSE "failed"
  BY <1>2 DEF VerdictOf
<1>5. \E m \in Nat : Account(x, m) /\ (v = "ok" => m = Size(x) /\ TxsOf(x) = {})
  BY <1>1 DEF AccountInv, Accounts
<1>6. Accounts(x)'
  BY <1>2, <1>3, <1>5, LedgerRests DEF Accounts, Account
<1>7. /\ AccountInv' /\ Plan' = Plan
      /\ Verdict' = [Verdict EXCEPT ![x] = IF v = "ok" THEN "ok" ELSE "failed"]
  BY <1>2, <1>3, <1>4, <1>6, LedgerRests, OthersRest DEF Plan
<1>8. v = "ok" => PublishedBy(x) = 1..Size(x)
  BY DEF Account
<1> QED
  BY <1>3, <1>7, <1>8, LedgerRests, AbstractReturn

(* An item goes out, and the submission waits for its receipt or gives up. *)
LEMMA OneSends ==
  ASSUME IInv, AccountInv, NEW x \in Call, call[x].phase = "execute", NEW heard \in BOOLEAN,
         log' = log, pending' = pending \cup {TxOf(x, heard)},
         \/ call' = [call EXCEPT ![x].phase = "receipt"]
         \/ Return(x, "err")
  PROVE  AccountInv' /\ Ordered!Next
<1> DEFINE n == call[x].next
           tx == TxOf(x, heard)
<1>1. /\ call[x] \in CallState /\ call \in [Call -> CallState]
      /\ Size(x) \in Nat /\ n \in 1..Size(x) /\ n \in Nat
      /\ call[x].verdict = "none" /\ Running(x)
  BY UnderWay DEF IInv, TypeOK, AccountInv, Accounts, Running, CallState
<1>2. Account(x, n - 1) /\ TxsOf(x) = {} /\ PublishedBy(x) = 1..(n - 1)
  BY DEF AccountInv, Accounts, Account
<1>3. UndecidedOf(x) = {}
  BY <1>1, <1>2, UndecidedItems
<1>4. tx.post.call = x /\ tx.post.item = n
  BY DEF TxOf, PostOf
<1> HIDE DEF tx
<1>5. TxsOf(x)' = {tx} /\ \A y \in Call \ {x} : TxsOf(y)' = TxsOf(y)
  BY <1>2, <1>4 DEF TxsOf, tx
<1>6. AllPosts' = AllPosts
  BY DEF AllPosts, Posted
<1>7. \A y \in Call : PublishedBy(y)' = PublishedBy(y)
  BY <1>6 DEF PublishedBy
<1>8. \A y \in Call : UndecidedOf(y) = {t.post.item : t \in TxsOf(y)} \ PublishedBy(y)
  BY DEF UndecidedOf, TxsOf
<1>9. \A y \in Call : UndecidedOf(y)' = {t.post.item : t \in TxsOf(y)'} \ PublishedBy(y)'
  BY DEF UndecidedOf, TxsOf
<1>10. UndecidedOf(x)' = {n}
  <2>1. n \notin 1..(n - 1)
    BY <1>1
  <2>2. UndecidedOf(x)' = {t.post.item : t \in {tx}} \ (1..(n - 1))
    BY <1>2, <1>5, <1>7, <1>9
  <2>3. {t.post.item : t \in {tx}} = {n}
    BY <1>4
  <2> HIDE DEF n
  <2> QED
    BY <2>1, <2>2, <2>3
<1>11. Undecided' = [Undecided EXCEPT ![x] = {n}]
  BY <1>5, <1>7, <1>8, <1>9, <1>10 DEF Undecided
<1>12. /\ call'[x].phase \in {"receipt", "done"} /\ call'[x].next = n
       /\ call'[x].verdict = IF call'[x].phase = "done" THEN "err" ELSE "none"
       /\ call'[x].signatures = call[x].signatures
       /\ \A y \in Call \ {x} : call'[y] = call[y]
  BY <1>1 DEF CallState, Return
<1>13. Size(x)' = Size(x) /\ VerdictOf(x) = "running"
  BY <1>1, <1>12 DEF Size, VerdictOf, Running
<1>14. VerdictOf(x)' \in {"running", "failed"}
  BY <1>12 DEF VerdictOf
<1>15. Account(x, n - 1)'
  <2>1. n - 1 \in 0..Size(x)' /\ PublishedBy(x)' = 1..(n - 1) /\ n - 1 < Size(x)'
        /\ tx.post.item = (n - 1) + 1
    BY <1>1, <1>2, <1>4, <1>7, <1>13
  <2>2. /\ \A t \in TxsOf(x)' : t.post.item = (n - 1) + 1 /\ n - 1 < Size(x)'
        /\ \A t, u \in TxsOf(x)' : t = u
    BY <1>5, <2>1
  <2>3. call'[x].verdict # "ok" /\ call'[x].phase \notin {"check", "execute"}
    BY <1>12
  <2> QED
    BY <1>12, <2>1, <2>2, <2>3 DEF Account
<1>16. Accounts(x)'
  <2>1. n - 1 \in Nat
    BY <1>1
  <2>2. call'[x].verdict = "none" <=> call'[x].phase # "done"
    BY <1>12
  <2>3. \E m \in Nat : Account(x, m)'
    BY <1>15, <2>1 DEF Account
  <2> QED
    BY <2>2, <2>3 DEF Accounts
<1>17. /\ AccountInv' /\ Plan' = [Plan EXCEPT ![x] = Size(x)']
       /\ Verdict' = [Verdict EXCEPT ![x] = VerdictOf(x)']
  BY <1>5, <1>7, <1>12, <1>16, OthersRest
<1>18. /\ Plan' = Plan /\ Published' = Published
       /\ Verdict' = Verdict \/ Verdict' = [Verdict EXCEPT ![x] = "failed"]
  BY <1>7, <1>13, <1>14, <1>17 DEF Plan, Published, Verdict
<1> QED
  BY <1>1, <1>2, <1>3, <1>11, <1>13, <1>17, <1>18, AbstractSend

(* The network decides about an item, also when its submission returned.   *)
LEMMA OneDecided ==
  ASSUME IInv, AccountInv, NEW tx \in pending, Decide(tx), call' = call,
         NEW x \in Call, tx.post.call = x
  PROVE  AccountInv' /\ Ordered!Next
<1>1. /\ tx.topic \in Topic /\ tx.post \in Post /\ tx \in TxsOf(x)
      /\ log \in [Topic -> Seq(Post)]
  BY DEF IInv, TypeOK, Tx, Post, TxsOf
<1>2. PICK m \in Nat : Account(x, m)
  BY <1>1 DEF AccountInv, Accounts
<1>3. /\ tx.post.item = m + 1 /\ m < Size(x) /\ TxsOf(x) = {tx}
      /\ UndecidedOf(x) = {m + 1} /\ PublishedBy(x) = 1..m /\ m \in 0..Size(x)
  BY <1>1, <1>2, UndecidedItems DEF Account
<1>4. /\ \A y \in Call \ {x} : TxsOf(y)' = TxsOf(y)
      /\ TxsOf(x)' = {}
  BY <1>3 DEF TxsOf, Decide
<1>5. /\ \A y \in Call : Size(y)' = Size(y) /\ VerdictOf(y)' = VerdictOf(y)
      /\ Plan' = Plan /\ Verdict' = Verdict
  BY DEF Size, VerdictOf, Plan, Verdict
<1>6. AllPosts' \in {AllPosts, AllPosts \cup {tx.post}}
  <2>1. CASE ~Admitted(tx)
    BY <2>1 DEF Decide, AllPosts, Posted
  <2>2. CASE Admitted(tx)
    <3>1. log' = [log EXCEPT ![tx.topic] = Append(@, tx.post)]
      BY <2>2 DEF Decide, Appended
    <3>2. ASSUME NEW t \in Topic
          PROVE  Posted(t)' = IF t = tx.topic THEN Posted(t) \cup {tx.post} ELSE Posted(t)
      <4>1. log[t] \in Seq(Post) /\ Len(log[t]) \in Nat
        BY <1>1
      <4>2. CASE t = tx.topic
        <5>1. log'[t] = Append(log[t], tx.post)
          BY <1>1, <3>1, <4>2
        <5>2. /\ Len(log'[t]) = Len(log[t]) + 1 /\ log'[t][Len(log[t]) + 1] = tx.post
              /\ \A i \in 1..Len(log[t]) : log'[t][i] = log[t][i]
          BY <1>1, <4>1, <5>1
        <5>3. 1..Len(log[t]) + 1 = 1..Len(log[t]) \cup {Len(log[t]) + 1}
          BY <4>1
        <5>4. Posted(t)' = {log'[t][i] : i \in 1..Len(log[t]) \cup {Len(log[t]) + 1}}
          BY <5>2, <5>3 DEF Posted
        <5>5. Posted(t)' = {log'[t][i] : i \in 1..Len(log[t])} \cup {tx.post}
          BY <5>2, <5>4
        <5>6. {log'[t][i] : i \in 1..Len(log[t])} = Posted(t)
          BY <5>2 DEF Posted
        <5> QED
          BY <4>2, <5>5, <5>6
      <4>3. CASE t # tx.topic
        BY <1>1, <3>1, <4>3 DEF Posted
      <4> QED
        BY <4>2, <4>3
    <3>3. AllPosts' = AllPosts \cup {tx.post}
      BY <1>1, <3>2 DEF AllPosts
    <3> QED
      BY <3>3
  <2> QED
    BY <2>1, <2>2
<1>7. /\ \A y \in Call \ {x} : PublishedBy(y)' = PublishedBy(y)
      /\ PublishedBy(x)' \in {1..m, (1..m) \cup {m + 1}}
  BY <1>3, <1>6 DEF PublishedBy
<1>8. \A y \in Call : UndecidedOf(y)' = {t.post.item : t \in TxsOf(y)'} \ PublishedBy(y)'
  BY DEF UndecidedOf, TxsOf
<1>9. UndecidedOf(x)' = {} /\ \A y \in Call \ {x} : UndecidedOf(y)' = UndecidedOf(y)
  BY <1>1, <1>4, <1>7, <1>8 DEF UndecidedOf, TxsOf
<1>10. Undecided' = [Undecided EXCEPT ![x] = {}]
  BY <1>9 DEF Undecided
<1>11. \/ Published' = Published
       \/ Published' = [Published EXCEPT ![x] = @ \cup {m + 1}]
  BY <1>1, <1>3, <1>7 DEF Published
<1>12. Accounts(x)'
  <2>1. call[x].phase \notin {"check", "execute"} /\ call[x].verdict # "ok"
        /\ (call[x].phase = "receipt" => m = call[x].next - 1)
    BY <1>2, <1>3 DEF Account
  <2>2. call[x].phase = "receipt" => call[x].next \in Nat
    BY <1>1 DEF IInv, TypeOK, CallState
  <2>3. PublishedBy(x)' = 1..m => Account(x, m)'
    BY <1>3, <1>4, <1>5, <2>1 DEF Account
  <2>4. PublishedBy(x)' = 1..(m + 1) => Account(x, m + 1)'
    <3>1. Size(x)' \in Nat
      BY <1>1, <1>5 DEF IInv, TypeOK, CallState, Size
    <3>2. m + 1 \in 0..Size(x)'
      BY <1>3, <1>5, <3>1
    <3>3. call[x].phase = "receipt" => m + 1 = call[x].next
      BY <2>1, <2>2
    <3> QED
      BY <1>4, <2>1, <3>2, <3>3 DEF Account
  <2>5. (1..m) \cup {m + 1} = 1..(m + 1)
    OBVIOUS
  <2>6. \E k \in Nat : Account(x, k)'
    <3>1. CASE PublishedBy(x)' = 1..m
      BY <2>3, <3>1 DEF Account
    <3>2. CASE PublishedBy(x)' = 1..(m + 1)
      <4>1. m + 1 \in Nat /\ Account(x, m + 1)'
        BY <2>4, <3>2
      <4> QED
        BY <4>1 DEF Account
    <3> QED
      BY <1>7, <2>5, <3>1, <3>2
  <2>7. call'[x].verdict = "none" <=> call'[x].phase # "done"
    BY <1>1 DEF AccountInv, Accounts
  <2> QED
    BY <2>6, <2>7 DEF Accounts
<1>13. AccountInv'
  BY <1>1, <1>4, <1>7, <1>12, OthersRest
<1> QED
  BY <1>1, <1>3, <1>5, <1>10, <1>11, <1>13, AbstractDecide

(* A submission begins, or is turned away before it has anything to send.  *)
LEMMA OneBegins ==
  ASSUME IInv, AccountInv, NEW x \in Call, Submit(x) \/ SubmitElsewhere(x)
  PROVE  AccountInv' /\ Ordered!Next
<1>1. /\ call[x].phase = "idle" /\ log' = log /\ pending' = pending
      /\ call \in [Call -> CallState] /\ call[x] \in CallState
  BY DEF Submit, SubmitElsewhere, ledgerVars, IInv, TypeOK
<1>2. Size(x) = 0 /\ PublishedBy(x) = {} /\ TxsOf(x) = {} /\ VerdictOf(x) = "none"
  <2>1. PICK m \in Nat : Account(x, m)
    BY DEF AccountInv, Accounts
  <2>2. Size(x) = 0 /\ m = 0
    BY <1>1, <2>1 DEF Size, Account
  <2>3. TxsOf(x) = {} /\ PublishedBy(x) = 1..0
    BY <2>1, <2>2 DEF Account
  <2>4. 1..0 = {}
    OBVIOUS
  <2>5. call[x].verdict = "none"
    BY <1>1 DEF AccountInv, Accounts
  <2>6. VerdictOf(x) = "none"
    BY <1>1, <2>5 DEF VerdictOf
  <2> QED
    BY <2>2, <2>3, <2>4, <2>6
<1>3. IInv'
  <2>1. [Next]_vars
    BY DEF Next
  <2> QED
    BY <2>1, StepInv
<1>4. /\ \A y \in Call \ {x} : call'[y] = call[y]
      /\ \/ /\ call'[x].phase = "check" /\ call'[x].verdict = "none" /\ call'[x].next = 1
         \/ /\ call'[x].phase = "done" /\ call'[x].verdict = "err"
  BY <1>1 DEF Submit, SubmitElsewhere, Return, CallState
<1>5. Size(x)' \in Nat /\ VerdictOf(x)' \in {"running", "failed"}
  <2>1. call'[x] \in CallState
    BY <1>3 DEF IInv, TypeOK
  <2>2. Len(call'[x].signatures) \in Nat
    BY <2>1 DEF CallState
  <2> QED
    BY <1>4, <2>2 DEF Size, VerdictOf
<1>6. Account(x, 0)'
  <2>1. TxsOf(x)' = {} /\ PublishedBy(x)' = 1..0 /\ 0 \in 0..Size(x)'
    BY <1>1, <1>2, <1>5, LedgerRests
  <2> QED
    BY <1>4, <2>1 DEF Account
<1>7. Accounts(x)'
  BY <1>4, <1>6 DEF Accounts, Account
<1>8. /\ AccountInv' /\ Plan' = [Plan EXCEPT ![x] = Size(x)']
      /\ Verdict' = [Verdict EXCEPT ![x] = VerdictOf(x)']
  BY <1>1, <1>4, <1>7, LedgerRests, OthersRest
<1> QED
  BY <1>1, <1>2, <1>5, <1>8, LedgerRests, AbstractBegin

LEMMA OneProceeds ==
  ASSUME IInv, AccountInv, NEW x \in Call, Proceed(x)
  PROVE  AccountInv' /\ [Ordered!Next]_Ordered!vars
<1> DEFINE n == call[x].next
<1>1. /\ Running(x) /\ call[x] \in CallState /\ n \in 1..Size(x) /\ n \in Nat /\ Size(x) \in Nat
      /\ call \in [Call -> CallState]
  <2>1. Running(x)
    BY DEF Proceed, ItemAccepted, ItemRejected, ExecuteTaken, ExecuteFails, ReceiptSucceeds,
       ReceiptFails, Running
  <2> QED
    BY <2>1, UnderWay DEF CallState, IInv, TypeOK
<1>2. PICK m \in Nat : Account(x, m)
  BY DEF AccountInv, Accounts
<1>3. CASE ItemAccepted(x)
  <2>1. /\ call' = [call EXCEPT ![x] = [call[x] EXCEPT !.phase = "execute", !.next = n]]
        /\ log' = log /\ pending' = pending
    BY <1>1, <1>3 DEF ItemAccepted, CallState, ledgerVars
  <2>2. m = n - 1 /\ TxsOf(x) = {}
    BY <1>2, <1>3 DEF ItemAccepted, Account
  <2> QED
    BY <1>1, <1>2, <2>1, <2>2, OneRests
<1>4. CASE ItemRejected(x) \/ ReceiptFails(x)
  <2>1. log' = log /\ pending' = pending /\ \E v \in {"err", "expired"} : Return(x, v)
    BY <1>4 DEF ItemRejected, ReceiptFails, ledgerVars
  <2> QED
    BY <1>1, <2>1, OneReturns
<1>5. CASE ExecuteTaken(x)
  BY <1>5, OneSends DEF ExecuteTaken
<1>6. CASE ExecuteFails(x)
  <2>1. CASE pending' = pending
    BY <1>1, <1>6, <2>1, OneReturns DEF ExecuteFails
  <2>2. CASE pending' = pending \cup {TxOf(x, FALSE)}
    BY <1>6, <2>2, OneSends DEF ExecuteFails
  <2> QED
    BY <1>6, <2>1, <2>2 DEF ExecuteFails
<1>7. CASE ReceiptSucceeds(x)
  <2>1. log' = log /\ pending' = pending /\ call[x].phase = "receipt" /\ Landed(x)
    BY <1>7 DEF ReceiptSucceeds, ledgerVars
  <2>2. n \in PublishedBy(x)
    <3>1. session[call[x].session].topic \in Topic
      BY <1>1, UnderWay DEF IInv, SessionShape
    <3>2. PostOf(x, TRUE) \in AllPosts /\ PostOf(x, TRUE).call = x /\ PostOf(x, TRUE).item = n
      BY <2>1, <3>1 DEF Landed, AllPosts, PostOf
    <3> QED
      BY <3>2 DEF PublishedBy
  <2>3. m = n /\ TxsOf(x) = {}
    <3>1. n \in 1..m
      BY <1>2, <2>2 DEF Account
    <3> QED
      BY <1>1, <1>2, <2>1, <3>1 DEF Account
  <2>4. CASE n = Size(x)
    <3>1. Return(x, "ok")
      BY <1>7, <2>4 DEF ReceiptSucceeds
    <3> QED
      BY <1>1, <1>2, <2>1, <2>3, <2>4, <3>1, OneReturns
  <2>5. CASE n # Size(x)
    <3>1. call' = [call EXCEPT ![x] = [call[x] EXCEPT !.phase = "check", !.next = n + 1]]
      BY <1>1, <1>7, <2>5 DEF ReceiptSucceeds, CallState
    <3>2. m = (n + 1) - 1
      BY <1>1, <2>3
    <3> QED
      BY <1>1, <1>2, <2>1, <2>3, <3>1, <3>2, OneRests
  <2> QED
    BY <2>4, <2>5
<1> QED
  BY <1>3, <1>4, <1>5, <1>6, <1>7 DEF Proceed

(* Whatever else happens, no submission sees it.                           *)
LEMMA NoneMoves ==
  ASSUME AccountInv, call' = call, log' = log, pending' = pending
  PROVE  AccountInv' /\ UNCHANGED Ordered!vars
<1>1. /\ \A y \in Call : Size(y)' = Size(y) /\ VerdictOf(y)' = VerdictOf(y)
      /\ Plan' = Plan /\ Verdict' = Verdict
  BY DEF Size, VerdictOf, Plan, Verdict
<1>2. AccountInv'
  BY <1>1, LedgerRests DEF AccountInv, Accounts, Account
<1> QED
  BY <1>1, <1>2, LedgerRests, AbstractStutter

LEMMA StepOrdered ==
  ASSUME IInv, AccountInv, [Next]_vars
  PROVE  AccountInv' /\ [Ordered!Next]_Ordered!vars
<1>1. CASE \E x \in Call : Submit(x) \/ SubmitElsewhere(x)
  BY <1>1, OneBegins
<1>2. CASE \E x \in Call : Proceed(x)
  BY <1>2, OneProceeds
<1>3. CASE Network
  <2>1. CASE \E tx \in pending : Decide(tx)
    <3>1. \A tx \in pending : tx.post.call \in Call
      BY DEF IInv, TypeOK, Tx, Post
    <3> QED
      BY <1>3, <2>1, <3>1, OneDecided DEF Network, flowVars
  <2>2. CASE \E d \in opening : OpenTopic(d)
    BY <1>3, <2>2, NoneMoves DEF OpenTopic, Network, flowVars
  <2> QED
    BY <1>3, <2>1, <2>2 DEF Network, Consensus
<1>4. CASE (\E s \in Session : SessionStep(s)) \/ Tick \/ UNCHANGED vars
  <2>1. call' = call /\ log' = log /\ pending' = pending
    BY <1>4 DEF SessionStep, PrepareCreate, PrepareUpdate, PrepareDeactivate, Prepare,
       TopicTaken, TopicFails, TopicConfirmed, TopicUnconfirmed, Tick, vars, ledgerVars, flowVars
  <2> QED
    BY <2>1, NoneMoves
<1> QED
  BY <1>1, <1>2, <1>3, <1>4 DEF Next

LEMMA InitiallyOrdered == Init => AccountInv /\ Ordered!Init
<1> SUFFICES ASSUME Init PROVE AccountInv /\ Ordered!Init
  OBVIOUS
<1>1. AllPosts = {} /\ pending = {}
  BY DEF Init, LedgerInit, AllPosts, Posted
<1>2. ASSUME NEW x \in Call
      PROVE  /\ Size(x) = 0 /\ PublishedBy(x) = {} /\ UndecidedOf(x) = {} /\ TxsOf(x) = {}
             /\ VerdictOf(x) = "none"
             /\ call[x].phase = "idle" /\ call[x].verdict = "none"
  BY <1>1 DEF Init, NewCall, Size, PublishedBy, UndecidedOf, TxsOf, VerdictOf
<1>3. \A x \in Call : Account(x, 0)
  BY <1>2 DEF Account
<1>4. AccountInv
  BY <1>2, <1>3 DEF AccountInv, Accounts
<1>5. Ordered!Init
  BY <1>2 DEF Ordered!Init, VerdictOf
<1> QED
  BY <1>4, <1>5

(* Client-side signing publishes as OrderedPublisher says, for any number  *)
(* of sessions, submissions and items, whatever the network does.          *)
THEOREM Refinement == Spec => PublishesInOrder
<1>1. Init => IInv /\ AccountInv /\ Ordered!Init
  BY Initially, InitiallyOrdered
<1>2. IInv /\ AccountInv /\ [Next]_vars => IInv' /\ AccountInv' /\ [Ordered!Next]_Ordered!vars
  BY StepInv, StepOrdered
<1> QED
  BY <1>1, <1>2, PTL DEF Spec, PublishesInOrder, Ordered!Spec

(***************************************************************************)
(* How batches lie on their topics: a submission has a signature for each  *)
(* message of a session that was prepared, what it sends goes to the topic *)
(* of that session, and of what it sent the items lie in order.            *)
(***************************************************************************)
Paired(x) ==
  /\ call[x].verdict = "ok" => call[x].signatures # <<>>
  /\ call[x].signatures # <<>> =>
       /\ call[x].phase # "idle"
       /\ call[x].session \in Session
       /\ session[call[x].session].phase = "prepared"
       /\ Len(call[x].signatures) = Len(Messages(call[x].session))

TopicOf(x) == session[call[x].session].topic

Sited ==
  /\ \A t \in Topic : \A i \in 1..Len(log[t]) : TopicOf(log[t][i].call) = t
  /\ \A tx \in pending : TopicOf(tx.post.call) = tx.topic

ItemsBefore(t, i, x) == {log[t][k].item : k \in {j \in 1..(i - 1) : log[t][j].call = x}}

InLine(t) ==
  \A i \in 1..Len(log[t]) :
    ItemsBefore(t, i, log[t][i].call) = 1..(log[t][i].item - 1)

LineInv ==
  /\ \A x \in Call : Paired(x)
  /\ Sited
  /\ \A t \in Topic : InLine(t)

(* A prepared session stays as it is; a submission keeps its session and   *)
(* its signatures.                                                         *)
LEMMA PreparedStays ==
  ASSUME IInv, [Next]_vars, NEW s \in Session, session[s].phase = "prepared"
  PROVE  session'[s] = session[s]
<1>1. session \in [Session -> SessionState]
  BY DEF IInv, TypeOK
<1>2. CASE \E z \in Session : SessionStep(z)
  BY <1>1, <1>2 DEF SessionStep, PrepareCreate, PrepareUpdate, PrepareDeactivate, Prepare,
     TopicTaken, TopicFails, TopicConfirmed, TopicUnconfirmed
<1>3. CASE session' = session
  BY <1>3
<1> QED
  BY <1>2, <1>3 DEF Next, Submit, SubmitElsewhere, Proceed, ItemAccepted, ItemRejected,
     ExecuteTaken, ExecuteFails, ReceiptSucceeds, ReceiptFails, Network, Tick, vars, flowVars

LEMMA CallKeeps ==
  ASSUME IInv, [Next]_vars, NEW x \in Call, call[x].phase # "idle"
  PROVE  /\ call'[x].phase # "idle"
         /\ call'[x].session = call[x].session
         /\ call'[x].signatures = call[x].signatures
<1>1. call \in [Call -> CallState]
  BY DEF IInv, TypeOK
<1>2. CASE call' = call
  BY <1>2
<1>3. ASSUME NEW y \in Call, Submit(y) \/ SubmitElsewhere(y)
      PROVE  call'[x] = call[x]
  BY <1>1, <1>3 DEF Submit, SubmitElsewhere, Return
<1>4. ASSUME NEW y \in Call, Proceed(y)
      PROVE  /\ call'[x].phase # "idle"
             /\ call'[x].session = call[x].session
             /\ call'[x].signatures = call[x].signatures
  <2>1. ASSUME NEW v, Return(y, v)
        PROVE  /\ call'[x].phase # "idle"
               /\ call'[x].session = call[x].session
               /\ call'[x].signatures = call[x].signatures
    BY <1>1, <2>1 DEF Return, CallState
  <2>2. ASSUME NEW phase \in {"check", "execute", "receipt"}, NEW next,
               call' = [call EXCEPT ![y] = [call[y] EXCEPT !.phase = phase, !.next = next]]
        PROVE  /\ call'[x].phase # "idle"
               /\ call'[x].session = call[x].session
               /\ call'[x].signatures = call[x].signatures
    BY <1>1, <2>2 DEF CallState
  <2>3. ASSUME NEW phase \in {"check", "execute", "receipt"},
               call' = [call EXCEPT ![y].phase = phase]
        PROVE  /\ call'[x].phase # "idle"
               /\ call'[x].session = call[x].session
               /\ call'[x].signatures = call[x].signatures
    BY <1>1, <2>3 DEF CallState
  <2> QED
    BY <1>4, <2>1, <2>2, <2>3 DEF Proceed, ItemAccepted, ItemRejected, ExecuteTaken,
       ExecuteFails, ReceiptSucceeds, ReceiptFails
<1> QED
  BY <1>2, <1>3, <1>4 DEF Next, SessionStep, PrepareCreate, PrepareUpdate,
     PrepareDeactivate, Prepare, TopicTaken, TopicFails, TopicConfirmed, TopicUnconfirmed,
     Network, Tick, vars, flowVars

(* A submission that returned stays as it is, and no other that has no     *)
(* signatures succeeds.                                                    *)
LEMMA DoneStays ==
  ASSUME IInv, [Next]_vars, NEW x \in Call, call[x].phase \in {"idle", "done"}
  PROVE  \/ call'[x] = call[x]
         \/ call[x].phase = "idle" /\ (Submit(x) \/ SubmitElsewhere(x))
<1>1. call \in [Call -> CallState]
  BY DEF IInv, TypeOK
<1>2. \A y \in Call : Proceed(y) => y # x
  BY DEF Proceed, ItemAccepted, ItemRejected, ExecuteTaken, ExecuteFails, ReceiptSucceeds,
     ReceiptFails
<1>3. ASSUME NEW y \in Call, y # x, Submit(y) \/ SubmitElsewhere(y) \/ Proceed(y)
      PROVE  call'[x] = call[x]
  BY <1>1, <1>3 DEF Submit, SubmitElsewhere, Proceed, ItemAccepted, ItemRejected,
     ExecuteTaken, ExecuteFails, ReceiptSucceeds, ReceiptFails, Return
<1>4. CASE \E y \in Call : Submit(y) \/ SubmitElsewhere(y) \/ Proceed(y)
  BY <1>2, <1>3, <1>4 DEF Submit, SubmitElsewhere
<1>5. CASE call' = call
  BY <1>5
<1> QED
  BY <1>4, <1>5 DEF Next, SessionStep, PrepareCreate, PrepareUpdate,
     PrepareDeactivate, Prepare, TopicTaken, TopicFails, TopicConfirmed, TopicUnconfirmed,
     Network, Tick, vars, flowVars

LEMMA RunningSigned ==
  ASSUME IInv, NEW x \in Call, Running(x)
  PROVE  call[x].signatures # <<>>
<1>1. Len(call[x].signatures) \in Nat /\ call[x].next \in 1..Len(call[x].signatures)
  BY UnderWay DEF CallState
<1> QED
  BY <1>1

LEMMA PairedStays ==
  ASSUME IInv, [Next]_vars, NEW x \in Call, Paired(x)
  PROVE  Paired(x)'
<1>1. CASE call[x].phase # "idle"
  <2>1. /\ call'[x].phase # "idle"
        /\ call'[x].session = call[x].session
        /\ call'[x].signatures = call[x].signatures
    BY <1>1, CallKeeps
  <2>2. ASSUME call[x].signatures # <<>>
        PROVE  session'[call[x].session] = session[call[x].session]
    BY <2>2, PreparedStays DEF Paired
  <2>3. call'[x].verdict = "ok" => call[x].signatures # <<>>
    <3>1. CASE Running(x)
      BY <3>1, RunningSigned
    <3>2. CASE call[x].phase = "done"
      BY <3>2, DoneStays DEF Paired
    <3> QED
      BY <1>1, <3>1, <3>2 DEF IInv, TypeOK, CallState, Running
  <2> QED
    BY <2>1, <2>2, <2>3 DEF Paired, Messages
<1>2. CASE call[x].phase = "idle" /\ call'[x] = call[x]
  BY <1>2 DEF Paired
<1>3. CASE Submit(x)
  <2>1. PICK s \in Target[x] :
          /\ session[s].phase = "prepared"
          /\ \E k \in Operator : \E g \in SignatureLists(x, s) :
               call' = [call EXCEPT ![x] =
                 [phase |-> "check", verdict |-> "none", session |-> s,
                  signatures |-> g, operator |-> k, next |-> 1, began |-> now]]
    BY <1>3 DEF Submit
  <2>2. PICK k \in Operator, g \in SignatureLists(x, s) :
          call' = [call EXCEPT ![x] =
            [phase |-> "check", verdict |-> "none", session |-> s,
             signatures |-> g, operator |-> k, next |-> 1, began |-> now]]
    BY <2>1
  <2>3. s \in Session
    BY CsmAssumption
  <2>4. Len(Messages(s)) \in Nat /\ session' = session
    BY <1>3, <2>1, <2>3 DEF IInv, SessionShape, Messages, Submit
  <2>5. Len(g) = Len(Messages(s))
    BY <2>3, <2>4, SignatureListsType
  <2>6. /\ call'[x].phase = "check" /\ call'[x].session = s /\ call'[x].signatures = g
        /\ call'[x].verdict = "none"
    BY <2>2 DEF IInv, TypeOK
  <2> QED
    BY <2>1, <2>3, <2>4, <2>5, <2>6 DEF Paired, Messages
<1>4. CASE SubmitElsewhere(x)
  <2>1. /\ call'[x].signatures = call[x].signatures /\ call[x].phase = "idle"
        /\ call'[x].verdict = "err"
    BY <1>4 DEF SubmitElsewhere, Return, IInv, TypeOK, CallState
  <2> QED
    BY <2>1 DEF Paired
<1> QED
  BY <1>1, <1>2, <1>3, <1>4, DoneStays

(* What a step does to the ledger.                                         *)
LEMMA LedgerMoves ==
  ASSUME [Next]_vars
  PROVE  \/ /\ log' = log
            /\ \A tx \in pending' :
                 \/ tx \in pending
                 \/ \E x \in Call, heard \in BOOLEAN :
                      call[x].phase = "execute" /\ tx = TxOf(x, heard)
         \/ \E tx \in pending : Decide(tx) /\ Appended(tx)
<1>1. CASE \E x \in Call : Proceed(x)
  BY <1>1 DEF Proceed, ItemAccepted, ItemRejected, ExecuteTaken, ExecuteFails, ReceiptSucceeds,
     ReceiptFails, ledgerVars
<1>2. CASE Network
  BY <1>2 DEF Network, Consensus, OpenTopic, Decide
<1>3. CASE log' = log /\ pending' = pending
  BY <1>3
<1> QED
  BY <1>1, <1>2, <1>3 DEF Next, SessionStep, PrepareCreate, PrepareUpdate,
     PrepareDeactivate, Prepare, TopicTaken, TopicFails, TopicConfirmed, TopicUnconfirmed,
     Submit, SubmitElsewhere, Tick, vars, ledgerVars

(* What was sent stays where it belongs.                                   *)
LEMMA SentStays ==
  ASSUME IInv, [Next]_vars, NEW p \in SentPosts
  PROVE  /\ p.call \in Call
         /\ TopicOf(p.call)' = TopicOf(p.call)
<1>1. Origin(p)
  BY DEF IInv
<1>2. call'[p.call].session = call[p.call].session
  BY <1>1, CallKeeps DEF Origin
<1>3. session'[call[p.call].session] = session[call[p.call].session]
  BY <1>1, PreparedStays DEF Origin
<1> QED
  BY <1>1, <1>2, <1>3 DEF Origin, TopicOf

LEMMA OnTopic ==
  ASSUME NEW t \in Topic, NEW i \in 1..Len(log[t])
  PROVE  log[t][i] \in AllPosts /\ log[t][i] \in SentPosts
BY DEF AllPosts, Posted, SentPosts

LEMMA AppendedTo ==
  ASSUME IInv, NEW tx \in pending, Appended(tx)
  PROVE  /\ tx.topic \in Topic /\ tx.post \in Post
         /\ \A t \in Topic \ {tx.topic} : log'[t] = log[t]
         /\ Len(log[tx.topic]) \in Nat
         /\ Len(log'[tx.topic]) = Len(log[tx.topic]) + 1
         /\ log'[tx.topic][Len(log[tx.topic]) + 1] = tx.post
         /\ \A i \in 1..Len(log[tx.topic]) : log'[tx.topic][i] = log[tx.topic][i]
<1>1. /\ log \in [Topic -> Seq(Post)]
      /\ tx.topic \in Topic /\ tx.post \in Post
  BY DEF IInv, TypeOK, Tx
<1>2. log'[tx.topic] = Append(log[tx.topic], tx.post) /\ log[tx.topic] \in Seq(Post)
  BY <1>1 DEF Appended
<1> QED
  BY <1>1, <1>2 DEF Appended

LEMMA SitedStays ==
  ASSUME IInv, Sited, [Next]_vars
  PROVE  Sited'
<1> DEFINE Now(c) == session'[call'[c].session].topic
<1>1. ASSUME NEW tx \in pending PROVE Now(tx.post.call) = tx.topic
  <2> DEFINE p == tx.post
  <2>1. p \in SentPosts /\ TopicOf(p.call) = tx.topic
    BY DEF Sited, SentPosts
  <2> HIDE DEF p
  <2>2. Now(p.call) = tx.topic
    BY <2>1, SentStays DEF TopicOf
  <2> QED
    BY <2>2 DEF p
<1>2. ASSUME NEW t \in Topic, NEW i \in 1..Len(log[t])
      PROVE  Now(log[t][i].call) = t
  <2> DEFINE p == log[t][i]
  <2>1. p \in SentPosts /\ TopicOf(p.call) = t
    BY OnTopic DEF Sited
  <2> HIDE DEF p
  <2>2. Now(p.call) = t
    BY <2>1, SentStays DEF TopicOf
  <2> QED
    BY <2>2 DEF p
<1>3. ASSUME NEW x \in Call, NEW heard \in BOOLEAN, call[x].phase = "execute"
      PROVE  Now(TxOf(x, heard).post.call) = TxOf(x, heard).topic
  <2>1. call[x].session \in Session /\ session[call[x].session].phase = "prepared"
    BY <1>3, UnderWay DEF Running
  <2>2. /\ call'[x].session = call[x].session
        /\ session'[call[x].session] = session[call[x].session]
    BY <1>3, <2>1, CallKeeps, PreparedStays
  <2> QED
    BY <2>2 DEF TxOf, PostOf
<1> HIDE DEF Now
<1>4. CASE /\ log' = log
           /\ \A tx \in pending' :
                \/ tx \in pending
                \/ \E x \in Call, heard \in BOOLEAN :
                     call[x].phase = "execute" /\ tx = TxOf(x, heard)
  <2>1. \A tx \in pending' : Now(tx.post.call) = tx.topic
    BY <1>1, <1>3, <1>4
  <2> QED
    BY <1>2, <1>4, <2>1 DEF Sited, TopicOf, Now
<1>5. ASSUME NEW tx \in pending, Decide(tx), Appended(tx)
      PROVE  Sited'
  <2>1. \A y \in pending' : Now(y.post.call) = y.topic
    BY <1>1, <1>5 DEF Decide
  <2>2. ASSUME NEW t \in Topic, NEW i \in 1..Len(log'[t])
        PROVE  Now(log'[t][i].call) = t
    <3>1. CASE t # tx.topic
      BY <1>2, <1>5, <3>1, AppendedTo
    <3>2. CASE t = tx.topic /\ i \in 1..Len(log[t])
      BY <1>2, <1>5, <3>2, AppendedTo
    <3>3. CASE t = tx.topic /\ i = Len(log[t]) + 1
      BY <1>1, <1>5, <3>3, AppendedTo
    <3> QED
      BY <1>5, <3>1, <3>2, <3>3, AppendedTo
  <2> QED
    BY <2>1, <2>2 DEF Sited, TopicOf, Now
<1> QED
  BY <1>4, <1>5, LedgerMoves

(* All of a submission's posts are on its topic.                           *)
LEMMA PublishedOnTopic ==
  ASSUME IInv, Sited, NEW t \in Topic, NEW x \in Call, TopicOf(x) = t
  PROVE  ItemsBefore(t, Len(log[t]) + 1, x) = PublishedBy(x)
<1>1. Len(log[t]) \in Nat
  BY DEF IInv, TypeOK
<1>2. 1..((Len(log[t]) + 1) - 1) = 1..Len(log[t])
  BY <1>1
<1>3. ASSUME NEW n \in PublishedBy(x)
      PROVE  n \in ItemsBefore(t, Len(log[t]) + 1, x)
  <2>1. PICK p \in AllPosts : p.call = x /\ n = p.item
    BY DEF PublishedBy
  <2>2. PICK z \in Topic : \E i \in 1..Len(log[z]) : p = log[z][i]
    BY DEF AllPosts, Posted
  <2>3. PICK i \in 1..Len(log[z]) : p = log[z][i]
    BY <2>2
  <2>4. z = t
    BY <2>1, <2>3 DEF Sited
  <2> QED
    BY <1>2, <2>1, <2>3, <2>4 DEF ItemsBefore
<1>4. ASSUME NEW n \in ItemsBefore(t, Len(log[t]) + 1, x)
      PROVE  n \in PublishedBy(x)
  <2>1. PICK j \in 1..Len(log[t]) : log[t][j].call = x /\ n = log[t][j].item
    BY <1>2 DEF ItemsBefore
  <2> QED
    BY <2>1, OnTopic DEF PublishedBy
<1> QED
  BY <1>3, <1>4

LEMMA InLineStays ==
  ASSUME IInv, AccountInv, Sited, [Next]_vars, NEW t \in Topic, InLine(t)
  PROVE  InLine(t)'
<1>1. CASE log'[t] = log[t]
  BY <1>1 DEF InLine, ItemsBefore
<1>2. ASSUME NEW tx \in pending, Decide(tx), Appended(tx), t = tx.topic
      PROVE  InLine(t)'
  <2> DEFINE L == Len(log[t])
  <2>1. /\ L \in Nat /\ Len(log'[t]) = L + 1 /\ log'[t][L + 1] = tx.post
        /\ \A i \in 1..L : log'[t][i] = log[t][i]
        /\ tx.post \in Post
    BY <1>2, AppendedTo
  <2> DEFINE Then(i, x) == {log'[t][k].item : k \in {j \in 1..(i - 1) : log'[t][j].call = x}}
  <2>2. ASSUME NEW i \in 1..(L + 1), NEW x
        PROVE  Then(i, x) = ItemsBefore(t, i, x)
    <3>1. \A j \in 1..(i - 1) : log'[t][j] = log[t][j]
      BY <2>1, <2>2
    <3> QED
      BY <3>1 DEF ItemsBefore
  <2> HIDE DEF Then
  <2>3. ASSUME NEW i \in 1..L
        PROVE  Then(i, log'[t][i].call) = 1..(log'[t][i].item - 1)
    <3>1. log'[t][i] = log[t][i] /\ i \in 1..(L + 1)
      BY <2>1
    <3>2. ItemsBefore(t, i, log[t][i].call) = 1..(log[t][i].item - 1)
      BY DEF InLine
    <3> QED
      BY <2>2, <3>1, <3>2
  <2>4. Then(L + 1, tx.post.call) = 1..(tx.post.item - 1)
    <3>1. tx.post.call \in Call /\ tx.post.item \in Nat /\ L + 1 \in 1..(L + 1)
      BY <2>1 DEF Post
    <3>2. PICK m \in Nat : Account(tx.post.call, m)
      BY <3>1 DEF AccountInv, Accounts
    <3>3. tx.post.item = m + 1 /\ PublishedBy(tx.post.call) = 1..m
      BY <3>2 DEF Account, TxsOf
    <3>4. TopicOf(tx.post.call) = t
      BY <1>2 DEF Sited
    <3>5. ItemsBefore(t, L + 1, tx.post.call) = PublishedBy(tx.post.call)
      BY <3>1, <3>4, PublishedOnTopic
    <3>6. Then(L + 1, tx.post.call) = ItemsBefore(t, L + 1, tx.post.call)
      BY <2>2, <3>1
    <3> QED
      BY <3>3, <3>5, <3>6
  <2>5. \A i \in 1..(L + 1) : Then(i, log'[t][i].call) = 1..(log'[t][i].item - 1)
    BY <2>1, <2>3, <2>4
  <2> QED
    BY <2>1, <2>5 DEF InLine, ItemsBefore, Then
<1> QED
  BY <1>1, <1>2, LedgerMoves, AppendedTo

LEMMA StepLined ==
  ASSUME IInv, AccountInv, LineInv, [Next]_vars
  PROVE  LineInv'
BY PairedStays, SitedStays, InLineStays DEF LineInv

LEMMA InitiallyLined == Init => LineInv
<1> SUFFICES ASSUME Init PROVE LineInv
  OBVIOUS
<1>1. \A x \in Call : Paired(x)
  BY DEF Init, NewCall, Paired
<1>2. pending = {} /\ \A t \in Topic : Len(log[t]) = 0
  BY DEF Init, LedgerInit
<1> QED
  BY <1>1, <1>2 DEF LineInv, Sited, InLine

(* What is on a topic is an item of the batch of its submission.           *)
LEMMA OnTopicItem ==
  ASSUME IInv, AccountInv, LineInv, NEW t \in Topic, NEW i \in 1..Len(log[t])
  PROVE  LET p == log[t][i]
             s == call[p.call].session
         IN  /\ p.call \in Call
             /\ s \in Session /\ session[s].phase = "prepared"
             /\ Len(Messages(s)) \in Nat \ {0}
             /\ p.item \in 1..Len(Messages(s))
             /\ Size(p.call) = Len(Messages(s))
             /\ Verifies(p.signature, p.item)
<1> DEFINE p == log[t][i]
           s == call[p.call].session
<1>1. p \in AllPosts /\ p \in SentPosts
  BY OnTopic
<1> HIDE DEF p
<1>2. Origin(p) /\ Verifies(p.signature, p.item)
  BY <1>1 DEF IInv
<1>3. p.call \in Call /\ s \in Session /\ session[s].phase = "prepared" /\ call[p.call].phase # "idle"
  BY <1>2 DEF Origin
<1>4. Len(Messages(s)) \in Nat \ {0}
  BY <1>3 DEF IInv, SessionShape, Messages
<1>5. PICK m \in Nat : Account(p.call, m)
  BY <1>3 DEF AccountInv, Accounts
<1>6. p.item \in 1..m /\ m \in 0..Size(p.call)
  BY <1>1, <1>5 DEF Account, PublishedBy
<1>7. call[p.call].signatures \in Seq(Signature)
  BY <1>3 DEF IInv, TypeOK, CallState
<1>8. Size(p.call) = Len(call[p.call].signatures) /\ Size(p.call) \in Nat
  BY <1>3, <1>7 DEF Size
<1>9. call[p.call].signatures # <<>>
  BY <1>6, <1>8
<1>10. Size(p.call) = Len(Messages(s))
  BY <1>3, <1>8, <1>9 DEF LineInv, Paired
<1>11. p.item \in 1..Len(Messages(s))
  BY <1>6, <1>8, <1>10
<1> QED
  BY <1>2, <1>3, <1>4, <1>10, <1>11 DEF p

(* A submission that succeeded, and ran after all others on its topic,     *)
(* stands there as the whole of its batch, in order.                       *)
LEMMA BatchStands ==
  ASSUME IInv, AccountInv, LineInv, NEW x \in Call, call[x].verdict = "ok",
         NEW t \in Topic, TopicOf(x) = t,
         NEW first \in 1..Len(log[t]),
         \A i \in 1..Len(log[t]) : log[t][i].call = x <=> i >= first
  PROVE  LET n == Len(Messages(call[x].session))
         IN  /\ n \in Nat \ {0}
             /\ Len(log[t]) = (first - 1) + n
             /\ \A j \in 1..n : log[t][(first - 1) + j].item = j
<1> DEFINE n == Len(Messages(call[x].session))
           L == Len(log[t])
<1>1. L \in Nat /\ first \in Nat /\ first - 1 \in Nat
  BY DEF IInv, TypeOK
<1>2. log[t][first].call = x
  BY <1>1
<1>3. n \in Nat \ {0} /\ Size(x) = n
  BY <1>2, OnTopicItem
<1>4. \A i \in 1..L : ItemsBefore(t, i, log[t][i].call) = 1..(log[t][i].item - 1)
  BY DEF LineInv, InLine
<1>5. \A i \in first..L : /\ i \in 1..L /\ log[t][i].call = x
                          /\ log[t][i].item \in 1..n
  <2>1. \A i \in first..L : i \in 1..L /\ i >= first
    BY <1>1
  <2>2. \A i \in first..L : i \in 1..L /\ log[t][i].call = x
    BY <2>1
  <2> QED
    BY <2>2, OnTopicItem
<1> HIDE DEF n, L
<1> DEFINE Good == {i \in first..L : log[t][i].item = i - (first - 1)}
<1>6. \A i \in first..L : i \in Good
  <2>1. first \in Good
    <3>1. ItemsBefore(t, first, x) = {}
      <4>1. \A k \in 1..(first - 1) : k \in 1..L /\ ~(k >= first)
        BY <1>1 DEF L
      <4>2. \A k \in 1..(first - 1) : log[t][k].call # x
        BY <4>1 DEF L
      <4> QED
        BY <4>2 DEF ItemsBefore
    <3>2. first \in first..L
      BY <1>1 DEF L
    <3>3. 1..(log[t][first].item - 1) = {}
      BY <1>4, <1>5, <3>1, <3>2
    <3> DEFINE a == log[t][first].item
    <3>4. a \in 1..n /\ 1..(a - 1) = {}
      BY <1>5, <3>2, <3>3
    <3> HIDE DEF a
    <3>5. a = 1
      <4>1. a \in Nat /\ a >= 1
        BY <1>3, <3>4
      <4>2. 1 \notin 1..(a - 1)
        BY <3>4
      <4> QED
        BY <4>1, <4>2
    <3>6. first - (first - 1) = 1
      BY <1>1
    <3> QED
      BY <3>2, <3>5, <3>6 DEF a
  <2>2. ASSUME NEW i \in first + 1..L, i - 1 \in Good PROVE i \in Good
    <3> DEFINE a == log[t][i - 1].item
               c == log[t][i].item
    <3>1. i \in first..L /\ i - 1 \in first..L /\ i \in Nat /\ i > 1
      BY <1>1, <2>2
    <3>2. /\ ItemsBefore(t, i - 1, x) = 1..(a - 1)
          /\ ItemsBefore(t, i, x) = 1..(c - 1)
          /\ log[t][i - 1].call = x
          /\ a \in 1..n /\ c \in 1..n
      BY <1>4, <1>5, <3>1
    <3>3. ItemsBefore(t, i, x) = ItemsBefore(t, i - 1, x) \cup {a}
      <4>1. \A k : k \in 1..(i - 1) <=> k \in 1..((i - 1) - 1) \/ k = i - 1
        BY <1>1, <3>1
      <4> QED
        BY <3>2, <4>1 DEF ItemsBefore
    <3> HIDE DEF a, c
    <3>4. 1..(c - 1) = 1..(a - 1) \cup {a}
      BY <3>2, <3>3
    <3>5. a \in Nat /\ c \in Nat /\ a >= 1 /\ c >= 1
      BY <1>3, <3>2
    <3>6. c - 1 = a
      <4>1. a \in 1..(c - 1)
        BY <3>4
      <4>2. c - 1 \in 1..(c - 1)
        BY <3>5, <4>1
      <4>3. c - 1 \in 1..(a - 1) \/ c - 1 = a
        BY <3>4, <4>2
      <4> QED
        BY <3>5, <4>1, <4>3
    <3>7. a = (i - 1) - (first - 1)
      BY <2>2 DEF a
    <3>8. c = i - (first - 1)
      BY <1>1, <3>1, <3>5, <3>6, <3>7
    <3> QED
      BY <3>1, <3>8 DEF c
  <2>3. first \in Nat /\ L \in Nat
    BY <1>1
  <2> HIDE DEF Good
  <2> QED
    BY <2>1, <2>2, <2>3, Reaches
<1>7. L = (first - 1) + n
  <2>1. L \in first..L
    BY <1>1 DEF L
  <2>2. L - (first - 1) \in 1..n
    BY <1>5, <1>6, <2>1
  <2>3. n \in PublishedBy(x)
    <3>1. PICK m \in Nat : Account(x, m)
      BY DEF AccountInv, Accounts
    <3>2. PublishedBy(x) = 1..n
      BY <1>3, <3>1 DEF Account
    <3> QED
      BY <1>3, <3>2
  <2>4. n \in ItemsBefore(t, L + 1, x)
    BY <2>3, PublishedOnTopic DEF LineInv, L
  <2>5. PICK k \in 1..((L + 1) - 1) : log[t][k].call = x /\ log[t][k].item = n
    BY <2>4 DEF ItemsBefore
  <2>6. k \in 1..L
    BY <1>1, <2>5
  <2>7. k \in first..L
    BY <1>1, <2>5, <2>6 DEF L
  <2>8. n = k - (first - 1)
    BY <1>6, <2>5, <2>7
  <2> QED
    BY <1>1, <1>3, <2>2, <2>7, <2>8
<1>8. ASSUME NEW j \in 1..n
      PROVE  log[t][(first - 1) + j].item = j
  <2>1. (first - 1) + j \in first..L /\ ((first - 1) + j) - (first - 1) = j
    BY <1>1, <1>3, <1>7
  <2>2. (first - 1) + j \in Good
    <3> HIDE DEF Good
    <3> QED
      BY <1>6, <2>1
  <2> QED
    BY <2>1, <2>2
<1> QED
  BY <1>3, <1>7, <1>8 DEF n, L

(***************************************************************************)
(* What a resolver makes of batches that were submitted more than once.    *)
(***************************************************************************)
(* A message of a prepared session, signed as it should be, is read as     *)
(* what it means; of an update it is an edit, and the others have one.     *)
LEMMA Meant ==
  ASSUME IInv, NEW s \in Session, session[s].phase = "prepared",
         Len(Messages(s)) \in Nat, NEW j \in 1..Len(Messages(s))
  PROVE  /\ Clean(s)[j] \in AnyMessage
         /\ ReadBack(Messages(s)[j], Expected) = Clean(s)[j]
         /\ Len(Messages(s)) = 1 \/ OwnEdit(Clean(s)[j])
<1> DEFINE r == session[s].request
           asked == r.items[j]
           m == [asked EXCEPT !.signer = Anchor]
<1>1. r \in Request[s]
  BY DEF IInv, SessionShape
<1>2. Messages(s) = r.items /\ j \in 1..Len(r.items)
  BY DEF Messages
<1> HIDE DEF r
<1>3. /\ m \in AnyMessage
      /\ asked.did = "this"
      /\ asked.kind # "delete" => Payload(asked).event # Nil
      /\ r.kind = "create" => asked.kind = "owner" /\ asked.id = "this" /\ asked.base58 = Nil
      /\ r.kind = "update" => asked.kind \in EditKind
      /\ r.kind = "delete" => asked.kind = "delete"
  BY <1>1, <1>2, CsmSystemAssumption
<1>4. r.kind \in Kind /\ (r.kind # "update" => Len(r.items) = 1)
  BY <1>1, CsmAssumption
<1>5. Clean(s)[j] = m /\ Expected = Anchor /\ Anchor \in Key
  BY <1>2, CsmSystemAssumption, KeyAssumption DEF Clean
<1>6. m.kind = asked.kind /\ m.did = asked.did /\ m.signer = Anchor
  BY <1>3 DEF AnyMessage, UndecodableMessage, DeleteMessage, OwnerMessage, AddMethodMessage,
     RemoveMethodMessage, AddServiceMessage, RemoveServiceMessage, NoticeMessage
<1> HIDE DEF m, asked
<1>7. CASE r.kind = "update"
  <2>1. ReadBack(asked, Anchor) = [asked EXCEPT !.signer = Anchor]
    BY <1>3, <1>5, <1>7, EditWritten DEF m, EditKind
  <2>2. IsEdit(m)
    BY <1>3, <1>6, <1>7 DEF IsEdit, EditKind, AnyMessage, UndecodableMessage, DeleteMessage,
       OwnerMessage, AddMethodMessage, RemoveMethodMessage, AddServiceMessage,
       RemoveServiceMessage, NoticeMessage
  <2>3. OwnEdit(m)
    BY <1>3, <1>6, <2>2 DEF OwnEdit
  <2> QED
    BY <1>2, <1>3, <1>5, <2>1, <2>3 DEF asked, m
<1>8. CASE r.kind = "create"
  <2>1. m \in OwnerMessage
    BY <1>3, <1>6, <1>8 DEF AnyMessage, UndecodableMessage, DeleteMessage, OwnerMessage,
       AddMethodMessage, RemoveMethodMessage, AddServiceMessage, RemoveServiceMessage,
       NoticeMessage
  <2>2. ReadBack(asked, Anchor) =
          [kind |-> "owner", did |-> asked.did, signer |-> Anchor, stamp |-> asked.stamp,
           id |-> asked.did, multibase |-> asked.multibase, base58 |-> Nil,
           controller |-> asked.controller]
    BY <1>3, <1>5, <1>8, <2>1, OwnerWritten DEF m
  <2>3. m = [kind |-> "owner", did |-> m.did, signer |-> Anchor, stamp |-> m.stamp,
             id |-> m.id, multibase |-> m.multibase, base58 |-> m.base58,
             controller |-> m.controller]
    BY <2>1, <1>6 DEF OwnerMessage
  <2>4. /\ m.id = asked.id /\ m.did = asked.did /\ m.stamp = asked.stamp
        /\ m.multibase = asked.multibase /\ m.base58 = asked.base58
        /\ m.controller = asked.controller
    BY <2>1 DEF OwnerMessage, m
  <2>5. m = ReadBack(asked, Anchor)
    BY <1>3, <1>8, <2>2, <2>3, <2>4
  <2> QED
    BY <1>2, <1>3, <1>4, <1>5, <1>8, <2>5 DEF asked, m
<1>9. CASE r.kind = "delete"
  <2>1. m \in DeleteMessage
    BY <1>3, <1>6, <1>9 DEF AnyMessage, UndecodableMessage, DeleteMessage, OwnerMessage,
       AddMethodMessage, RemoveMethodMessage, AddServiceMessage, RemoveServiceMessage,
       NoticeMessage
  <2>2. ReadBack(asked, Anchor) =
          [kind |-> "delete", did |-> asked.did, signer |-> Anchor, stamp |-> asked.stamp]
    BY <1>5, <2>1, DeleteWritten DEF m
  <2>3. /\ m = [kind |-> "delete", did |-> m.did, signer |-> Anchor, stamp |-> m.stamp]
        /\ m.did = asked.did /\ m.stamp = asked.stamp
    BY <1>6, <2>1 DEF DeleteMessage, m
  <2> QED
    BY <1>2, <1>3, <1>4, <1>5, <1>9, <2>2, <2>3 DEF asked, m
<1> QED
  BY <1>4, <1>7, <1>8, <1>9 DEF Kind

(* A resolver reads what is on a topic as what it means.                   *)
LEMMA ReadOnTopic ==
  ASSUME IInv, AccountInv, LineInv, NEW t \in Topic, NEW i \in 1..Len(log[t])
  PROVE  LET p == log[t][i]
             s == SessionOf(p)
         IN  /\ MessageOf(p) = Clean(s)[p.item]
             /\ MessageOf(p) \in AnyMessage
             /\ s \in Session /\ session[s].phase = "prepared"
             /\ Len(Messages(s)) \in Nat \ {0} /\ p.item \in 1..Len(Messages(s))
<1> DEFINE p == log[t][i]
           s == SessionOf(p)
<1>1. /\ s \in Session /\ session[s].phase = "prepared"
      /\ Len(Messages(s)) \in Nat \ {0} /\ p.item \in 1..Len(Messages(s))
      /\ Verifies(p.signature, p.item)
  BY OnTopicItem DEF SessionOf
<1> HIDE DEF p
<1>2. p.signature.over = p.item /\ p.signature.by = Expected
  BY <1>1 DEF Verifies
<1>3. MessageOf(p) = ReadBack(Messages(s)[p.item], Expected)
  BY <1>2 DEF MessageOf
<1> HIDE DEF s
<1>4. /\ ReadBack(Messages(s)[p.item], Expected) = Clean(s)[p.item]
      /\ Clean(s)[p.item] \in AnyMessage
  BY <1>1, Meant
<1> QED
  BY <1>1, <1>3, <1>4 DEF p, s

(* Reading a topic, or the beginning of one.                               *)
LEMMA ReadUpTo ==
  ASSUME IInv, AccountInv, LineInv, NEW t \in Topic, NEW b \in 0..Len(log[t])
  PROVE  /\ ReadAll(SubSeq(log[t], 1, b)) \in Seq(AnyMessage)
         /\ Len(ReadAll(SubSeq(log[t], 1, b))) = b
         /\ \A i \in 1..b : ReadAll(SubSeq(log[t], 1, b))[i] = MessageOf(log[t][i])
         /\ ReadAll(log[t]) \in Seq(AnyMessage)
         /\ Len(ReadAll(log[t])) = Len(log[t])
         /\ \A i \in 1..Len(log[t]) : ReadAll(log[t])[i] = MessageOf(log[t][i])
<1>1. log[t] \in Seq(Post) /\ Len(log[t]) \in Nat
  BY DEF IInv, TypeOK
<1>2. \A i \in 1..Len(log[t]) : MessageOf(log[t][i]) \in AnyMessage
  BY ReadOnTopic
<1>3. /\ Len(SubSeq(log[t], 1, b)) = b /\ b \in Nat
      /\ \A i \in 1..b : i \in 1..Len(log[t]) /\ SubSeq(log[t], 1, b)[i] = log[t][i]
  BY <1>1
<1>4. ReadAll(SubSeq(log[t], 1, b)) = [i \in 1..b |-> MessageOf(log[t][i])]
  <2>1. \A i \in 1..b : MessageOf(SubSeq(log[t], 1, b)[i]) = MessageOf(log[t][i])
    BY <1>3
  <2> QED
    BY <1>3, <2>1 DEF ReadAll
<1>5. ReadAll(log[t]) = [i \in 1..Len(log[t]) |-> MessageOf(log[t][i])]
  BY DEF ReadAll
<1>6. ReadAll(SubSeq(log[t], 1, b)) \in [1..b -> AnyMessage]
  BY <1>2, <1>3, <1>4
<1>7. ReadAll(log[t]) \in [1..Len(log[t]) -> AnyMessage]
  BY <1>2, <1>5
<1> QED
  BY <1>1, <1>3, <1>4, <1>5, <1>6, <1>7

LEMMA Heals ==
  ASSUME IInv, AccountInv, LineInv
  PROVE  ResubmissionHeals
<1> SUFFICES ASSUME NEW x \in Call, call[x].verdict = "ok",
                    NEW first \in 0..Len(log[session[call[x].session].topic]),
                    NEW base \in 0..Len(log[session[call[x].session].topic]),
                    RanLast(x, first, base)
             PROVE  LET posts == log[session[call[x].session].topic]
                    IN  Resolved(ReadAll(posts))
                          = Resolved(ReadAll(SubSeq(posts, 1, base))
                                       \o Clean(call[x].session))
  BY DEF ResubmissionHeals
<1> DEFINE s == call[x].session
           t == session[s].topic
           n == Len(Messages(s))
           L == Len(log[t])
           e == first - 1
           F == ReadAll(log[t])
           B == ReadAll(SubSeq(log[t], 1, base))
           G == B \o Clean(s)
<1>1. s \in Session /\ session[s].phase = "prepared" /\ t \in Topic
  <2>1. s \in Session /\ session[s].phase = "prepared"
    BY DEF LineInv, Paired
  <2> QED
    BY <2>1 DEF IInv, SessionShape
<1>2. L \in Nat /\ first \in Nat /\ base \in Nat /\ base <= L
  BY <1>1 DEF IInv, TypeOK
<1>3. /\ base < first /\ first <= L
      /\ \A i \in 1..L : SessionOf(log[t][i]) = s <=> i > base
      /\ \A i \in 1..L : log[t][i].call = x <=> i >= first
  BY DEF RanLast
<1>4. /\ n \in Nat \ {0} /\ L = e + n
      /\ \A j \in 1..n : log[t][e + j].item = j
  <2>1. first \in 1..L /\ TopicOf(x) = t
    BY <1>2, <1>3 DEF TopicOf
  <2> QED
    BY <1>1, <1>3, <2>1, BatchStands
<1>5. e \in Nat /\ base <= e
  BY <1>2, <1>3
<1>6. \A j \in 1..n : /\ Clean(s)[j] \in AnyMessage
                      /\ n = 1 \/ OwnEdit(Clean(s)[j])
  BY <1>1, <1>4, Meant
<1>7. Clean(s) \in Seq(AnyMessage) /\ Len(Clean(s)) = n
  <2>1. DOMAIN Clean(s) = 1..n /\ Clean(s) = [j \in 1..n |-> Clean(s)[j]]
    BY DEF Clean
  <2>2. Clean(s) \in [1..n -> AnyMessage]
    BY <1>6, <2>1
  <2> QED
    BY <1>4, <2>1, <2>2
<1>8. /\ B \in Seq(AnyMessage) /\ Len(B) = base
      /\ \A i \in 1..base : B[i] = MessageOf(log[t][i])
      /\ F \in Seq(AnyMessage) /\ Len(F) = L
      /\ \A i \in 1..L : F[i] = MessageOf(log[t][i])
  BY <1>1, ReadUpTo
<1>9. /\ G \in Seq(AnyMessage) /\ Len(G) = base + n
      /\ \A i \in 1..base : G[i] = B[i]
      /\ \A j \in 1..n : G[base + j] = Clean(s)[j]
  <2> DEFINE C == Clean(s)
  <2>1. C \in Seq(AnyMessage) /\ Len(C) = n /\ n \in Nat
    BY <1>4, <1>7
  <2>2. B \in Seq(AnyMessage) /\ Len(B) = base
    BY <1>8
  <2> HIDE DEF B, C, n
  <2>3. B \o C \in Seq(AnyMessage) /\ Len(B \o C) = base + n
    BY <2>1, <2>2
  <2>4. \A i \in 1..base : (B \o C)[i] = B[i]
    BY <1>2, <2>1, <2>2
  <2>5. ASSUME NEW j \in 1..n PROVE (B \o C)[base + j] = C[j]
    <3>1. base + j \in 1..Len(B) + Len(C) /\ ~(base + j <= Len(B)) /\ (base + j) - Len(B) = j
      BY <1>2, <2>1, <2>2
    <3> QED
      BY <2>1, <2>2, <3>1
  <2> QED
    BY <2>3, <2>4, <2>5 DEF C
<1>10. ASSUME NEW i \in base + 1..L
       PROVE  /\ SessionOf(log[t][i]) = s
              /\ log[t][i].item \in 1..n
              /\ F[i] = Clean(s)[log[t][i].item]
  <2>1. i \in 1..L /\ i > base
    BY <1>2
  <2>2. SessionOf(log[t][i]) = s
    BY <1>3, <2>1
  <2>3. log[t][i].item \in 1..n /\ MessageOf(log[t][i]) = Clean(s)[log[t][i].item]
    BY <1>1, <2>1, <2>2, ReadOnTopic
  <2> QED
    BY <1>8, <2>1, <2>2, <2>3
<1> HIDE DEF n, L, e, F, B, G, s, t
<1>11. \A i \in 1..base : F[i] = G[i]
  <2>1. \A i \in 1..base : i \in 1..L
    BY <1>2
  <2> QED
    BY <1>8, <1>9, <2>1
<1>12. \A i \in base + 1..e : \E j \in 1..n : F[i] = G[base + j]
  <2>1. \A i \in base + 1..e : i \in base + 1..L
    BY <1>2, <1>4, <1>5
  <2> QED
    BY <1>9, <1>10, <2>1
<1>13. \A j \in 1..n : F[e + j] = G[base + j]
  <2> TAKE j \in 1..n
  <2>1. e + j \in base + 1..L
    BY <1>2, <1>4, <1>5
  <2>2. F[e + j] = Clean(s)[j]
    BY <1>4, <1>10, <2>1
  <2> QED
    BY <1>9, <2>2
<1>14. n = 1 \/ \A j \in 1..n : OwnEdit(G[base + j])
  BY <1>6, <1>9
<1>15. Len(F) = e + n
  BY <1>4, <1>8
<1>16. Rereads(F, G, n, base, e)
  BY <1>5, <1>9, <1>11, <1>12, <1>13, <1>14, <1>15 DEF Rereads
<1>17. Folded(F, {}) = Folded(G, {})
  BY <1>2, <1>4, <1>5, <1>8, <1>9, <1>16, RereadBatch
<1> QED
  BY <1>17 DEF Resolved, F, G, B, t, s

(* A resubmission that succeeds and runs last heals the document: for any  *)
(* requests, lists of signatures and states of completion of the batches   *)
(* before it, a resolver makes of the topic what it makes of what stood    *)
(* there before the session's first message, followed by the operations as *)
(* they were meant (csm.rs 442-463, builder.rs 139-224).                   *)
THEOREM ResubmissionsHeal == Spec => []ResubmissionHeals
<1>1. Init => IInv /\ AccountInv /\ LineInv
  BY Initially, InitiallyOrdered, InitiallyLined
<1>2. IInv /\ AccountInv /\ LineInv /\ [Next]_vars => (IInv /\ AccountInv /\ LineInv)'
  BY StepInv, StepOrdered, StepLined
<1>3. IInv /\ AccountInv /\ LineInv => ResubmissionHeals
  BY Heals
<1> QED
  BY <1>1, <1>2, <1>3, PTL DEF Spec

(***************************************************************************)
(* What applications and readers together promise.                         *)
(***************************************************************************)
Document(t) == Resolved(ReadAll(log[t]))

Author(t) == IF log[t] = <<>> THEN Nil ELSE MessageOf(log[t][Len(log[t])]).signer

Promise(t) ==
  INSTANCE ControlledDid
    WITH holder   <- Document(t).current,
         stage    <- StageOf(Document(t)),
         contents <- ContentsOf(Document(t)),
         author   <- Author(t)

PromisesKept ==
  /\ \A t \in Topic : Promise(t)!Init
  /\ [][\A t \in Topic : Promise(t)!Next]_vars

(* Control is with the key of the DID until it is established.             *)
Anchored == \A t \in Topic : ~Document(t).exists => Document(t).current = Anchor

(* What was sent is always read alike.                                     *)
LEMMA ReadStays ==
  ASSUME IInv, [Next]_vars, NEW p \in SentPosts
  PROVE  MessageOf(p)' = MessageOf(p)
<1>1. Origin(p)
  BY DEF IInv
<1>2. call'[p.call].session = call[p.call].session
  BY <1>1, CallKeeps DEF Origin
<1>3. session'[call[p.call].session] = session[call[p.call].session]
  BY <1>1, PreparedStays DEF Origin
<1>4. Messages(SessionOf(p))' = Messages(SessionOf(p))
  BY <1>2, <1>3 DEF Messages, SessionOf
<1> QED
  BY <1>4 DEF MessageOf

(* What is on a topic can be read.                                         *)
Readable ==
  \A t \in Topic : \A i \in 1..Len(log[t]) : MessageOf(log[t][i]) \in AnyMessage

LEMMA TopicsRead ==
  ASSUME IInv, AccountInv, LineInv
  PROVE  Readable
BY ReadOnTopic DEF Readable

(* A topic that stays as it is is read alike, and of one that grew the last*)
(* message is the last that is read.                                       *)
LEMMA DocumentMoves ==
  ASSUME IInv, Readable', [Next]_vars, NEW t \in Topic
  PROVE  \/ Document(t)' = Document(t)
         \/ \E m \in AnyMessage :
              Document(t)' = Step(Document(t), m) /\ Author(t)' = m.signer
<1> DEFINE L == Len(log[t])
           old == ReadAll(log[t])
           new == ReadAll(log[t])'
<1>1. L \in Nat /\ log[t] \in Seq(Post)
  BY DEF IInv, TypeOK
<1>2. DOMAIN old = 1..L /\ \A i \in 1..L : old[i] = MessageOf(log[t][i])
  BY DEF ReadAll
<1>3. \A i \in 1..L : log'[t][i] = log[t][i] =>
        MessageOf(log[t][i])' = MessageOf(log[t][i])
  <2>1. \A p \in SentPosts : MessageOf(p)' = MessageOf(p)
    BY ReadStays
  <2> QED
    BY <2>1, OnTopic
<1>4. new = [i \in 1..Len(log'[t]) |-> MessageOf(log[t][i])']
  BY DEF ReadAll
<1>5. CASE log'[t] = log[t]
  <2>1. new = [i \in 1..L |-> MessageOf(log[t][i])]
    BY <1>3, <1>4, <1>5
  <2>2. new = old
    BY <2>1 DEF ReadAll
  <2> QED
    BY <2>2 DEF Document, Resolved
<1>6. CASE /\ Len(log'[t]) = L + 1
           /\ \A i \in 1..L : log'[t][i] = log[t][i]
  <2> DEFINE m == new[L + 1]
  <2>1. L + 1 \in 1..Len(log'[t]) /\ \A i \in 1..L : i \in 1..Len(log'[t])
    BY <1>1, <1>6
  <2>2. m \in AnyMessage
    <3>1. \A i \in 1..Len(log'[t]) : MessageOf(log[t][i])' \in AnyMessage
      BY DEF Readable
    <3> QED
      BY <1>4, <2>1, <3>1
  <2>3. \A i \in 1..L : new[i] = old[i]
    BY <1>2, <1>3, <1>4, <1>6, <2>1
  <2>4. Len(old) = L /\ Len(new) = L + 1
    <3>1. DOMAIN new = 1..L + 1
      BY <1>4, <1>6
    <3> QED
      BY <1>1, <1>2, <3>1
  <2> HIDE DEF old, new, m
  <2>5. Folded(new, {}) = Step(Folded(old, {}), m)
    BY <1>1, <2>3, <2>4, FoldAppend DEF m
  <2>6. Document(t)' = Step(Document(t), m)
    BY <2>5 DEF Document, Resolved, old, new
  <2>7. Author(t)' = m.signer
    <3>1. log'[t] # <<>>
      BY <1>1, <1>6
    <3>2. Author(t)' = MessageOf(log[t][Len(log[t])])'.signer
      BY <3>1 DEF Author
    <3>3. MessageOf(log[t][Len(log[t])])' = new[Len(log'[t])]
      BY <1>4, <2>1, <1>6 DEF new
    <3> QED
      BY <1>6, <3>2, <3>3 DEF m
  <2> QED
    BY <2>2, <2>6, <2>7
<1> QED
  <2>1. CASE log' = log
    BY <1>5, <2>1
  <2>2. ASSUME NEW tx \in pending, Appended(tx)
        PROVE  \/ log'[t] = log[t]
               \/ /\ Len(log'[t]) = L + 1
                  /\ \A i \in 1..L : log'[t][i] = log[t][i]
    BY <2>2, AppendedTo
  <2> QED
    BY <1>5, <1>6, <2>1, <2>2, LedgerMoves

LEMMA AnchoredStays ==
  ASSUME IInv, Readable, Readable', Anchored, [Next]_vars
  PROVE  Anchored' /\ \A t \in Topic : Promise(t)!Next
<1>1. SUFFICES ASSUME NEW t \in Topic
               PROVE  /\ ~Document(t)'.exists => Document(t)'.current = Anchor
                      /\ Promise(t)!Next
  BY DEF Anchored
<1>2. Document(t) \in State /\ (~Document(t).exists => Document(t).current = Anchor)
  <2> DEFINE all == ReadAll(log[t])
  <2>1. Len(all) \in Nat /\ \A i \in 1..Len(all) : all[i] \in AnyMessage
    BY DEF ReadAll, Readable, IInv, TypeOK
  <2> HIDE DEF all
  <2>2. Folded(all, {}) \in State
    BY <2>1, FoldType
  <2> QED
    BY <2>2 DEF Anchored, Document, Resolved, all
<1>3. CASE Document(t)' = Document(t)
  BY <1>2, <1>3 DEF Promise!Next, Promise!Ignored
<1>4. CASE Document(t)' # Document(t)
  <2>1. PICK m \in AnyMessage : Document(t)' = Step(Document(t), m) /\ Author(t)' = m.signer
    BY <1>4, DocumentMoves
  <2>2. Author(t)' = Document(t).current /\ Evolves(Document(t), Document(t)')
    BY <1>2, <1>4, <2>1, StepEvolves
  <2>3. Document(t)' \in State
    BY <1>2, <2>1, StepType
  <2>4. ~Document(t)'.exists => Document(t)'.current = Anchor
    BY <1>2, <2>2, <2>3, StageTotal DEF Evolves
  <2>5. Promise(t)!Next
    BY <2>2 DEF Evolves, Promise!Next, Promise!Edit, Promise!Establish, Promise!HandOver,
                Promise!End
  <2> QED
    BY <2>4, <2>5
<1> QED
  BY <1>3, <1>4

LEMMA InitiallyAnchored == Init => Anchored /\ \A t \in Topic : Promise(t)!Init
<1> SUFFICES ASSUME Init, NEW t \in Topic
             PROVE  (~Document(t).exists => Document(t).current = Anchor) /\ Promise(t)!Init
  BY DEF Anchored
<1>1. log[t] = <<>>
  BY DEF Init, LedgerInit
<1>2. Document(t) = Start
  <2>1. Len(ReadAll(log[t])) = 0
    BY <1>1 DEF ReadAll
  <2> QED
    BY <2>1, FoldEmpty DEF Document, Resolved
<1> QED
  BY <1>1, <1>2 DEF Start, StageOf, Author, Promise!Init

(* Whatever an application has signed and submits, and however often: on   *)
(* every topic, what successive readers are told of the DID changes only   *)
(* as an abstract DID may, by its controlling key and never after its end  *)
(* (csm.rs 391-463, builder.rs 75-224).                                    *)
THEOREM DocumentsKeepThePromise == Spec => PromisesKept
<1>1. Init => IInv /\ AccountInv /\ LineInv
  BY Initially, InitiallyOrdered, InitiallyLined
<1>2. IInv /\ AccountInv /\ LineInv /\ [Next]_vars => (IInv /\ AccountInv /\ LineInv)'
  BY StepInv, StepOrdered, StepLined
<1> QED
  BY <1>1, <1>2, TopicsRead, InitiallyAnchored, AnchoredStays, PTL DEF Spec, PromisesKept
================================================================================
