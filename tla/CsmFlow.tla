-------------------------------- MODULE CsmFlow --------------------------------
(***************************************************************************)
(* Client-side message signing (registrar/src/csm.rs, create_csm.rs,       *)
(* update_csm.rs, deactivate_csm.rs).  A session is one prepared signing   *)
(* request: the messages are built first, signed outside the SDK, turned   *)
(* into a submit request, and submitted, perhaps much later and perhaps    *)
(* more than once, because requests are plain values that the application  *)
(* may copy and store.  A call is one submission.  Signatures are records: *)
(* whose they are, and the number of the message they were made over.      *)
(***************************************************************************)
EXTENDS TopicLedger

CONSTANTS
  Session,     \* the signing requests of a behaviour
  Call,        \* the submissions of a behaviour
  Request,     \* Request[s]: what session s may prepare, [kind, items, expires]
  Target,      \* Target[x]: the sessions that submission x may be of
  Malformed,   \* the items from_operation turns down
  Operator,    \* the keys of the Hedera accounts that pay for transactions
  Expected,    \* the key in the DID, against which signatures are verified
  Signer,      \* Signer[x]: the keys whose signatures submission x may bring
  Horizon      \* bound: the last reading of the clock

Kind == {"create", "update", "delete"}

ASSUME CsmAssumption ==
  /\ Session \subseteq Topic    \* the topic that create session s opens is named s
  /\ Expected \in Key
  /\ Operator \subseteq Key
  /\ Horizon \in Nat
  /\ DOMAIN Request = Session
  /\ Target \in [Call -> SUBSET Session]
  /\ Signer \in [Call -> SUBSET Key]
  /\ \A s \in Session : \A r \in Request[s] :
       /\ r.kind \in Kind
       /\ r.expires \in Nat \cup {Nil}
       /\ DOMAIN r.items = 1..Len(r.items)
       /\ Len(r.items) \in Nat
       /\ r.kind # "update" => Len(r.items) = 1

VARIABLES
  now,        \* the clock, in the unit of expires_at_unix
  session,    \* session[s]: how far the preparation of s has come
  call        \* call[x]: how far submission x has come

flowVars == <<session, call>>
vars == <<ledgerVars, now, flowVars>>

SessionPhase == {"idle", "open", "opened", "prepared", "failed"}
CallPhase == {"idle", "check", "execute", "receipt", "done"}

NewSession == [phase |-> "idle", request |-> Nil, topic |-> Nil]

NewCall == [phase |-> "idle", verdict |-> "none", session |-> Nil,
            signatures |-> <<>>, operator |-> Nil, next |-> 1, began |-> 0]

Init ==
  /\ LedgerInit
  /\ now = 0
  /\ session = [s \in Session |-> NewSession]
  /\ call = [x \in Call |-> NewCall]

Tick ==
  /\ now < Horizon
  /\ now' = now + 1
  /\ UNCHANGED <<ledgerVars, flowVars>>

(***************************************************************************)
(* Preparing.  A create session opens a topic, without keys, and is the    *)
(* only one to talk to the network; the DID is known from then on.         *)
(***************************************************************************)
KnownTopics ==
  {session[s].topic : s \in {z \in Session : /\ session[z].phase = "prepared"
                                             /\ session[z].request.kind = "create"}}

Prepare(s, r, t, phase) ==
  /\ session[s].phase = "idle"
  /\ session' = [session EXCEPT ![s] = [phase |-> phase, request |-> r, topic |-> t]]
  /\ UNCHANGED <<ledgerVars, now, call>>

PrepareCreate(s) ==
  \E r \in Request[s] :
    /\ r.kind = "create"
    /\ Prepare(s, r, s, "open")

PrepareUpdate(s) ==
  \E r \in Request[s], t \in KnownTopics :
    /\ r.kind = "update"
    /\ Prepare(s, r, t,
               IF Len(r.items) = 0 \/ \E i \in 1..Len(r.items) : r.items[i] \in Malformed
               THEN "failed" ELSE "prepared")

PrepareDeactivate(s) ==
  \E r \in Request[s], t \in KnownTopics :
    /\ r.kind = "delete"
    /\ Prepare(s, r, t, "prepared")

KeylessDoor(s) == [topic |-> s, submitKey |-> Nil]

TopicTaken(s) ==
  /\ session[s].phase = "open"
  /\ opening' = opening \cup {KeylessDoor(s)}
  /\ session' = [session EXCEPT ![s].phase = "opened"]
  /\ UNCHANGED <<doors, pending, log, now, call>>

TopicFails(s) ==
  /\ session[s].phase = "open"
  /\ opening' \in {opening, opening \cup {KeylessDoor(s)}}
  /\ session' = [session EXCEPT ![s].phase = "failed"]
  /\ UNCHANGED <<doors, pending, log, now, call>>

TopicConfirmed(s) ==
  /\ session[s].phase = "opened"
  /\ KeylessDoor(s) \in doors
  /\ session' = [session EXCEPT ![s].phase = "prepared"]
  /\ UNCHANGED <<ledgerVars, now, call>>

TopicUnconfirmed(s) ==
  /\ session[s].phase = "opened"
  /\ session' = [session EXCEPT ![s].phase = "failed"]
  /\ UNCHANGED <<ledgerVars, now, call>>

(***************************************************************************)
(* Signing.  into_submit_request pairs signatures with messages and        *)
(* applies the checks that submission applies again; an application may    *)
(* also put a submit request together itself, or read one back from        *)
(* storage, so that any list of the right length can reach submission.     *)
(***************************************************************************)
Messages(s) == session[s].request.items

Expired(s) ==
  /\ session[s].request.expires # Nil
  /\ now > session[s].request.expires

Verifies(signature, n) == signature = [by |-> Expected, over |-> n]

(* Fault: of a batch, only the first signature is verified.                *)
FirstForSubmit(s, signature, n) == ~Expired(s) /\ (n = 1 => Verifies(signature, n))

(* Fault: the expiry is not looked at.                                     *)
VerifiedForSubmit(s, signature, n) == Verifies(signature, n)

ValidForSubmit(s, signature, n) == ~Expired(s) /\ Verifies(signature, n)

(* What comes back from outside: of each message any signature, the right  *)
(* one, another message's, or another key's.                               *)
SignatureLists(x, s) ==
  LET n == Len(Messages(s))
  IN  [1..n -> [by : Signer[x], over : 1..n]]

(***************************************************************************)
(* Submitting: validate, submit and await the receipt, item by item.       *)
(***************************************************************************)
Return(x, verdict) ==
  call' = [call EXCEPT ![x].phase = "done", ![x].verdict = verdict]

Submit(x) ==
  \E s \in Target[x], k \in Operator :
    /\ call[x].phase = "idle"
    /\ session[s].phase = "prepared"
    /\ \E sigs \in SignatureLists(x, s) :
         call' = [call EXCEPT ![x] =
           [phase |-> "check", verdict |-> "none", session |-> s,
            signatures |-> sigs, operator |-> k, next |-> 1, began |-> now]]
    /\ UNCHANGED <<ledgerVars, now, session>>

(* A request is handed to the function for another operation.              *)
SubmitElsewhere(x) ==
  /\ call[x].phase = "idle"
  /\ \E s \in Target[x] : session[s].phase = "prepared"
  /\ Return(x, "err")
  /\ UNCHANGED <<ledgerVars, now, session>>

NextIsValid(x) ==
  ValidForSubmit(call[x].session, call[x].signatures[call[x].next], call[x].next)

ItemAccepted(x) ==
  /\ call[x].phase = "check"
  /\ NextIsValid(x)
  /\ call' = [call EXCEPT ![x].phase = "execute"]
  /\ UNCHANGED <<ledgerVars, now, session>>

ItemRejected(x) ==
  /\ call[x].phase = "check"
  /\ ~NextIsValid(x)
  /\ Return(x, IF Expired(call[x].session) THEN "expired" ELSE "err")
  /\ UNCHANGED <<ledgerVars, now, session>>

(* heard: whether execute() reports that the transaction was taken in.     *)
PostOf(x, heard) ==
  [call |-> x, item |-> call[x].next, heard |-> heard,
   signature |-> call[x].signatures[call[x].next]]

TxOf(x, heard) ==
  [topic |-> session[call[x].session].topic, signedBy |-> call[x].operator,
   post |-> PostOf(x, heard)]

ExecuteTaken(x) ==
  /\ call[x].phase = "execute"
  /\ pending' = pending \cup {TxOf(x, TRUE)}
  /\ call' = [call EXCEPT ![x].phase = "receipt"]
  /\ UNCHANGED <<opening, doors, log, now, session>>

ExecuteFails(x) ==
  /\ call[x].phase = "execute"
  /\ pending' \in {pending, pending \cup {TxOf(x, FALSE)}}
  /\ Return(x, "err")
  /\ UNCHANGED <<opening, doors, log, now, session>>

Size(x) == IF call[x].phase = "idle" THEN 0 ELSE Len(call[x].signatures)

(* Fault: the next item goes out without a look at the receipt.            *)
Unawaited(x) == TRUE

Landed(x) == PostOf(x, TRUE) \in Posted(session[call[x].session].topic)

(* Fault: the batch ends one item too late.                                *)
OneItemTooFar(x) ==
  /\ call[x].phase = "receipt"
  /\ Landed(x)
  /\ IF call[x].next > Size(x)
     THEN Return(x, "ok")
     ELSE call' = [call EXCEPT ![x].phase = "check", ![x].next = @ + 1]
  /\ UNCHANGED <<ledgerVars, now, session>>

ReceiptSucceeds(x) ==
  /\ call[x].phase = "receipt"
  /\ Landed(x)
  /\ IF call[x].next = Size(x)
     THEN Return(x, "ok")
     ELSE call' = [call EXCEPT ![x].phase = "check", ![x].next = @ + 1]
  /\ UNCHANGED <<ledgerVars, now, session>>

(* Fault: an item whose receipt is unknown is passed over.                 *)
PassOver(x) ==
  /\ call[x].phase = "receipt"
  /\ IF call[x].next = Size(x)
     THEN Return(x, "ok")
     ELSE call' = [call EXCEPT ![x].phase = "check", ![x].next = @ + 1]
  /\ UNCHANGED <<ledgerVars, now, session>>

(* Fault: an item whose receipt is unknown is submitted until it has one.  *)
RetryUntilAnswered(x) ==
  /\ call[x].phase = "receipt"
  /\ call' = [call EXCEPT ![x].phase = "check"]
  /\ UNCHANGED <<ledgerVars, now, session>>

ReceiptFails(x) ==
  /\ call[x].phase = "receipt"
  /\ Return(x, "err")
  /\ UNCHANGED <<ledgerVars, now, session>>

(***************************************************************************)
(* The specification                                                       *)
(***************************************************************************)
SessionStep(s) ==
  \/ PrepareCreate(s) \/ PrepareUpdate(s) \/ PrepareDeactivate(s)
  \/ TopicTaken(s) \/ TopicFails(s) \/ TopicConfirmed(s) \/ TopicUnconfirmed(s)

Proceed(x) ==
  \/ ItemAccepted(x) \/ ItemRejected(x)
  \/ ExecuteTaken(x) \/ ExecuteFails(x)
  \/ ReceiptSucceeds(x) \/ ReceiptFails(x)

Network == Consensus /\ UNCHANGED <<now, flowVars>>

Next ==
  \/ \E s \in Session : SessionStep(s)
  \/ \E x \in Call : Submit(x) \/ SubmitElsewhere(x) \/ Proceed(x)
  \/ Network
  \/ Tick

Spec == Init /\ [][Next]_vars

FairSpec == Spec /\ \A x \in Call : WF_vars(Proceed(x))

(***************************************************************************)
(* Properties                                                              *)
(***************************************************************************)
Requests == UNION {Request[s] : s \in Session}

Signature == [by : Key, over : Nat]

Post == [call : Call, item : Nat \ {0}, heard : BOOLEAN, signature : Signature]

Tx == [topic : Topic, signedBy : Operator, post : Post]

SessionState ==
  [phase : SessionPhase, request : Requests \cup {Nil}, topic : Topic \cup {Nil}]

CallState ==
  [phase : CallPhase, verdict : {"none", "ok", "err", "expired"},
   session : Session \cup {Nil}, signatures : Seq(Signature),
   operator : Operator \cup {Nil}, next : Nat \ {0}, began : 0..Horizon]

(* Shapes; and a submission under way is of a prepared session, has one    *)
(* signature per message, and does not look past the last of them.         *)
TypeOK ==
  /\ opening \subseteq Door /\ doors \subseteq Door
  /\ pending \subseteq Tx
  /\ log \in [Topic -> Seq(Post)]
  /\ now \in 0..Horizon
  /\ session \in [Session -> SessionState]
  /\ call \in [Call -> CallState]
  /\ \A x \in Call :
       call[x].phase \notin {"idle", "done"}
         => /\ session[call[x].session].phase = "prepared"
            /\ Size(x) = Len(Messages(call[x].session))
            /\ call[x].next \in 1..Size(x)

AllPosts == UNION {Posted(t) : t \in Topic}

SentPosts == AllPosts \cup {tx.post : tx \in pending}

(* Whatever an application hands in, however late and however often, what  *)
(* CSM sends to a topic is signed by the DID's key over the very message   *)
(* it is attached to: csm.rs 357-363, 401-409, 424-431.                    *)
OnlyAuthentic == \A p \in SentPosts : Verifies(p.signature, p.item)

(* A submission that begins after the expiry sends nothing at all          *)
(* (csm.rs 391-399, docs/csm.md 116).                                      *)
ExpiredStaysOut ==
  \A p \in SentPosts :
    LET deadline == session[call[p.call].session].request.expires
    IN  deadline # Nil => call[p.call].began <= deadline

(* docs/csm.md, "Expiry": a request that is rejected because it expired    *)
(* has had nothing submitted to HCS.                                       *)
ExpiredUnpublished ==
  \A x \in Call : call[x].verdict = "expired" => \A p \in SentPosts : p.call # x

PublishedBy(x) == {p.item : p \in {q \in AllPosts : q.call = x}}

UndecidedOf(x) ==
  {tx.post.item : tx \in {y \in pending : y.post.call = x}} \ PublishedBy(x)

(* A submission publishes the batch in order, one item at a time, reports  *)
(* success only when all of it is on the topic, and stops at the first     *)
(* failure: csm.rs 442-463.                                                *)
Ordered ==
  INSTANCE OrderedPublisher
    WITH plan      <- [x \in Call |-> Size(x)],
         published <- [x \in Call |-> PublishedBy(x)],
         undecided <- [x \in Call |-> UndecidedOf(x)],
         verdict   <- [x \in Call |->
                         CASE call[x].phase = "idle"    -> "none"
                           [] call[x].phase # "idle" /\ call[x].verdict = "none"
                                                        -> "running"
                           [] call[x].verdict = "ok"    -> "ok"
                           [] OTHER                     -> "failed"]

PublishesInOrder == Ordered!Spec

(* Every submission that was begun returns.                                *)
CallsReturn ==
  \A x \in Call : call[x].phase # "idle" ~> call[x].phase = "done"
================================================================================
