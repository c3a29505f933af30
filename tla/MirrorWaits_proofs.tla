--------------------------- MODULE MirrorWaits_proofs ---------------------------
(***************************************************************************)
(* Proofs about MirrorWaits, for all page sizes, intervals, windows and    *)
(* timeouts.                                                               *)
(***************************************************************************)
EXTENDS MirrorWaits, SequenceTheorems, TLAPS

-----------------------------------------------------------------------------
(* What the window began with was taken in before it began.                *)
Counted ==
  wait.since # Nil =>
    \A k \in DOMAIN indexed : k <= wait.count => indexed[k] <= wait.since

(* What a complete read did not find came in after its last page.          *)
Complete ==
  \/ wait.state = "answered" /\ ~wait.more
  \/ wait.state = "done"
  \/ wait.state = "timedout" /\ wait.kind = "any"

Unseen ==
  Complete => \A k \in DOMAIN indexed : k > wait.got => indexed[k] >= wait.served

(* How a call ended.                                                       *)
Ended ==
  /\ wait.state = "done" /\ wait.kind = "stable" =>
       wait.since # Nil /\ wait.got = wait.count
  /\ wait.state = "timedout" =>
       /\ wait.ended >= wait.deadline
       /\ wait.kind = "any" => wait.got = 0

IInv == TypeOK /\ Counted /\ Unseen /\ Ended

-----------------------------------------------------------------------------
WaitType(w) ==
  w \in
       [state : {"idle", "asking", "answered", "sleeping", "done", "failed", "timedout"},
        kind : Kind, need : 0 .. MaxTail, deadline : Nat, wake : Nat,
        got : 0 .. Len(indexed), more : BOOLEAN, count : 0 .. Len(indexed),
        since : (0 .. now) \cup {Nil},
        posted : 0 .. tail, served : 0 .. now, ended : 0 .. now]

(* The fields of a well-formed wait, and the variables they refer to.      *)
LEMMA Fields ==
  ASSUME TypeOK
  PROVE  /\ now \in Nat /\ tail \in Nat /\ Len(indexed) \in Nat
         /\ DOMAIN indexed = 1 .. Len(indexed)
         /\ \A k \in DOMAIN indexed : indexed[k] \in Nat /\ indexed[k] <= now
         /\ WaitType(wait)
         /\ wait.got \in Nat /\ wait.got <= Len(indexed)
         /\ wait.count \in Nat /\ wait.count <= Len(indexed)
         /\ wait.served \in Nat /\ wait.served <= now
         /\ wait.since # Nil => wait.since \in Nat /\ wait.since <= now
         /\ wait.deadline \in Nat
<1> USE WaitAssumption
<1>1. now \in Nat /\ tail \in Nat /\ indexed \in Seq(0 .. now) /\ WaitType(wait)
  BY DEF TypeOK, WaitType
<1>2. Len(indexed) \in Nat /\ DOMAIN indexed = 1 .. Len(indexed)
  BY <1>1
<1>3. \A k \in DOMAIN indexed : indexed[k] \in 0 .. now
  BY <1>1, <1>2
<1>4. \A k \in DOMAIN indexed : indexed[k] \in Nat /\ indexed[k] <= now
  BY <1>1, <1>3
<1>5. /\ wait.got \in 0 .. Len(indexed) /\ wait.count \in 0 .. Len(indexed)
      /\ wait.served \in 0 .. now /\ wait.since \in (0 .. now) \cup {Nil}
      /\ wait.deadline \in Nat
  BY <1>1 DEF WaitType
<1> QED
  BY <1>1, <1>2, <1>4, <1>5

(* A step of the wait alone is typed when its new record is.               *)
LEMMA WaitStep ==
  ASSUME TypeOK, UNCHANGED <<now, tail, indexed>>, WaitType(wait')
  PROVE  TypeOK'
BY DEF TypeOK, WaitType

(* The initial states are typed, and no wait has ended.                    *)
LEMMA InitInv == Init => IInv
<1> SUFFICES ASSUME Init PROVE IInv
  OBVIOUS
<1> USE WaitAssumption
<1>1. tail \in 0 .. MaxTail /\ now = 0 /\ wait = Idle
  BY DEF Init
<1>2. PICK n \in 0 .. tail : indexed = [k \in 1 .. n |-> 0]
  BY DEF Init
<1>3. indexed \in Seq(0 .. now) /\ Len(indexed) = n
  BY <1>1, <1>2
<1>4. TypeOK
  BY <1>1, <1>2, <1>3 DEF TypeOK, Idle, Kind
<1>5. Counted /\ Unseen /\ Ended
  BY <1>1 DEF Counted, Unseen, Complete, Ended, Idle
<1> QED
  BY <1>4, <1>5 DEF IInv

(* The call is entered.                                                    *)
LEMMA BeginInv ==
  ASSUME IInv, NEW kind \in Kind, NEW need \in 0 .. MaxTail, Begin(kind, need)
  PROVE  IInv'
<1> USE WaitAssumption
<1>1. TypeOK /\ tail \in Nat /\ Deadline \in Nat
  BY DEF IInv, TypeOK, Deadline
<1>2. UNCHANGED <<now, tail, indexed>>
  BY DEF Begin
<1>3. wait' = [Idle EXCEPT !.state = "asking", !.kind = kind, !.need = need,
                           !.deadline = Deadline, !.posted = tail]
  BY DEF Begin
<1>4. WaitType(wait')
  <2>1. kind \in Kind /\ need \in 0 .. MaxTail /\ tail \in 0 .. tail /\ now \in Nat
    BY <1>1, Fields
  <2>2. 0 \in 0 .. now /\ 0 \in 0 .. Len(indexed) /\ Deadline \in Nat
    BY <1>1, Fields
  <2> QED
    BY <1>3, <2>1, <2>2 DEF WaitType, Idle, Kind
<1>5. TypeOK'
  BY <1>1, <1>2, <1>4, WaitStep
<1>6. (Counted /\ Unseen /\ Ended)'
  BY <1>3 DEF Counted, Unseen, Complete, Ended, Idle
<1> QED
  BY <1>5, <1>6 DEF IInv

(* The mirror node answers: a page that is not full holds all there is.    *)
LEMMA ServeInv ==
  ASSUME IInv, Serve
  PROVE  IInv'
<1> USE WaitAssumption
<1> DEFINE rest == Len(indexed) - wait.got
           full == rest >= PageSize
<1>1. TypeOK /\ Counted
  BY DEF IInv
<1>2. UNCHANGED <<now, tail, indexed>>
  BY DEF Serve
<1>3. wait' = [wait EXCEPT !.state = "answered", !.served = now, !.more = full,
                           !.got = @ + (IF full THEN PageSize ELSE rest)]
  BY DEF Serve
<1> DEFINE g == wait.got + (IF full THEN PageSize ELSE rest)
<1>4. /\ g \in 0 .. Len(indexed)
      /\ full \in BOOLEAN
      /\ ~full => g = Len(indexed)
      /\ now \in 0 .. now
  BY <1>1, Fields
<1>5. wait' = [wait EXCEPT !.state = "answered", !.served = now, !.more = full, !.got = g]
  BY <1>1, <1>3 DEF TypeOK
<1> HIDE DEF g, full
<1>6. WaitType(wait')
  BY <1>1, <1>4, <1>5, Fields DEF WaitType
<1>7. TypeOK'
  BY <1>1, <1>2, <1>6, WaitStep
<1>8. /\ wait'.got = g /\ wait'.more = full /\ wait'.state = "answered"
      /\ wait'.since = wait.since /\ wait'.count = wait.count
  BY <1>1, <1>5, Fields DEF WaitType
<1>9. Counted'
  BY <1>1, <1>2, <1>8 DEF Counted
<1>10. Unseen'
  BY <1>1, <1>2, <1>4, <1>8, Fields DEF Unseen, Complete
<1>11. Ended'
  BY <1>8 DEF Ended
<1> QED
  BY <1>7, <1>9, <1>10, <1>11 DEF IInv

(* Steps that only move the call on within a poll, or end it without a     *)
(* result.                                                                 *)
LEMMA QuickInv ==
  ASSUME IInv, NextPage \/ ReadFails \/ PollAgain
  PROVE  IInv'
<1> USE WaitAssumption
<1>1. TypeOK /\ Counted
  BY DEF IInv
<1>2. UNCHANGED <<now, tail, indexed>>
  BY DEF NextPage, ReadFails, PollAgain
<1>3. PICK s \in {"asking", "failed"}, g \in {wait.got, 0} :
        wait' = [wait EXCEPT !.state = s, !.got = g]
  <2>1. CASE NextPage
    <3>1. wait' = [wait EXCEPT !.state = "asking", !.got = wait.got]
      BY <1>1, <2>1 DEF NextPage, TypeOK
    <3> QED
      BY <3>1
  <2>2. CASE ReadFails
    <3>1. wait' = [wait EXCEPT !.state = "failed", !.got = wait.got]
      BY <1>1, <2>2 DEF ReadFails, TypeOK
    <3> QED
      BY <3>1
  <2>3. CASE PollAgain
    BY <2>3 DEF PollAgain
  <2> QED
    BY <2>1, <2>2, <2>3
<1>4. TypeOK'
  <2>1. g \in 0 .. Len(indexed)
    BY <1>1, Fields
  <2>2. WaitType(wait')
    BY <1>1, <1>3, <2>1, Fields DEF WaitType
  <2> QED
    BY <1>1, <1>2, <2>2, WaitStep
<1>5. (Counted /\ Unseen /\ Ended)'
  BY <1>1, <1>2, <1>3, Fields DEF Counted, Unseen, Complete, Ended, WaitType
<1> QED
  BY <1>4, <1>5 DEF IInv

(* The end of a poll keeps types and the meaning of the window.            *)
LEMMA JudgedInv ==
  ASSUME IInv, NotYet
  PROVE  /\ WaitType(Judged)
         /\ Judged.ended = now
         /\ Judged.got = wait.got /\ Judged.kind = wait.kind
         /\ Judged.served = wait.served /\ Judged.deadline = wait.deadline
         /\ Judged.since # Nil =>
              \A k \in DOMAIN indexed : k <= Judged.count => indexed[k] <= Judged.since
<1> USE WaitAssumption
<1>1. TypeOK /\ Counted
  BY DEF IInv
<1>2. CASE wait.kind = "stable"
  <2>1. Judged = [wait EXCEPT !.count = wait.got, !.since = StableSince, !.ended = now]
    BY <1>2 DEF Judged
  <2>2. StableSince \in (0 .. now) \cup {Nil}
    BY <1>1 DEF TypeOK, StableSince
  <2>3. WaitType(Judged)
    <3>1. wait.got \in 0 .. Len(indexed) /\ now \in 0 .. now
      BY <1>1, Fields
    <3> QED
      BY <1>1, <2>1, <2>2, <3>1, Fields DEF WaitType
  <2>4. ASSUME StableSince # Nil, NEW k \in DOMAIN indexed, k <= wait.got
        PROVE  indexed[k] <= StableSince
    BY <1>1, <2>4, Fields DEF StableSince, Changed, Counted
  <2>5. /\ Judged.ended = now /\ Judged.got = wait.got /\ Judged.kind = wait.kind
        /\ Judged.served = wait.served /\ Judged.deadline = wait.deadline
        /\ Judged.count = wait.got /\ Judged.since = StableSince
    BY <1>1, <2>1, Fields DEF WaitType
  <2> QED
    BY <2>3, <2>4, <2>5
<1>3. CASE wait.kind # "stable"
  <2>1. Judged = [wait EXCEPT !.ended = now]
    BY <1>3 DEF Judged
  <2>2. now \in 0 .. now
    BY <1>1, Fields
  <2>3. WaitType(Judged)
    BY <1>1, <2>1, <2>2, Fields DEF WaitType
  <2>4. /\ Judged.ended = now /\ Judged.got = wait.got /\ Judged.kind = wait.kind
        /\ Judged.served = wait.served /\ Judged.deadline = wait.deadline
        /\ Judged.count = wait.count /\ Judged.since = wait.since
    BY <1>1, <2>1, Fields DEF WaitType
  <2> QED
    BY <1>1, <2>3, <2>4 DEF Counted
<1> QED
  BY <1>2, <1>3

(* Nothing yet, and time is left.                                          *)
LEMMA ContinuesInv ==
  ASSUME IInv, PollContinues
  PROVE  IInv'
<1> USE WaitAssumption
<1>1. TypeOK /\ NotYet
  BY DEF IInv, PollContinues
<1>2. UNCHANGED <<now, tail, indexed>>
  BY DEF PollContinues
<1>3. wait' = [Judged EXCEPT !.state = "sleeping", !.wake = now + Interval]
  BY DEF PollContinues
<1>4. TypeOK'
  <2>1. now + Interval \in Nat
    BY <1>1 DEF TypeOK
  <2>2. WaitType(wait')
    BY <1>1, <1>3, <2>1, JudgedInv DEF WaitType
  <2> QED
    BY <1>1, <1>2, <2>2 DEF TypeOK, WaitType
<1>5. Counted'
  BY <1>1, <1>2, <1>3, JudgedInv DEF Counted, WaitType
<1>6. (Unseen /\ Ended)'
  BY <1>1, <1>3, JudgedInv DEF Unseen, Complete, Ended, WaitType
<1> QED
  BY <1>4, <1>5, <1>6 DEF IInv

(* Nothing yet, and the time is over.                                      *)
LEMMA TimesOutInv ==
  ASSUME IInv, TimesOut
  PROVE  IInv'
<1> USE WaitAssumption
<1>1. TypeOK /\ Unseen /\ NotYet /\ now >= wait.deadline
  BY DEF IInv, TimesOut
<1>2. UNCHANGED <<now, tail, indexed>>
  BY DEF TimesOut
<1>3. wait' = [Judged EXCEPT !.state = "timedout"]
  BY DEF TimesOut
<1>4. TypeOK'
  <2>1. WaitType(wait')
    BY <1>1, <1>3, JudgedInv DEF WaitType
  <2> QED
    BY <1>1, <1>2, <2>1 DEF TypeOK, WaitType
<1>5. Counted'
  BY <1>1, <1>2, <1>3, JudgedInv DEF Counted, WaitType
<1>6. /\ wait'.state = "timedout" /\ wait'.kind = wait.kind
      /\ wait'.got = wait.got /\ wait'.served = wait.served
      /\ wait'.ended = now /\ wait'.deadline = wait.deadline
  BY <1>1, <1>3, JudgedInv DEF WaitType
<1>7. wait.kind = "any" => Complete /\ ~(wait.got > 0)
  BY <1>1 DEF NotYet, Complete, Satisfied
<1>8. Unseen'
  BY <1>1, <1>2, <1>6, <1>7 DEF Unseen, Complete
<1>9. Ended'
  BY <1>1, <1>6, <1>7 DEF Ended, TypeOK
<1> QED
  BY <1>4, <1>5, <1>8, <1>9 DEF IInv

(* The poll gives a result.                                                *)
LEMMA SucceedsInv ==
  ASSUME IInv, PollSucceeds
  PROVE  IInv'
<1> USE WaitAssumption
<1>1. TypeOK /\ Counted /\ Unseen /\ Complete
  BY DEF IInv, PollSucceeds, Complete
<1>2. UNCHANGED <<now, tail, indexed>>
  BY DEF PollSucceeds
<1>3. wait' = [wait EXCEPT !.state = "done", !.ended = now]
  BY DEF PollSucceeds
<1>4. TypeOK'
  <2>1. now \in 0 .. now
    BY <1>1, Fields
  <2>2. WaitType(wait')
    BY <1>1, <1>3, <2>1, Fields DEF WaitType
  <2> QED
    BY <1>1, <1>2, <2>2, WaitStep
<1>5. (Counted /\ Unseen)'
  BY <1>1, <1>2, <1>3 DEF Counted, Unseen, TypeOK
<1>6. wait.kind = "stable" => wait.since # Nil /\ wait.got = wait.count
  BY DEF PollSucceeds, Satisfied, Changed
<1>7. Ended'
  BY <1>1, <1>3, <1>6 DEF Ended, TypeOK
<1> QED
  BY <1>4, <1>5, <1>7 DEF IInv

(* Time passes, and others write to the topic.                             *)
LEMMA TickInv ==
  ASSUME IInv, Tick \/ Publish
  PROVE  IInv'
<1> USE WaitAssumption
<1>1. TypeOK
  BY DEF IInv
<1>2. UNCHANGED <<indexed, wait>>
  BY DEF Tick, Publish
<1>3. /\ now' \in 0 .. Horizon /\ 0 .. now \subseteq 0 .. now'
      /\ tail' \in 0 .. MaxTail /\ 0 .. tail \subseteq 0 .. tail'
      /\ tail <= tail'
  <2>1. now \in 0 .. Horizon /\ tail \in 0 .. MaxTail
    BY <1>1 DEF TypeOK
  <2>2. CASE Tick
    BY <2>1, <2>2 DEF Tick
  <2>3. CASE Publish
    BY <2>1, <2>3 DEF Publish
  <2> QED
    BY <2>2, <2>3
<1>4. TypeOK'
  <2>1. indexed' \in Seq(0 .. now')
    <3>1. indexed \in Seq(0 .. now)
      BY <1>1 DEF TypeOK
    <3> QED
      BY <1>2, <1>3, <3>1, SeqMonotonic
  <2>2. Len(indexed') <= tail'
    BY <1>1, <1>2, <1>3 DEF TypeOK
  <2>3. WaitType(wait)'
    BY <1>1, <1>2, <1>3 DEF TypeOK, WaitType
  <2> QED
    BY <1>3, <2>1, <2>2, <2>3 DEF TypeOK, WaitType
<1>5. (Counted /\ Unseen /\ Ended)'
  BY <1>2 DEF IInv, Counted, Unseen, Complete, Ended
<1> QED
  BY <1>4, <1>5 DEF IInv

(* The mirror node takes a message in, now.                                *)
LEMMA IndexInv ==
  ASSUME IInv, Index
  PROVE  IInv'
<1> USE WaitAssumption
<1>1. TypeOK /\ Counted /\ Unseen
  BY DEF IInv
<1>2. indexed' = Append(indexed, now) /\ UNCHANGED <<now, tail, wait>>
  BY DEF Index
<1>3. /\ indexed' \in Seq(0 .. now)
      /\ Len(indexed') = Len(indexed) + 1
      /\ \A k \in DOMAIN indexed' :
           IF k = Len(indexed) + 1 THEN indexed'[k] = now
           ELSE k \in DOMAIN indexed /\ indexed'[k] = indexed[k]
  BY <1>1, <1>2 DEF TypeOK
<1>4. TypeOK'
  <2>1. Len(indexed') <= tail /\ Len(indexed) \in Nat
    BY <1>1, <1>3 DEF TypeOK, Index
  <2>2. 0 .. Len(indexed) \subseteq 0 .. Len(indexed')
    BY <1>3, <2>1
  <2>3. WaitType(wait)'
    BY <1>1, <1>2, <2>2 DEF TypeOK, WaitType
  <2> QED
    BY <1>1, <1>2, <1>3, <2>1, <2>3 DEF TypeOK, WaitType
<1>5. Counted'
  BY <1>1, <1>2, <1>3, Fields DEF Counted
<1>6. Unseen'
  BY <1>1, <1>2, <1>3, Fields DEF Unseen, Complete
<1>7. Ended'
  BY <1>2 DEF IInv, Ended
<1> QED
  BY <1>4, <1>5, <1>6, <1>7 DEF IInv

(* Every step keeps the invariant.                                         *)
LEMMA StepInv == IInv /\ [Next]_vars => IInv'
<1> SUFFICES ASSUME IInv, [Next]_vars PROVE IInv'
  OBVIOUS
<1>1. ASSUME NEW kind \in Kind, NEW need \in 0 .. MaxTail, Begin(kind, need)
      PROVE  IInv'
  BY <1>1, BeginInv
<1>2. CASE Serve
  BY <1>2, ServeInv
<1>3. CASE NextPage \/ ReadFails \/ PollAgain
  BY <1>3, QuickInv
<1>4. CASE PollSucceeds
  BY <1>4, SucceedsInv
<1>5. CASE PollContinues
  BY <1>5, ContinuesInv
<1>6. CASE TimesOut
  BY <1>6, TimesOutInv
<1>7. CASE Tick \/ Publish
  BY <1>7, TickInv
<1>8. CASE Index
  BY <1>8, IndexInv
<1>9. CASE UNCHANGED vars
  BY <1>9 DEF vars, IInv, TypeOK, Counted, Unseen, Complete, Ended
<1> QED
  BY <1>1, <1>2, <1>3, <1>4, <1>5, <1>6, <1>7, <1>8, <1>9 DEF Next, Step

-----------------------------------------------------------------------------
(* The invariant holds in every reachable state.                           *)
THEOREM Invariance == Spec => []IInv
<1>1. Init => IInv
  BY InitInv
<1>2. IInv /\ [Next]_vars => IInv'
  BY StepInv
<1> QED
  BY <1>1, <1>2, PTL DEF Spec

(* The call and the mirror node keep their shapes.                         *)
THEOREM TypeCorrect == Spec => []TypeOK
<1>1. IInv => TypeOK
  BY DEF IInv
<1> QED
  BY <1>1, Invariance, PTL

(* wait_for_mirror_stable returns what did not change through its window.  *)
THEOREM StableMeansQuiet == Spec => []QuietOnMirror
<1>1. IInv => QuietOnMirror
  BY DEF IInv, TypeOK, Counted, Unseen, Complete, Ended, QuietOnMirror
<1> QED
  BY <1>1, Invariance, PTL

(* A timeout is reported by a poll that ended after the deadline and, for  *)
(* wait_for_mirror, had nothing to find.                                   *)
THEOREM TimeoutsTellTheTruth == Spec => []TimeoutsAreTruthful
<1>1. IInv => TimeoutsAreTruthful
  BY DEF IInv, TypeOK, Unseen, Complete, Ended, TimeoutsAreTruthful
<1> QED
  BY <1>1, Invariance, PTL
================================================================================
