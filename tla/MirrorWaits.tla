------------------------------ MODULE MirrorWaits ------------------------------
(***************************************************************************)
(* Waiting for the mirror node: wait_for_mirror and wait_for_mirror_stable *)
(* (resolver/src/mirror.rs) and resolve_did_until (sdk/src/sdk.rs), all of *)
(* them built on poll_until (utils/src/polling.rs).  The mirror node takes *)
(* messages in some time after consensus, and answers a paged request with *)
(* what it has when it answers, which is not when it is asked.  Waits      *)
(* share nothing, so there is one.                                         *)
(***************************************************************************)
EXTENDS Integers, Sequences

CONSTANTS
  Nil,
  PageSize,    \* limit=100
  Interval,    \* between two polls
  Window,      \* stable_window_ms
  Timeout,     \* timeout_secs
  MaxTail,     \* bound: messages of the topic
  Horizon      \* bound: the last point of time

(* wait_for_mirror, wait_for_mirror_stable, resolve_did_until.             *)
Kind == {"any", "stable", "until"}

ASSUME WaitAssumption ==
  /\ Nil \notin Nat
  /\ PageSize \in Nat \ {0}
  /\ Interval \in Nat
  /\ Window \in Nat
  /\ Timeout \in Nat
  /\ MaxTail \in Nat
  /\ Horizon \in Nat

VARIABLES
  now,
  tail,       \* messages of the topic that reached consensus
  indexed,    \* when the mirror node took them in, in their order
  wait        \* the call

vars == <<now, tail, indexed, wait>>

(* got, more: messages of the current poll, and whether another page       *)
(* follows; count, since: the inter-iteration state of the stable wait;    *)
(* need: how many messages make the predicate true.  For the properties:   *)
(* posted, what the topic held when the call began; served, when the mirror*)
(* node gave its last answer; ended, when the last poll was over.          *)
Idle ==
  [state |-> "idle", kind |-> "any", need |-> 0, deadline |-> 0, wake |-> 0,
   got |-> 0, more |-> FALSE, count |-> 0, since |-> Nil,
   posted |-> 0, served |-> 0, ended |-> 0]

Init ==
  /\ now = 0
  /\ tail \in 0 .. MaxTail
  /\ indexed \in {[k \in 1 .. n |-> 0] : n \in 0 .. tail}
  /\ wait = Idle

Deadline == now + Timeout

(* Bound: no call that might have to sleep beyond the horizon.             *)
Begin(kind, need) ==
  /\ wait.state = "idle"
  /\ Deadline + Interval <= Horizon
  /\ wait' = [Idle EXCEPT !.state = "asking", !.kind = kind, !.need = need,
                          !.deadline = Deadline, !.posted = tail]
  /\ UNCHANGED <<now, tail, indexed>>

(***************************************************************************)
(* get_topic_messages                                                      *)
(***************************************************************************)

(* The mirror node fills a page; a full one has a link to the next.        *)
Serve ==
  LET rest == Len(indexed) - wait.got
      full == rest >= PageSize IN
  /\ wait.state = "asking"
  /\ wait' = [wait EXCEPT !.state = "answered", !.served = now, !.more = full,
                          !.got = @ + (IF full THEN PageSize ELSE rest)]
  /\ UNCHANGED <<now, tail, indexed>>

NextPage ==
  /\ wait.state = "answered"
  /\ wait.more
  /\ wait' = [wait EXCEPT !.state = "asking"]
  /\ UNCHANGED <<now, tail, indexed>>

(* A request fails, or a message is no base64 of UTF-8: resolve_did_until  *)
(* drops the error, the other two return it.                               *)
ReadFails ==
  /\ wait.state \in {"asking", "answered"}
  /\ wait.kind # "until"
  /\ wait' = [wait EXCEPT !.state = "failed"]
  /\ UNCHANGED <<now, tail, indexed>>

(***************************************************************************)
(* The verdict of one poll                                                 *)
(***************************************************************************)

Changed == wait.got # wait.count

(* Fault: the window is not started again by new messages.                 *)
FirstSince == IF wait.since = Nil THEN now ELSE wait.since

(* Since when the mirror node has shown the same number of messages.       *)
StableSince == IF Changed \/ wait.since = Nil THEN now ELSE wait.since

Satisfied ==
  \/ wait.kind = "any" /\ wait.got > 0
  \/ wait.kind = "until" /\ wait.got >= wait.need
  \/ /\ wait.kind = "stable"
     /\ ~Changed
     /\ wait.since # Nil
     /\ now - wait.since >= Window

PollSucceeds ==
  /\ wait.state = "answered"
  /\ ~wait.more
  /\ Satisfied
  /\ wait' = [wait EXCEPT !.state = "done", !.ended = now]
  /\ UNCHANGED <<now, tail, indexed>>

(* Nothing yet: a read that gave no verdict, or one that failed.           *)
NotYet ==
  \/ wait.state = "answered" /\ ~wait.more /\ ~Satisfied
  \/ wait.state \in {"asking", "answered"} /\ wait.kind = "until"

(* Fault: the counts of all polls are added up.                            *)
AddedUp ==
  IF wait.kind = "stable"
  THEN [wait EXCEPT !.count = @ + wait.got, !.since = StableSince, !.ended = now]
  ELSE [wait EXCEPT !.ended = now]

Judged ==
  IF wait.kind = "stable"
  THEN [wait EXCEPT !.count = wait.got, !.since = StableSince, !.ended = now]
  ELSE [wait EXCEPT !.ended = now]

(* Fault: every poll has the whole time.                                   *)
RenewDeadline ==
  /\ NotYet
  /\ now < wait.deadline
  /\ wait' = [Judged EXCEPT !.state = "sleeping", !.wake = now + Interval,
                            !.deadline = Deadline]
  /\ UNCHANGED <<now, tail, indexed>>

PollContinues ==
  /\ NotYet
  /\ now < wait.deadline
  /\ wait' = [Judged EXCEPT !.state = "sleeping", !.wake = now + Interval]
  /\ UNCHANGED <<now, tail, indexed>>

TimesOut ==
  /\ NotYet
  /\ now >= wait.deadline
  /\ wait' = [Judged EXCEPT !.state = "timedout"]
  /\ UNCHANGED <<now, tail, indexed>>

(* Fault: the deadline is looked at after the sleep.                       *)
DeadlineFirst ==
  /\ wait.state = "sleeping"
  /\ now >= wait.wake
  /\ wait' = IF now >= wait.deadline THEN [wait EXCEPT !.state = "timedout"]
             ELSE [wait EXCEPT !.state = "asking", !.got = 0]
  /\ UNCHANGED <<now, tail, indexed>>

(* sleep takes the interval, or longer; then the topic is read anew.       *)
PollAgain ==
  /\ wait.state = "sleeping"
  /\ now >= wait.wake
  /\ wait' = [wait EXCEPT !.state = "asking", !.got = 0]
  /\ UNCHANGED <<now, tail, indexed>>

(***************************************************************************)
(* The world                                                               *)
(***************************************************************************)

Tick ==
  /\ now < Horizon
  /\ now' = now + 1
  /\ UNCHANGED <<tail, indexed, wait>>

Publish ==
  /\ tail < MaxTail
  /\ tail' = tail + 1
  /\ UNCHANGED <<now, indexed, wait>>

Index ==
  /\ Len(indexed) < tail
  /\ indexed' = Append(indexed, now)
  /\ UNCHANGED <<now, tail, wait>>

Step ==
  \/ Serve
  \/ NextPage
  \/ ReadFails
  \/ PollSucceeds
  \/ PollContinues
  \/ TimesOut
  \/ PollAgain

Next ==
  \/ \E kind \in Kind, need \in 0 .. MaxTail :
       (kind # "until" => need = 0) /\ Begin(kind, need)
  \/ Step
  \/ Tick
  \/ Publish
  \/ Index

(* The steps the call takes by itself: the task is polled and the sleep    *)
(* ends.  While it is asking, the next step is the mirror node's.          *)
Proceed ==
  /\ wait.state # "asking"
  /\ NextPage \/ PollSucceeds \/ PollContinues \/ TimesOut \/ PollAgain

(* The call proceeds and time passes.  Nothing makes the mirror node take  *)
(* messages in, nor answer a request or let it fail: requests are made     *)
(* without a timeout, and a poll is awaited for as long as it takes.       *)
Spec == Init /\ [][Next]_vars /\ WF_vars(Proceed) /\ WF_vars(Tick)

-----------------------------------------------------------------------------
(* A poll never holds more than the mirror node has.                       *)
TypeOK ==
  /\ now \in 0 .. Horizon
  /\ tail \in 0 .. MaxTail
  /\ indexed \in Seq(0 .. now)
  /\ Len(indexed) <= tail
  /\ wait \in
       [state : {"idle", "asking", "answered", "sleeping", "done", "failed", "timedout"},
        kind : Kind, need : 0 .. MaxTail, deadline : Nat, wake : Nat,
        got : 0 .. Len(indexed), more : BOOLEAN, count : 0 .. Len(indexed),
        since : (0 .. now) \cup {Nil},
        posted : 0 .. tail, served : 0 .. now, ended : 0 .. now]

(* What a stable wait returns is what the mirror node had from the moment  *)
(* the window began to its last answer: messages that came in meanwhile,   *)
(* also between two pages or between an answer and its arrival, begin a new*)
(* window (mirror.rs 123-136).                                             *)
QuietOnMirror ==
  wait.state = "done" /\ wait.kind = "stable" =>
    \A k \in DOMAIN indexed :
      IF k <= wait.got THEN indexed[k] <= wait.since
      ELSE indexed[k] >= wait.served

(* A wait that reports a timeout has polled once more at the end of its    *)
(* time or later, and for wait_for_mirror nothing was there to be read     *)
(* then (polling.rs 17-25).                                                *)
TimeoutsAreTruthful ==
  wait.state = "timedout" =>
    /\ wait.ended >= wait.deadline
    /\ wait.kind = "any" => \A k \in DOMAIN indexed : indexed[k] >= wait.served

(* A wait ends unless one of its requests is left open for ever: whatever  *)
(* the mirror node takes in, and however late it answers, one poll after   *)
(* the deadline decides (polling.rs 16-26).  The premise is needed, for an *)
(* open request is given up by nobody (mirror.rs 40-60, polling.rs 18).    *)
EveryRequestEnds == []<>(wait.state # "asking")

WaitsReturn ==
  EveryRequestEnds
    => (wait.state # "idle" ~> wait.state \in {"done", "failed", "timedout"})

(* A caller who waits after writing to the topic gets what was written.    *)
OwnWritesSeen ==
  wait.state = "done" /\ wait.kind # "until" => wait.got >= wait.posted
================================================================================
