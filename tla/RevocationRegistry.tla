-------------------------- MODULE RevocationRegistry --------------------------
(***************************************************************************)
(* Revocation status lists on one entries topic (anoncreds/src/registry.rs *)
(* 177-316).  A list is registered by reading the topic, comparing the     *)
(* list with what was read, and appending the difference.  Any number of   *)
(* issuers' processes do so at a time, and none of the three steps is      *)
(* atomic with the next.  The definition that names the topic is a file    *)
(* (module HcsFile); here it exists, and reading it may fail.              *)
(***************************************************************************)
EXTENDS Integers, Sequences, FiniteSets

CONSTANTS
  Issuer,       \* processes that call register_revocation_status_list
  StatusList,   \* lists they may register: [len, revoked]
  Stray,        \* what else is on the topic: undecodable, or without accumulator
  MaxCredNum,   \* value.maxCredNum of the definition
  MaxCalls,     \* bound: registrations
  MaxStray      \* bound: a stray message is posted behind fewer than this many

Cred == 0 .. MaxCredNum - 1

AnyList == [len : Nat, revoked : SUBSET Nat]

(* Accumulators are numbers: the n-th registration brings the n-th one.    *)
(* NoAccum stands for a missing or an empty accumulator.                   *)
NoAccum == 0
Entry == [accum : Nat, prev : Nat, issued : SUBSET Nat, revoked : SUBSET Nat]

ASSUME RegistryAssumption ==
  /\ MaxCredNum \in Nat
  /\ MaxCalls \in Nat
  /\ MaxStray \in Nat
  /\ StatusList \subseteq {l \in AnyList : l.revoked \subseteq 0 .. l.len - 1}
  /\ Stray \subseteq {e \in Entry : e.accum = NoAccum}

VARIABLES
  entries,    \* the entries topic, in consensus order
  issuer,     \* per process: where it is, its list, the entry it appends
  calls,      \* registrations begun
  limbo,      \* entries of calls that failed, still on their way
  promised    \* credentials revoked by a list whose registration returned Ok

vars == <<entries, issuer, calls, limbo, promised>>

(* For the number of messages a process has read: it could not read.       *)
Unread == -1

(* Decodable entries with an accumulator: all that readers look at.        *)
Counted(log) == {j \in DOMAIN log : log[j].accum # NoAccum}

(* The loop of resolve_revocation_status_list: the last entry that names a *)
(* credential decides; within one entry revoked comes after issued, and    *)
(* indices beyond the registry's size are skipped.                         *)
RevokedBy(log) ==
  {c \in Cred : \E j \in Counted(log) :
     /\ c \in log[j].revoked
     /\ \A k \in Counted(log) : k > j => c \notin log[k].issued}

(* current_accumulator: that of the last entry, of whatever list.          *)
CurrentAccum(log) ==
  IF Counted(log) = {} THEN NoAccum
  ELSE log[CHOOSE j \in Counted(log) : \A k \in Counted(log) : k <= j].accum

(* Where no current list was found, or reading it failed, the list is      *)
(* compared with zeros, as many as it has itself.                          *)
SameLength(log, list) == Counted(log) = {} \/ list.len = MaxCredNum

(* Fault: the indices are taken to start at one.                           *)
ShiftedDifference(log, list, accum) ==
  [accum |-> accum,
   prev |-> CurrentAccum(log),
   issued |-> {c - 1 : c \in RevokedBy(log) \ list.revoked},
   revoked |-> {c - 1 : c \in list.revoked \ RevokedBy(log)}]

(* Fault: what is no longer revoked is not compared.                       *)
OneWayDifference(log, list, accum) ==
  [accum |-> accum,
   prev |-> CurrentAccum(log),
   issued |-> {},
   revoked |-> list.revoked \ RevokedBy(log)]

(* compute_status_list_diff, and the entry made of it.                     *)
Difference(log, list, accum) ==
  [accum |-> accum,
   prev |-> CurrentAccum(log),
   issued |-> RevokedBy(log) \ list.revoked,
   revoked |-> list.revoked \ RevokedBy(log)]

NoList == [len |-> 0, revoked |-> {}]
Idle == [pc |-> "idle", seen |-> Unread, list |-> NoList,
         entry |-> Difference(<<>>, NoList, NoAccum)]

Init ==
  /\ entries = <<>>
  /\ issuer = [i \in Issuer |-> Idle]
  /\ calls = 0
  /\ limbo = {}
  /\ promised = {}

Register(i, list) ==
  /\ issuer[i].pc = "idle"
  /\ calls < MaxCalls
  /\ calls' = calls + 1
  /\ issuer' = [issuer EXCEPT
       ![i] = [Idle EXCEPT !.pc = "reading", !.list = list,
                           !.entry = [@ EXCEPT !.accum = calls']]]
  /\ UNCHANGED <<entries, limbo, promised>>

Return(i) == issuer' = [issuer EXCEPT ![i] = Idle]

(* The definition cannot be read.                                          *)
DefinitionFails(i) ==
  /\ issuer[i].pc = "reading"
  /\ Return(i)
  /\ UNCHANGED <<entries, calls, limbo, promised>>

Prepare(i, n, log) ==
  issuer' = [issuer EXCEPT ![i].pc = "submitting", ![i].seen = n,
               ![i].entry = Difference(log, issuer[i].list, @.accum)]

(* The stream delivered the first n messages: all there are, those up to   *)
(* the list's own timestamp, or those before it idled for five seconds.    *)
ReadCurrent(i, n) ==
  LET log == SubSeq(entries, 1, n) IN
  /\ issuer[i].pc = "reading"
  /\ SameLength(log, issuer[i].list)
  /\ Prepare(i, n, log)
  /\ UNCHANGED <<entries, calls, limbo, promised>>

(* A list of another length than the one read is turned down.              *)
RejectLength(i, n) ==
  /\ issuer[i].pc = "reading"
  /\ ~SameLength(SubSeq(entries, 1, n), issuer[i].list)
  /\ Return(i)
  /\ UNCHANGED <<entries, calls, limbo, promised>>

(* An error of the read is dropped by ok().flatten(): as if the topic were *)
(* empty.                                                                  *)
ReadFails(i) ==
  /\ issuer[i].pc = "reading"
  /\ Prepare(i, Unread, <<>>)
  /\ UNCHANGED <<entries, calls, limbo, promised>>

(* The entry reaches consensus.                                            *)
Lands(i) ==
  /\ issuer[i].pc = "submitting"
  /\ entries' = Append(entries, issuer[i].entry)
  /\ issuer' = [issuer EXCEPT ![i].pc = "landed"]
  /\ UNCHANGED <<calls, limbo, promised>>

(* Fault: the result of the submission is dropped.                         *)
UncheckedSubmit(i) ==
  /\ issuer[i].pc = "submitting"
  /\ Return(i)
  /\ limbo' \in {limbo, limbo \cup {issuer[i].entry}}
  /\ promised' = promised \cup issuer[i].list.revoked
  /\ UNCHANGED <<entries, calls>>

(* execute or get_receipt fails first: the entry is lost, or lands later.  *)
SubmitFails(i) ==
  /\ issuer[i].pc = "submitting"
  /\ Return(i)
  /\ limbo' \in {limbo, limbo \cup {issuer[i].entry}}
  /\ UNCHANGED <<entries, calls, promised>>

ReceiptSucceeds(i) ==
  /\ issuer[i].pc = "landed"
  /\ promised' = promised \cup issuer[i].list.revoked
  /\ Return(i)
  /\ UNCHANGED <<entries, calls, limbo>>

ReceiptFails(i) ==
  /\ issuer[i].pc = "landed"
  /\ Return(i)
  /\ UNCHANGED <<entries, calls, limbo, promised>>

LateEntry ==
  /\ \E e \in limbo :
       /\ entries' = Append(entries, e)
       /\ limbo' = limbo \ {e}
  /\ UNCHANGED <<issuer, calls, promised>>

(* A holder of the submit key posts something else.                        *)
StrayMessage ==
  /\ Len(entries) < MaxStray
  /\ \E e \in Stray : entries' = Append(entries, e)
  /\ UNCHANGED <<issuer, calls, limbo, promised>>

Step(i) ==
  \/ \E list \in StatusList : Register(i, list)
  \/ DefinitionFails(i)
  \/ \E n \in 0 .. Len(entries) : ReadCurrent(i, n)
  \/ \E n \in 0 .. Len(entries) : RejectLength(i, n)
  \/ ReadFails(i)
  \/ Lands(i)
  \/ SubmitFails(i)
  \/ ReceiptSucceeds(i)
  \/ ReceiptFails(i)

Next == (\E i \in Issuer : Step(i)) \/ LateEntry \/ StrayMessage

Spec == Init /\ [][Next]_vars

-----------------------------------------------------------------------------
TypeOK ==
  /\ entries \in Seq(Entry)
  /\ issuer \in [Issuer -> [pc : {"idle", "reading", "submitting", "landed"},
                            seen : Nat \cup {Unread}, list : AnyList, entry : Entry]]
  /\ calls \in 0 .. MaxCalls
  /\ limbo \subseteq Entry
  /\ promised \subseteq Nat

(* A credential that a successful registration revoked is revoked for      *)
(* every reader of the whole topic unless some list, landed at any time,   *)
(* un-revoked it: truncated and failed reads, lists registered at a time   *)
(* and late entries can drop un-revocations, never a revocation            *)
(* (registry.rs 189-214).                                                  *)
RevocationSticks ==
  \A c \in promised \cap Cred :
    \/ c \in RevokedBy(entries)
    \/ \E j \in Counted(entries) : c \in entries[j].issued

(* A list whose entry lands before anything else does after a complete     *)
(* read is from then on what readers get, with its accumulator and linked  *)
(* to the one before, whatever failed before it (registry.rs 204-214).     *)
Fresh(i) == issuer[i].pc = "submitting" /\ issuer[i].seen = Len(entries)

FreshListWins ==
  [][\A i \in Issuer :
       Fresh(i) /\ entries' = Append(entries, issuer[i].entry) =>
         /\ RevokedBy(entries') = issuer[i].list.revoked \cap Cred
         /\ CurrentAccum(entries') = issuer[i].entry.accum
         /\ issuer[i].entry.prev = CurrentAccum(entries)]_vars
==============================================================================
