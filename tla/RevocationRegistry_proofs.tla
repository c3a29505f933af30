----------------------- MODULE RevocationRegistry_proofs -----------------------
(***************************************************************************)
(* No revocation is lost, and a list registered after a complete read is   *)
(* what readers get: for any number of processes, credentials and lists.   *)
(***************************************************************************)
EXTENDS RevocationRegistry, WellFoundedInduction, TLAPS

(* Positions of a log that are counted have a last one.                    *)
LEMMA LastExists ==
  ASSUME NEW n \in Nat, NEW T \in SUBSET (1 .. n), T # {}
  PROVE  \E x \in T : \A y \in T : y <= x
<1> DEFINE R == OpToRel(<, Nat)
           U == {d \in Nat : n - d \in T}
<1>1. IsWellFoundedOn(R, Nat)
  BY NatLessThanWellFounded
<1>2. U \subseteq Nat /\ U # {}
  <2>1. PICK x \in T : TRUE
    OBVIOUS
  <2>2. n - x \in Nat /\ n - (n - x) = x
    BY <2>1
  <2> QED
    BY <2>1, <2>2
<1>3. \E x \in U : \A y \in U : <<y, x>> \notin R
  <2> HIDE DEF R, U
  <2> QED
    BY <1>1, <1>2, WFMin
<1>4. PICK d \in U : \A e \in U : <<e, d>> \notin R
  BY <1>3
<1>5. \A e \in U : ~(e < d)
  BY <1>4 DEF OpToRel
<1>6. \A y \in T : y <= n - d
  <2> SUFFICES ASSUME NEW y \in T
               PROVE  y <= n - d
    OBVIOUS
  <2>1. n - y \in U
    OBVIOUS
  <2> QED
    BY <2>1, <1>5
<1> QED
  BY <1>6

(***************************************************************************)
(* What readers make of a log.                                             *)
(***************************************************************************)

Log == Seq(Entry)

(* An accumulator read from a log is one of its entries', or none.         *)
LEMMA CurrentAccumType ==
  ASSUME NEW log \in Log
  PROVE  CurrentAccum(log) \in Nat
<1>1. CASE Counted(log) = {}
  BY <1>1 DEF CurrentAccum, NoAccum
<1>2. CASE Counted(log) # {}
  <2>1. Counted(log) \in SUBSET (1 .. Len(log)) /\ Len(log) \in Nat
    BY DEF Counted, Log
  <2>2. \E j \in Counted(log) : \A k \in Counted(log) : k <= j
    BY <1>2, <2>1, LastExists
  <2>3. PICK j \in Counted(log) : CurrentAccum(log) = log[j].accum
    BY <1>2, <2>2 DEF CurrentAccum
  <2>4. log[j] \in Entry
    BY <2>1, <2>3 DEF Log
  <2> QED
    BY <2>3, <2>4 DEF Entry
<1> QED
  BY <1>1, <1>2

(* A difference is an entry, whatever was read.                            *)
LEMMA DifferenceType ==
  ASSUME NEW log \in Log, NEW list \in AnyList, NEW a \in Nat
  PROVE  /\ RevokedBy(log) \subseteq Cred
         /\ Difference(log, list, a) \in Entry
<1>1. RevokedBy(log) \subseteq Cred
  BY DEF RevokedBy
<1>2. Cred \subseteq Nat
  BY RegistryAssumption DEF Cred
<1> QED
  BY <1>1, <1>2, CurrentAccumType DEF Difference, Entry, AnyList

(* An entry at the end decides about the credentials it names.             *)
LEMMA AppendedEntry ==
  ASSUME NEW log \in Log, NEW e \in Entry, e.accum # NoAccum
  PROVE  /\ RevokedBy(Append(log, e)) =
              (RevokedBy(log) \ e.issued) \cup (e.revoked \cap Cred)
         /\ CurrentAccum(Append(log, e)) = e.accum
<1> DEFINE new == Append(log, e)
           n == Len(log) + 1
<1>1. /\ Len(log) \in Nat
      /\ DOMAIN log = 1 .. Len(log)
      /\ DOMAIN new = 1 .. n
      /\ new[n] = e
      /\ \A j \in 1 .. Len(log) : new[j] = log[j]
  BY DEF Log
<1>2. Counted(new) = Counted(log) \cup {n}
  BY <1>1 DEF Counted
<1>3. \A j \in Counted(log) : j \in Nat /\ j < n /\ new[j] = log[j]
  BY <1>1 DEF Counted
<1> HIDE DEF new, n
<1>4. ASSUME NEW c \in Cred
      PROVE  c \in RevokedBy(new) <=>
               c \in e.revoked \/ (c \in RevokedBy(log) /\ c \notin e.issued)
  <2>1. CASE c \in e.revoked
    <3>1. \A k \in Counted(new) : ~(k > n)
      BY <1>1, <1>2, <1>3 DEF n
    <3> QED
      BY <2>1, <3>1, <1>1, <1>2 DEF RevokedBy
  <2>2. CASE c \notin e.revoked /\ c \in RevokedBy(new)
    <3>1. PICK j \in Counted(new) :
            /\ c \in new[j].revoked
            /\ \A k \in Counted(new) : k > j => c \notin new[k].issued
      BY <2>2 DEF RevokedBy
    <3>2. j \in Counted(log)
      BY <1>1, <1>2, <2>2, <3>1
    <3>3. n > j /\ c \notin e.issued
      BY <1>1, <1>2, <1>3, <3>1, <3>2 DEF n, Counted
    <3>4. c \in RevokedBy(log)
      BY <1>2, <1>3, <3>1, <3>2 DEF RevokedBy
    <3> QED
      BY <2>2, <3>3, <3>4
  <2>3. CASE c \notin e.revoked /\ c \in RevokedBy(log) /\ c \notin e.issued
    <3>1. PICK j \in Counted(log) :
            /\ c \in log[j].revoked
            /\ \A k \in Counted(log) : k > j => c \notin log[k].issued
      BY <2>3 DEF RevokedBy
    <3>2. \A k \in Counted(new) : k > j => c \notin new[k].issued
      BY <1>1, <1>2, <1>3, <2>3, <3>1
    <3> QED
      BY <1>2, <1>3, <2>3, <3>1, <3>2 DEF RevokedBy
  <2> QED
    BY <2>1, <2>2, <2>3
<1>5. RevokedBy(new) \subseteq Cred /\ RevokedBy(log) \subseteq Cred
  BY DEF RevokedBy
<1>6. RevokedBy(new) = (RevokedBy(log) \ e.issued) \cup (e.revoked \cap Cred)
  BY <1>4, <1>5
<1>7. CurrentAccum(new) = e.accum
  <2>1. n \in Counted(new) /\ \A k \in Counted(new) : k <= n
    BY <1>1, <1>2, <1>3 DEF n, Counted
  <2>2. \A j \in Counted(new) : (\A k \in Counted(new) : k <= j) => j = n
    BY <1>1, <1>2, <1>3, <2>1 DEF n, Counted
  <2> QED
    BY <1>1, <2>1, <2>2 DEF CurrentAccum
<1> QED
  BY <1>6, <1>7 DEF new

(* Entries that follow do not change what was read.                        *)
LEMMA ReadStays ==
  ASSUME NEW log \in Log, NEW e \in Entry, NEW m \in 0 .. Len(log)
  PROVE  /\ SubSeq(log, 1, m) \in Log
         /\ SubSeq(Append(log, e), 1, m) = SubSeq(log, 1, m)
         /\ SubSeq(log, 1, Len(log)) = log
BY DEF Log

(***************************************************************************)
(* The inductive invariant.                                                *)
(***************************************************************************)

(* Some entry on the topic revokes c.                                      *)
RevokedOnce(c) == \E j \in Counted(entries) : c \in entries[j].revoked

(* Before its entry lands, every credential a process is to revoke is in   *)
(* that entry or was revoked by an entry the process read.                 *)
Covered(i) ==
  issuer[i].pc = "submitting" =>
    \A c \in issuer[i].list.revoked \cap Cred :
      c \in issuer[i].entry.revoked \/ RevokedOnce(c)

Recorded(i) ==
  issuer[i].pc = "landed" =>
    \A c \in issuer[i].list.revoked \cap Cred : RevokedOnce(c)

(* An entry in preparation counts, and is the difference to what was read. *)
Prepared(i) ==
  /\ issuer[i].pc # "idle" => issuer[i].entry.accum # NoAccum
  /\ issuer[i].pc = "submitting" /\ issuer[i].seen # Unread =>
       /\ issuer[i].seen \in 0 .. Len(entries)
       /\ issuer[i].entry = Difference(SubSeq(entries, 1, issuer[i].seen),
                                       issuer[i].list, issuer[i].entry.accum)

PromisesRecorded == \A c \in promised \cap Cred : RevokedOnce(c)

IInv ==
  /\ TypeOK
  /\ \A i \in Issuer : Covered(i) /\ Recorded(i) /\ Prepared(i)
  /\ PromisesRecorded

(* A topic nobody has written to, or nobody could read.                    *)
LEMMA EmptyLog ==
  /\ <<>> \in Log
  /\ Counted(<<>>) = {}
  /\ RevokedBy(<<>>) = {}
BY DEF Log, Counted, RevokedBy

(* The record of a process between two calls.                              *)
LEMMA IdleType == NoList \in AnyList /\ Idle.entry \in Entry /\
  Idle \in [pc : {"idle"}, seen : {Unread}, list : AnyList, entry : Entry]
<1>1. NoList \in AnyList
  BY DEF NoList, AnyList
<1>2. Difference(<<>>, NoList, NoAccum) \in Entry
  BY <1>1, EmptyLog, DifferenceType DEF NoAccum
<1> QED
  BY <1>1, <1>2 DEF Idle

(* Initially nothing is on the topic and nothing promised.                 *)
LEMMA InitInv == Init => IInv
<1> SUFFICES ASSUME Init PROVE IInv
  OBVIOUS
<1>1. TypeOK
  BY IdleType, RegistryAssumption DEF Init, TypeOK
<1>2. \A i \in Issuer : issuer[i].pc = "idle"
  BY IdleType DEF Init
<1>3. PromisesRecorded
  BY DEF Init, PromisesRecorded
<1> QED
  BY <1>1, <1>2, <1>3 DEF IInv, Covered, Recorded, Prepared

(* A process that returns is idle, and owes nothing.                       *)
LEMMA ReturnKeeps ==
  ASSUME IInv, NEW i \in Issuer, Return(i), UNCHANGED entries
  PROVE  /\ issuer' \in [Issuer -> [pc : {"idle", "reading", "submitting", "landed"},
                            seen : Nat \cup {Unread}, list : AnyList, entry : Entry]]
         /\ \A k \in Issuer : Covered(k)' /\ Recorded(k)' /\ Prepared(k)'
<1>1. issuer' = [issuer EXCEPT ![i] = Idle]
  BY DEF Return
<1>2. issuer'[i] = Idle /\ \A k \in Issuer \ {i} : issuer'[k] = issuer[k]
  BY <1>1 DEF IInv, TypeOK
<1>3. issuer' \in [Issuer -> [pc : {"idle", "reading", "submitting", "landed"},
                            seen : Nat \cup {Unread}, list : AnyList, entry : Entry]]
  BY <1>1, IdleType DEF IInv, TypeOK
<1>4. Idle.pc = "idle"
  BY IdleType
<1>5. \A c : RevokedOnce(c) <=> RevokedOnce(c)'
  BY DEF RevokedOnce
<1>6. Covered(i)' /\ Recorded(i)' /\ Prepared(i)'
  BY <1>2, <1>4 DEF Covered, Recorded, Prepared
<1>7. ASSUME NEW k \in Issuer \ {i}
      PROVE  Covered(k)' /\ Recorded(k)' /\ Prepared(k)'
  BY <1>2, <1>5 DEF IInv, Covered, Recorded, Prepared
<1> QED
  BY <1>3, <1>6, <1>7

(* An entry more on the topic takes back no record.                        *)
LEMMA AppendKeeps ==
  ASSUME IInv, NEW e \in Entry, entries' = Append(entries, e)
  PROVE  /\ entries' \in Seq(Entry)
         /\ \A c : RevokedOnce(c) => RevokedOnce(c)'
         /\ e.accum # NoAccum => \A c \in e.revoked : RevokedOnce(c)'
         /\ \A k \in Issuer : issuer'[k] = issuer[k] =>
              Covered(k)' /\ Recorded(k)' /\ Prepared(k)'
<1>1. entries \in Log /\ Len(entries) \in Nat
  BY DEF IInv, TypeOK, Log
<1>2. /\ entries' \in Seq(Entry)
      /\ Len(entries') = Len(entries) + 1
      /\ entries'[Len(entries) + 1] = e
      /\ \A j \in 1 .. Len(entries) : entries'[j] = entries[j]
      /\ DOMAIN entries = 1 .. Len(entries)
      /\ DOMAIN entries' = 1 .. Len(entries) + 1
  BY <1>1 DEF Log
<1>3. \A j \in Counted(entries) : j \in Counted(entries') /\ entries'[j] = entries[j]
  BY <1>1, <1>2 DEF Counted
<1>4. \A c : RevokedOnce(c) => RevokedOnce(c)'
  BY <1>3 DEF RevokedOnce
<1>5. e.accum # NoAccum => \A c \in e.revoked : RevokedOnce(c)'
  <2>1. e.accum # NoAccum => Len(entries) + 1 \in Counted(entries')
    BY <1>1, <1>2 DEF Counted
  <2> QED
    BY <1>2, <2>1 DEF RevokedOnce
<1>6. ASSUME NEW k \in Issuer, issuer'[k] = issuer[k]
      PROVE  Covered(k)' /\ Recorded(k)' /\ Prepared(k)'
  <2>1. Covered(k)' /\ Recorded(k)'
    BY <1>4, <1>6 DEF IInv, Covered, Recorded
  <2>2. \A m \in 0 .. Len(entries) : SubSeq(entries', 1, m) = SubSeq(entries, 1, m)
    BY <1>1, ReadStays
  <2>3. \A m \in 0 .. Len(entries) : m \in 0 .. Len(entries')
    BY <1>1, <1>2
  <2>4. Prepared(k)'
    BY <1>6, <2>2, <2>3 DEF IInv, Prepared
  <2> QED
    BY <2>1, <2>4
<1> QED
  BY <1>2, <1>4, <1>5, <1>6

(***************************************************************************)
(* One lemma per kind of step.                                             *)
(***************************************************************************)

(* A read, complete, truncated or failed, leaves a process with an entry   *)
(* that covers its list.                                                   *)
LEMMA PrepareInv ==
  ASSUME IInv, NEW i \in Issuer, NEW n \in Nat \cup {Unread}, NEW log \in Log,
         issuer[i].pc = "reading", Prepare(i, n, log),
         \A c \in RevokedBy(log) : RevokedOnce(c),
         n # Unread => n \in 0 .. Len(entries) /\ log = SubSeq(entries, 1, n),
         UNCHANGED <<entries, calls, limbo, promised>>
  PROVE  IInv'
<1> DEFINE d == Difference(log, issuer[i].list, issuer[i].entry.accum)
<1>1. issuer[i] \in [pc : {"idle", "reading", "submitting", "landed"},
                     seen : Nat \cup {Unread}, list : AnyList, entry : Entry]
  BY DEF IInv, TypeOK
<1>2. issuer[i].list \in AnyList /\ issuer[i].entry.accum \in Nat
  BY <1>1 DEF Entry
<1>3. d \in Entry /\ d.accum = issuer[i].entry.accum
      /\ d.revoked = issuer[i].list.revoked \ RevokedBy(log)
  BY <1>2, DifferenceType DEF Difference
<1>4. issuer' = [issuer EXCEPT ![i].pc = "submitting", ![i].seen = n, ![i].entry = d]
  BY DEF Prepare
<1> HIDE DEF d
<1>5. TypeOK'
  <2> DEFINE new == [issuer[i] EXCEPT !.pc = "submitting", !.seen = n, !.entry = d]
  <2>1. new \in [pc : {"idle", "reading", "submitting", "landed"},
                 seen : Nat \cup {Unread}, list : AnyList, entry : Entry]
    BY <1>1, <1>3
  <2>2. issuer' = [issuer EXCEPT ![i] = new]
    BY <1>4 DEF IInv, TypeOK
  <2> HIDE DEF new
  <2> QED
    BY <2>1, <2>2 DEF IInv, TypeOK
<1>6. /\ issuer'[i].pc = "submitting"
      /\ issuer'[i].seen = n
      /\ issuer'[i].entry = d
      /\ issuer'[i].list = issuer[i].list
  BY <1>4 DEF IInv, TypeOK
<1>7. \A k \in Issuer \ {i} : issuer'[k] = issuer[k]
  BY <1>4 DEF IInv, TypeOK
<1>8. \A c : RevokedOnce(c) <=> RevokedOnce(c)'
  BY DEF RevokedOnce
<1>9. Covered(i)' /\ Recorded(i)'
  BY <1>3, <1>6, <1>8 DEF Covered, Recorded
<1>10. Prepared(i)'
  <2>1. issuer[i].entry.accum # NoAccum
    BY DEF IInv, Prepared
  <2>2. n # Unread => d = Difference(SubSeq(entries, 1, n), issuer[i].list, d.accum)
    BY <1>3 DEF d
  <2> QED
    BY <1>3, <1>6, <2>1, <2>2 DEF Prepared
<1>11. ASSUME NEW k \in Issuer \ {i}
       PROVE  Covered(k)' /\ Recorded(k)' /\ Prepared(k)'
  BY <1>7, <1>8 DEF IInv, Covered, Recorded, Prepared
<1>12. PromisesRecorded'
  BY <1>8 DEF IInv, PromisesRecorded
<1> QED
  BY <1>5, <1>9, <1>10, <1>11, <1>12 DEF IInv

(* A call begins with an accumulator that counts.                          *)
LEMMA RegisterInv ==
  ASSUME IInv, NEW i \in Issuer, NEW list \in StatusList, Register(i, list)
  PROVE  IInv'
<1>1. list \in AnyList
  BY RegistryAssumption
<1>2. calls' \in 0 .. MaxCalls /\ calls' \in Nat /\ calls' # NoAccum
  BY RegistryAssumption DEF Register, IInv, TypeOK, NoAccum
<1> DEFINE e == [Idle.entry EXCEPT !.accum = calls']
           r == [Idle EXCEPT !.pc = "reading", !.list = list, !.entry = e]
<1>3. e \in Entry /\ e.accum = calls'
  BY <1>2, IdleType DEF Entry
<1>4. issuer' = [issuer EXCEPT ![i] = r]
  BY DEF Register
<1> HIDE DEF e
<1>5. /\ r \in [pc : {"reading"}, seen : {Unread}, list : AnyList, entry : Entry]
      /\ r.entry = e
  BY <1>1, <1>3, IdleType
<1> HIDE DEF r
<1>6. TypeOK'
  BY <1>2, <1>4, <1>5 DEF IInv, TypeOK, Register
<1>7. issuer'[i] = r /\ \A k \in Issuer \ {i} : issuer'[k] = issuer[k]
  BY <1>4 DEF IInv, TypeOK
<1>8. \A c : RevokedOnce(c) <=> RevokedOnce(c)'
  BY DEF RevokedOnce, Register
<1>9. Covered(i)' /\ Recorded(i)' /\ Prepared(i)'
  BY <1>2, <1>3, <1>5, <1>7 DEF Covered, Recorded, Prepared
<1>10. ASSUME NEW k \in Issuer \ {i}
       PROVE  Covered(k)' /\ Recorded(k)' /\ Prepared(k)'
  BY <1>7, <1>8 DEF IInv, Covered, Recorded, Prepared, Register
<1>11. PromisesRecorded'
  BY <1>8 DEF IInv, PromisesRecorded, Register
<1> QED
  BY <1>6, <1>9, <1>10, <1>11 DEF IInv

(* What a prefix of the topic shows as revoked, the topic revoked once.    *)
LEMMA ReadCurrentInv ==
  ASSUME IInv, NEW i \in Issuer, NEW n \in 0 .. Len(entries), ReadCurrent(i, n)
  PROVE  IInv'
<1> DEFINE log == SubSeq(entries, 1, n)
<1>1. /\ entries \in Log
      /\ log \in Log
      /\ DOMAIN log = 1 .. n
      /\ \A j \in 1 .. n : j \in DOMAIN entries /\ log[j] = entries[j]
      /\ n \in Nat
  BY DEF IInv, TypeOK, Log
<1>2. Counted(log) \subseteq Counted(entries)
      /\ \A j \in Counted(log) : log[j] = entries[j]
  BY <1>1 DEF Counted
<1>3. \A c \in RevokedBy(log) : RevokedOnce(c)
  BY <1>2 DEF RevokedBy, RevokedOnce
<1> QED
  BY <1>1, <1>3, PrepareInv DEF ReadCurrent

(* Compared with nothing, everything a list revokes is in its entry.       *)
LEMMA ReadFailsInv ==
  ASSUME IInv, NEW i \in Issuer, ReadFails(i)
  PROVE  IInv'
BY EmptyLog, PrepareInv DEF ReadFails

(* A call ends, with or without a promise.                                 *)
LEMMA ReturnInv ==
  ASSUME IInv, NEW i \in Issuer, Return(i),
         UNCHANGED <<entries, calls>>,
         limbo' \in {limbo, limbo \cup {issuer[i].entry}},
         \/ promised' = promised
         \/ /\ issuer[i].pc = "landed"
            /\ promised' = promised \cup issuer[i].list.revoked
  PROVE  IInv'
<1>1. issuer[i].entry \in Entry /\ issuer[i].list.revoked \subseteq Nat
  BY DEF IInv, TypeOK, AnyList
<1>2. TypeOK'
  BY <1>1, ReturnKeeps DEF IInv, TypeOK
<1>3. \A c : RevokedOnce(c) <=> RevokedOnce(c)'
  BY DEF RevokedOnce
<1>4. PromisesRecorded'
  BY <1>3 DEF IInv, PromisesRecorded, Recorded
<1> QED
  BY <1>2, <1>4, ReturnKeeps DEF IInv

(* An entry that lands records what its list revokes.                      *)
LEMMA LandsInv ==
  ASSUME IInv, NEW i \in Issuer, Lands(i)
  PROVE  IInv'
<1> DEFINE e == issuer[i].entry
<1>1. e \in Entry /\ entries' = Append(entries, e) /\ e.accum # NoAccum
  BY DEF IInv, TypeOK, Prepared, Lands
<1>2. issuer' = [issuer EXCEPT ![i].pc = "landed"]
  BY DEF Lands
<1>3. TypeOK'
  BY <1>1, <1>2, AppendKeeps DEF IInv, TypeOK, Lands
<1>4. /\ issuer'[i].pc = "landed"
      /\ issuer'[i].list = issuer[i].list
      /\ issuer'[i].entry = e
      /\ \A k \in Issuer \ {i} : issuer'[k] = issuer[k]
  BY <1>2 DEF IInv, TypeOK
<1>5. Covered(i)' /\ Prepared(i)'
  BY <1>1, <1>4 DEF Covered, Prepared
<1>6. Recorded(i)'
  <2>1. ASSUME NEW c \in issuer[i].list.revoked \cap Cred
        PROVE  RevokedOnce(c)'
    <3>1. c \in e.revoked \/ RevokedOnce(c)
      BY DEF IInv, Covered, Lands
    <3> QED
      BY <1>1, <3>1, AppendKeeps
  <2> QED
    BY <1>4, <2>1 DEF Recorded
<1>7. \A k \in Issuer \ {i} : Covered(k)' /\ Recorded(k)' /\ Prepared(k)'
  BY <1>1, <1>4, AppendKeeps
<1>8. PromisesRecorded'
  BY <1>1, AppendKeeps DEF IInv, PromisesRecorded, Lands
<1> QED
  BY <1>3, <1>5, <1>6, <1>7, <1>8 DEF IInv

(* Late entries and stray messages disturb no process.                     *)
LEMMA ForeignAppendInv ==
  ASSUME IInv, LateEntry \/ StrayMessage
  PROVE  IInv'
<1>1. PICK e \in Entry : entries' = Append(entries, e)
  BY RegistryAssumption DEF LateEntry, StrayMessage, IInv, TypeOK
<1>2. /\ UNCHANGED <<issuer, calls, promised>>
      /\ limbo' \subseteq limbo
  BY DEF LateEntry, StrayMessage
<1>3. TypeOK'
  BY <1>1, <1>2, AppendKeeps DEF IInv, TypeOK
<1>4. \A k \in Issuer : Covered(k)' /\ Recorded(k)' /\ Prepared(k)'
  BY <1>1, <1>2, AppendKeeps
<1>5. PromisesRecorded'
  BY <1>1, <1>2, AppendKeeps DEF IInv, PromisesRecorded
<1> QED
  BY <1>3, <1>4, <1>5 DEF IInv

(* Every step keeps the inductive invariant.                               *)
LEMMA StepInv == IInv /\ [Next]_vars => IInv'
<1> SUFFICES ASSUME IInv, [Next]_vars
             PROVE  IInv'
  OBVIOUS
<1>1. ASSUME NEW i \in Issuer, Step(i)
      PROVE  IInv'
  <2>1. ASSUME NEW list \in StatusList, Register(i, list)
        PROVE  IInv'
    BY <2>1, RegisterInv
  <2>2. CASE DefinitionFails(i)
    BY <2>2, ReturnInv DEF DefinitionFails
  <2>3. ASSUME NEW n \in 0 .. Len(entries), ReadCurrent(i, n)
        PROVE  IInv'
    BY <2>3, ReadCurrentInv
  <2>4. ASSUME NEW n \in 0 .. Len(entries), RejectLength(i, n)
        PROVE  IInv'
    BY <2>4, ReturnInv DEF RejectLength
  <2>5. CASE ReadFails(i)
    BY <2>5, ReadFailsInv
  <2>6. CASE Lands(i)
    BY <2>6, LandsInv
  <2>7. CASE SubmitFails(i)
    BY <2>7, ReturnInv DEF SubmitFails
  <2>8. CASE ReceiptSucceeds(i)
    BY <2>8, ReturnInv DEF ReceiptSucceeds
  <2>9. CASE ReceiptFails(i)
    BY <2>9, ReturnInv DEF ReceiptFails
  <2> QED
    BY <1>1, <2>1, <2>2, <2>3, <2>4, <2>5, <2>6, <2>7, <2>8, <2>9 DEF Step
<1>2. CASE LateEntry \/ StrayMessage
  BY <1>2, ForeignAppendInv
<1>3. CASE UNCHANGED vars
  <2>1. UNCHANGED <<entries, issuer, calls, limbo, promised>>
    BY <1>3 DEF vars
  <2> QED
    BY <2>1 DEF IInv, TypeOK, Covered, Recorded, Prepared, PromisesRecorded, RevokedOnce
<1> QED
  BY <1>1, <1>2, <1>3 DEF Next

(* What was promised, and what is being registered, is covered by entries. *)
THEOREM Invariance == Spec => []IInv
<1> QED
  BY InitInv, StepInv, PTL DEF Spec

(***************************************************************************)
(* What it is for.                                                         *)
(***************************************************************************)

(* Shapes are kept: indices stay natural numbers, a prepared entry is one. *)
THEOREM TypeCorrect == Spec => []TypeOK
<1>1. IInv => TypeOK
  BY DEF IInv
<1> QED
  BY <1>1, Invariance, PTL

(* A credential revoked by a registration that returned Ok is revoked for  *)
(* good unless a list un-revokes it, however many processes register at a  *)
(* time and whatever reads and submissions fail.                           *)
THEOREM RevocationsStick == Spec => []RevocationSticks
<1>1. IInv => RevocationSticks
  BY DEF IInv, PromisesRecorded, RevokedOnce, RevocationSticks, RevokedBy
<1> QED
  BY <1>1, Invariance, PTL

(* A list that lands right after a complete read is what readers get.      *)
THEOREM FreshListsWin == Spec => FreshListWins
<1> DEFINE Wins(i) ==
      Fresh(i) /\ entries' = Append(entries, issuer[i].entry) =>
        /\ RevokedBy(entries') = issuer[i].list.revoked \cap Cred
        /\ CurrentAccum(entries') = issuer[i].entry.accum
        /\ issuer[i].entry.prev = CurrentAccum(entries)
<1>1. IInv => \A i \in Issuer : Wins(i)
  <2> SUFFICES ASSUME IInv, NEW i \in Issuer, Fresh(i),
                      entries' = Append(entries, issuer[i].entry)
               PROVE  /\ RevokedBy(entries') = issuer[i].list.revoked \cap Cred
                      /\ CurrentAccum(entries') = issuer[i].entry.accum
                      /\ issuer[i].entry.prev = CurrentAccum(entries)
    OBVIOUS
  <2>1. entries \in Log /\ issuer[i].entry \in Entry /\ Len(entries) \in Nat
    BY DEF IInv, TypeOK, Log
  <2>2. issuer[i].seen # Unread
    BY <2>1 DEF Fresh, Unread
  <2>3. /\ issuer[i].entry.accum # NoAccum
        /\ issuer[i].entry =
             Difference(entries, issuer[i].list, issuer[i].entry.accum)
    BY <2>1, <2>2, ReadStays DEF IInv, Prepared, Fresh
  <2>4. /\ issuer[i].entry.issued = RevokedBy(entries) \ issuer[i].list.revoked
        /\ issuer[i].entry.revoked = issuer[i].list.revoked \ RevokedBy(entries)
        /\ issuer[i].entry.prev = CurrentAccum(entries)
    BY <2>3 DEF Difference
  <2>5. RevokedBy(entries) \subseteq Cred
    BY DEF RevokedBy
  <2>6. /\ RevokedBy(entries') =
             (RevokedBy(entries) \ issuer[i].entry.issued)
               \cup (issuer[i].entry.revoked \cap Cred)
        /\ CurrentAccum(entries') = issuer[i].entry.accum
    BY <2>1, <2>3, AppendedEntry
  <2> QED
    BY <2>4, <2>5, <2>6
<1> QED
  BY <1>1, Invariance, PTL DEF Spec, FreshListWins
================================================================================
