--------------------------- MODULE HcsService_proofs ---------------------------
(***************************************************************************)
(* The calls of the HCS service, for any networks, names, requests and     *)
(* administrators; and what pipelines sign, for any pipelines and any      *)
(* number of rotations.                                                    *)
(***************************************************************************)
EXTENDS HcsCallers, FiniteSetTheorems, WellFoundedInduction, TLAPS

(***************************************************************************)
(* Which topic an entry of the cache is about.  Calls without a name and   *)
(* calls that name "default" share their entries; they go to the same      *)
(* network, since without a name there may only be one.                    *)
(***************************************************************************)
About(k, t) ==
  \E name \in Name \cup {Nil}, id \in TopicId :
    /\ GetClient(name) # Nil
    /\ k = KeyOf(name, id)
    /\ t = <<GetClient(name), id>>

OfTopic(S, t) == \A m \in S : m.topic = t

ReaderState ==
  [state : {"idle", "streaming", "done", "failed"}, topic : Topic \cup {Nil},
   key : Entry \cup {Nil}, req : AnyRequest \cup {Nil},
   snapshot : (SUBSET Message) \cup {Nil}, first : Nat \ {0}, next : Nat \ {0},
   result : SUBSET Message, whole : BOOLEAN]

Streams(r) ==
  /\ reader[r].topic \in Topic
  /\ reader[r].key \in Entry
  /\ reader[r].req \in AnyRequest
  /\ About(reader[r].key, reader[r].topic)
  /\ reader[r].req.from = "epoch" => reader[r].first = 1
  /\ reader[r].snapshot # Nil => OfTopic(reader[r].snapshot, reader[r].topic)

Prefix(t, n) == MessagesOf(t, 1 .. n)

Reads(r) ==
  /\ reader[r].state = "streaming" => Streams(r)
  /\ reader[r].state # "streaming" => reader[r].snapshot = Nil
  /\ OfTopic(reader[r].result, reader[r].topic)
  /\ reader[r].whole =>
       reader[r].result = Prefix(reader[r].topic, Cardinality(reader[r].result))

ReadInv ==
  /\ configuration \in Configurations
  /\ tail \in [Topic -> Nat]
  /\ held \in [Entry -> (SUBSET Message) \cup {Nil}]
  /\ reader \in [Reader -> ReaderState]
  /\ \A k \in Entry : held[k] # Nil => \E t \in Topic : About(k, t) /\ OfTopic(held[k], t)
  /\ \A r \in Reader : Reads(r)

LEMMA Least ==
  ASSUME NEW S, S \subseteq Nat, S # {}
  PROVE  Min(S) \in S /\ \A y \in S : Min(S) <= y
<1> DEFINE R == OpToRel(<, Nat)
<1>1. \A x, y \in Nat : <<y, x>> \in R <=> y < x
  BY DEF OpToRel
<1>2. IsWellFoundedOn(R, Nat)
  BY NatLessThanWellFounded
<1> HIDE DEF R
<1>3. PICK x \in S : \A y \in S : <<y, x>> \notin R
  BY <1>2, WFMin
<1>4. ASSUME NEW y \in S PROVE x <= y
  <2>1. ~(y < x) /\ x \in Nat /\ y \in Nat
    BY <1>1, <1>3
  <2> QED
    BY <2>1
<1> QED
  BY <1>4 DEF Min

(* Every network that answers a call is in the configuration.              *)
LEMMA Clients ==
  ASSUME configuration \in Configurations, NEW name \in Name \cup {Nil}, GetClient(name) # Nil
  PROVE  /\ GetClient(name) \in DOMAIN configuration
         /\ Len(configuration) = 1 => GetClient(name) = 1
         /\ name = Nil => Len(configuration) = 1
<1>1. configuration \in Seq(Network) /\ Nil \notin Name
  BY ConfigurationAssumption
<1>2. GetClient(name) = ResolveNetworkConfig(name) /\ ResolveNetworkConfig(name) # Nil
  BY DEF GetClient
<1>3. CASE name = Nil
  BY <1>1, <1>2, <1>3 DEF ResolveNetworkConfig
<1>4. CASE name # Nil
  <2>1. Places(name) # {} /\ GetClient(name) = Min(Places(name))
    BY <1>2, <1>4 DEF ResolveNetworkConfig
  <2>2. Places(name) \subseteq DOMAIN configuration
    BY DEF Places
  <2>3. DOMAIN configuration = 1 .. Len(configuration) /\ Len(configuration) \in Nat
    BY <1>1
  <2>4. Min(Places(name)) \in Places(name)
    BY <2>1, <2>2, <2>3, Least
  <2> QED
    BY <1>4, <2>1, <2>2, <2>3, <2>4
<1> QED
  BY <1>3, <1>4

(* An entry is about one topic, whatever its readers call the network.     *)
LEMMA OneTopic ==
  ASSUME configuration \in Configurations, NEW k, NEW t, NEW u, About(k, t), About(k, u)
  PROVE  t = u
<1>1. PICK n \in Name \cup {Nil}, i \in TopicId :
        GetClient(n) # Nil /\ k = KeyOf(n, i) /\ t = <<GetClient(n), i>>
  BY DEF About
<1>2. PICK m \in Name \cup {Nil}, j \in TopicId :
        GetClient(m) # Nil /\ k = KeyOf(m, j) /\ u = <<GetClient(m), j>>
  BY DEF About
<1>3. i = j /\ (n = m \/ n = Nil \/ m = Nil)
  BY <1>1, <1>2 DEF KeyOf
<1>4. CASE n = m
  BY <1>1, <1>2, <1>3, <1>4
<1>5. CASE n = Nil \/ m = Nil
  <2>1. Len(configuration) = 1
    BY <1>1, <1>2, <1>5, Clients
  <2>2. GetClient(n) = 1 /\ GetClient(m) = 1
    BY <1>1, <1>2, <2>1, Clients
  <2> QED
    BY <1>1, <1>2, <1>3, <2>2
<1> QED
  BY <1>3, <1>4, <1>5

(***************************************************************************)
(* What a read from the epoch returns, cut by its window and by its limit. *)
(***************************************************************************)
LEMMA PrefixSize ==
  ASSUME NEW t, NEW n \in Nat
  PROVE  IsFiniteSet(Prefix(t, n)) /\ Cardinality(Prefix(t, n)) = n
<1> DEFINE f == [i \in 1 .. n |-> [topic |-> t, n |-> i]]
<1>1. f \in Bijection(1 .. n, Prefix(t, n))
  <2>1. f \in [1 .. n -> Prefix(t, n)]
    BY DEF Prefix, MessagesOf
  <2>2. \A i, j \in 1 .. n : f[i] = f[j] => i = j
    <3>1. \A i \in 1 .. n : f[i].n = i
      OBVIOUS
    <3> QED
      BY <3>1
  <2>3. \A m \in Prefix(t, n) : \E i \in 1 .. n : f[i] = m
    BY DEF Prefix, MessagesOf
  <2> HIDE DEF f
  <2> QED
    BY <2>1, <2>2, <2>3 DEF Bijection, Injection, Surjection, IsInjective
<1>2. IsFiniteSet(1 .. n) /\ Cardinality(1 .. n) = n
  BY FS_Interval
<1> HIDE DEF f
<1> QED
  BY <1>1, <1>2, FS_Bijection DEF ExistsBijection

LEMMA PrefixLimited ==
  ASSUME NEW t, NEW n \in Nat, NEW q \in AnyRequest
  PROVE  \E k \in Nat : Filtered(Prefix(t, n), q) = Prefix(t, k)
<1>1. q.to \in Nat \cup {Nil} /\ q.limit \in Nat \cup {Nil}
  BY DEF AnyRequest
<1>2. PICK k \in Nat : InWindow(Prefix(t, n), q) = Prefix(t, k)
  <2>1. CASE q.to = Nil
    BY <2>1 DEF InWindow
  <2>2. CASE q.to # Nil
    <3> DEFINE k == IF q.to <= n THEN q.to ELSE n
    <3>1. k \in Nat /\ \A i \in 1 .. n : i <= q.to <=> i <= k
      BY <1>1, <2>2
    <3>2. k <= n
      BY <1>1, <2>2
    <3> HIDE DEF k
    <3>3. InWindow(Prefix(t, n), q) = Prefix(t, k)
      BY <2>2, <3>1, <3>2 DEF InWindow, Prefix, MessagesOf
    <3> QED
      BY <3>1, <3>3
  <2> QED
    BY <2>1, <2>2
<1>3. CASE q.limit = Nil
  BY <1>2, <1>3 DEF Filtered, Limited
<1>4. CASE q.limit # Nil
  <2> DEFINE l == IF q.limit <= k THEN q.limit ELSE k
  <2>1. l \in Nat /\ l <= k /\ \A i \in 1 .. k : i - 1 < q.limit <=> i <= l
    BY <1>1, <1>4
  <2> HIDE DEF l
  <2>2. ASSUME NEW m \in Prefix(t, k)
        PROVE  Cardinality({o \in Prefix(t, k) : o.n < m.n}) = m.n - 1 /\ m.n \in 1 .. k
    <3>1. m.n \in 1 .. k
      BY DEF Prefix, MessagesOf
    <3>2. {o \in Prefix(t, k) : o.n < m.n} = Prefix(t, m.n - 1)
      BY <3>1 DEF Prefix, MessagesOf
    <3> QED
      BY <3>1, <3>2, PrefixSize
  <2>3. Limited(Prefix(t, k), q) = {m \in Prefix(t, k) : m.n <= l}
    BY <1>4, <2>1, <2>2 DEF Limited
  <2>4. {m \in Prefix(t, k) : m.n <= l} = Prefix(t, l)
    BY <2>1 DEF Prefix, MessagesOf
  <2> QED
    BY <1>2, <2>1, <2>3, <2>4 DEF Filtered
<1> QED
  BY <1>3, <1>4

(***************************************************************************)
(* Reading.                                                                *)
(***************************************************************************)
LEMMA IdleReads ==
  /\ Idle \in ReaderState
  /\ \A r \in Reader : reader[r] = Idle => Reads(r)
<1>1. Idle \in ReaderState
  BY DEF Idle, ReaderState
<1>2. Prefix(Nil, 0) = {} /\ Cardinality({}) = 0
  BY FS_EmptySet DEF Prefix, MessagesOf
<1> QED
  BY <1>1, <1>2 DEF Idle, Reads, OfTopic

LEMMA ReadInitially == ServiceInit /\ ReadInit => ReadInv
<1> SUFFICES ASSUME ServiceInit, ReadInit PROVE ReadInv
  OBVIOUS
<1>1. configuration \in Configurations
  BY DEF ServiceInit
<1>2. reader \in [Reader -> ReaderState] /\ \A r \in Reader : Reads(r)
  BY IdleReads DEF ReadInit
<1> QED
  BY <1>1, <1>2 DEF ReadInit, ReadInv

(* One reader moves on, and may write to the entry it began with.          *)
LEMMA OneReader ==
  ASSUME ReadInv, NEW r \in Reader, NEW s \in ReaderState,
         reader' = [reader EXCEPT ![r] = s], Reads(r)',
         UNCHANGED <<configuration, tail>>,
         held' \in [Entry -> (SUBSET Message) \cup {Nil}],
         \A k \in Entry :
           held'[k] # Nil => \E t \in Topic : About(k, t) /\ OfTopic(held'[k], t)
  PROVE  ReadInv'
<1>1. reader' \in [Reader -> ReaderState]
  BY DEF ReadInv
<1>2. \A v \in Reader : v # r => reader'[v] = reader[v]
  BY DEF ReadInv
<1>3. \A k, t : About(k, t)' <=> About(k, t)
  BY DEF About, GetClient, ResolveNetworkConfig, Places, KeyOf
<1>4. ASSUME NEW v \in Reader, v # r PROVE Reads(v)'
  <2>1. Reads(v) /\ reader'[v] = reader[v]
    BY <1>2, <1>4 DEF ReadInv
  <2> QED
    BY <1>3, <2>1 DEF Reads, Streams
<1>5. \A v \in Reader : Reads(v)'
  BY <1>4
<1> QED
  BY <1>1, <1>3, <1>5 DEF ReadInv

LEMMA BeginReadInv ==
  ASSUME ReadInv, NEW r \in Reader, NEW name \in Name \cup {Nil}, NEW id \in TopicId,
         NEW q \in Requests[r], GetTopicMessages(r, name, id, q), UNCHANGED configuration
  PROVE  ReadInv'
<1> DEFINE place == GetClient(name)
           t == <<place, id>>
           k == KeyOf(name, id)
<1>1. place # Nil /\ BeginRead(r, t, k, q)
  BY DEF GetTopicMessages
<1>2. place \in DOMAIN configuration /\ t \in Topic
  <2>1. configuration \in Configurations /\ place \in DOMAIN configuration
    BY <1>1, Clients DEF ReadInv
  <2>2. (1 .. Len(configuration)) \X TopicId \subseteq Topic
    BY <2>1, ServiceAssumption
  <2> HIDE DEF place
  <2>3. <<place, id>> \in (1 .. Len(configuration)) \X TopicId
    BY <2>1, ConfigurationAssumption
  <2> QED
    BY <2>1, <2>2, <2>3
<1>3. k \in Entry /\ About(k, t) /\ q \in AnyRequest
  BY <1>1, ServiceAssumption, ReadAssumption DEF About
<1> HIDE DEF place, t, k
<1> DEFINE s == [Idle EXCEPT !.state = "streaming", !.topic = t, !.key = k, !.req = q,
                             !.snapshot = IF q.cached THEN held[k] ELSE Nil,
                             !.first = StartTime(t, q), !.next = StartTime(t, q)]
<1>4. reader' = [reader EXCEPT ![r] = s] /\ UNCHANGED <<tail, held>>
  BY <1>1 DEF BeginRead
<1>5. tail[t] \in Nat /\ held[k] \in (SUBSET Message) \cup {Nil}
  BY <1>2, <1>3 DEF ReadInv
<1>6. StartTime(t, q) \in Nat \ {0} /\ (q.from = "epoch" => StartTime(t, q) = 1)
  BY <1>5 DEF StartTime
<1>7. /\ s \in ReaderState
      /\ s.state = "streaming" /\ s.topic = t /\ s.key = k /\ s.req = q
      /\ s.snapshot \in {held[k], Nil} /\ s.first = StartTime(t, q)
      /\ s.result = {} /\ s.whole = FALSE
  BY <1>2, <1>3, <1>5, <1>6 DEF Idle, ReaderState
<1> HIDE DEF s
<1>8. reader'[r] = s
  BY <1>4 DEF ReadInv
<1>9. held[k] # Nil => OfTopic(held[k], t)
  <2> SUFFICES ASSUME held[k] # Nil PROVE OfTopic(held[k], t)
    OBVIOUS
  <2>1. PICK u \in Topic : About(k, u) /\ OfTopic(held[k], u)
    BY <1>3 DEF ReadInv
  <2>2. u = t
    BY <1>3, <2>1, OneTopic DEF ReadInv
  <2> QED
    BY <2>1, <2>2
<1>10. \A x, y : About(x, y)' <=> About(x, y)
  BY DEF About, GetClient, ResolveNetworkConfig, Places, KeyOf
<1>11. Reads(r)'
  BY <1>2, <1>3, <1>6, <1>7, <1>8, <1>9, <1>10 DEF Reads, Streams, OfTopic
<1> QED
  BY <1>4, <1>7, <1>11, OneReader DEF ReadInv

LEMMA NoClientInv ==
  ASSUME ReadInv, NEW r \in Reader, NEW name, NoClient(r, name), UNCHANGED configuration
  PROVE  ReadInv'
<1> DEFINE s == [Idle EXCEPT !.state = "failed"]
<1>1. /\ s \in ReaderState
      /\ s.state = "failed" /\ s.snapshot = Nil /\ s.result = {} /\ s.whole = FALSE
  BY IdleReads DEF Idle, ReaderState
<1>2. reader' = [reader EXCEPT ![r] = s] /\ UNCHANGED <<tail, held>>
  BY DEF NoClient
<1> HIDE DEF s
<1>3. Reads(r)'
  BY <1>1, <1>2 DEF ReadInv, Reads, OfTopic
<1> QED
  BY <1>1, <1>2, <1>3, OneReader DEF ReadInv

LEMMA DeliverInv ==
  ASSUME ReadInv, NEW r \in Reader, Deliver(r), UNCHANGED configuration
  PROVE  ReadInv'
<1> DEFINE s == [reader[r] EXCEPT !.next = @ + 1]
<1>1. reader[r] \in ReaderState /\ reader[r].state = "streaming" /\ Reads(r)
  BY DEF Deliver, ReadInv
<1>2. /\ s \in ReaderState
      /\ s.state = "streaming" /\ s.topic = reader[r].topic /\ s.key = reader[r].key
      /\ s.req = reader[r].req /\ s.snapshot = reader[r].snapshot
      /\ s.first = reader[r].first /\ s.result = reader[r].result /\ s.whole = reader[r].whole
  BY <1>1 DEF ReaderState
<1>3. reader' = [reader EXCEPT ![r] = s] /\ UNCHANGED <<tail, held>>
  BY DEF Deliver
<1> HIDE DEF s
<1>4. reader'[r] = s
  BY <1>3 DEF ReadInv
<1>5. \A x, y : About(x, y)' <=> About(x, y)
  BY DEF About, GetClient, ResolveNetworkConfig, Places, KeyOf
<1>6. Reads(r)'
  BY <1>1, <1>2, <1>4, <1>5 DEF Reads, Streams
<1> QED
  BY <1>2, <1>3, <1>6, OneReader DEF ReadInv

LEMMA StreamFailsInv ==
  ASSUME ReadInv, NEW r \in Reader, StreamFails(r), UNCHANGED configuration
  PROVE  ReadInv'
<1> DEFINE s == [Idle EXCEPT !.state = "failed"]
<1>1. /\ s \in ReaderState
      /\ s.state = "failed" /\ s.snapshot = Nil /\ s.result = {} /\ s.whole = FALSE
  BY IdleReads DEF Idle, ReaderState
<1>2. reader' = [reader EXCEPT ![r] = s] /\ UNCHANGED <<tail, held>>
  BY DEF StreamFails
<1> HIDE DEF s
<1>3. Reads(r)'
  BY <1>1, <1>2 DEF ReadInv, Reads, OfTopic
<1> QED
  BY <1>1, <1>2, <1>3, OneReader DEF ReadInv

(* What a read returns: messages of its topic, a prefix if it is whole.    *)
LEMMA Results ==
  ASSUME ReadInv, NEW r \in Reader, reader[r].state = "streaming"
  PROVE  LET t == reader[r].topic
             S == Filtered(Merged(r), reader[r].req)
         IN /\ S \subseteq Message /\ OfTopic(S, t)
            /\ reader[r].req.from = "epoch" /\ reader[r].snapshot = Nil =>
                 S = Prefix(t, Cardinality(S))
            /\ Cacheable(reader[r].req) => S = Merged(r)
<1> DEFINE t == reader[r].topic
           q == reader[r].req
           S == Filtered(Merged(r), q)
<1>1. /\ reader[r] \in ReaderState /\ t \in Topic /\ q \in AnyRequest
      /\ q.from = "epoch" => reader[r].first = 1
      /\ reader[r].snapshot # Nil => OfTopic(reader[r].snapshot, t)
  BY DEF ReadInv, Reads, Streams
<1>2. /\ reader[r].first \in Nat \ {0} /\ reader[r].next \in Nat \ {0}
      /\ reader[r].snapshot # Nil => reader[r].snapshot \subseteq Message
  BY <1>1 DEF ReaderState
<1>3. Fresh(r) \subseteq Message /\ OfTopic(Fresh(r), t)
  BY <1>1, <1>2 DEF Fresh, MessagesOf, Message, OfTopic
<1>4. Merged(r) \subseteq Message /\ OfTopic(Merged(r), t)
  BY <1>1, <1>2, <1>3 DEF Merged, OfTopic
<1>5. S \subseteq Merged(r)
  BY DEF Filtered, InWindow, Limited
<1>6. ASSUME q.from = "epoch", reader[r].snapshot = Nil
      PROVE  S = Prefix(t, Cardinality(S))
  <2>1. Merged(r) = Prefix(t, reader[r].next - 1) /\ reader[r].next - 1 \in Nat
    BY <1>1, <1>2, <1>6 DEF Merged, Fresh, Prefix
  <2>2. PICK n \in Nat : S = Prefix(t, n)
    BY <1>1, <2>1, PrefixLimited
  <2> QED
    BY <2>2, PrefixSize
<1>7. Cacheable(q) => S = Merged(r)
  BY DEF Cacheable, UnlimitedRequest, Filtered, InWindow, Limited
<1> QED
  BY <1>4, <1>5, <1>6, <1>7 DEF OfTopic

LEMMA FinishReadInv ==
  ASSUME ReadInv, NEW r \in Reader, FinishRead(r), UNCHANGED configuration
  PROVE  ReadInv'
<1> DEFINE t == reader[r].topic
           k == reader[r].key
           S == Filtered(Merged(r), reader[r].req)
           w == reader[r].req.from = "epoch" /\ reader[r].snapshot = Nil
           s == [Idle EXCEPT !.state = "done", !.topic = t, !.result = S, !.whole = w]
<1>1. /\ reader[r].state = "streaming" /\ reader' = [reader EXCEPT ![r] = s]
      /\ held' \in {held, [held EXCEPT ![k] = S]} /\ UNCHANGED tail
  BY DEF FinishRead
<1>2. S \subseteq Message /\ OfTopic(S, t) /\ (w => S = Prefix(t, Cardinality(S)))
  BY <1>1, Results
<1>3. t \in Topic /\ k \in Entry /\ About(k, t)
  BY <1>1 DEF ReadInv, Reads, Streams
<1> HIDE DEF t, k, S, w
<1>4. /\ s.state = "done" /\ s.topic = t /\ s.result = S /\ s.whole = w /\ s.snapshot = Nil
  BY DEF Idle
<1>5. s \in ReaderState
  <2>1. w \in BOOLEAN
    BY DEF w
  <2> QED
    BY <1>2, <1>3, <2>1, IdleReads DEF ReaderState
<1> HIDE DEF s
<1>6. reader'[r] = s
  BY <1>1 DEF ReadInv
<1>7. Reads(r)'
  BY <1>2, <1>4, <1>5, <1>6 DEF Reads
<1>8. /\ held' \in [Entry -> (SUBSET Message) \cup {Nil}]
      /\ \A e \in Entry : held'[e] = held[e] \/ (e = k /\ held'[e] = S)
  BY <1>1, <1>2, <1>3 DEF ReadInv
<1>9. \A e \in Entry :
        held'[e] # Nil => \E u \in Topic : About(e, u) /\ OfTopic(held'[e], u)
  BY <1>2, <1>3, <1>8 DEF ReadInv
<1> QED
  BY <1>1, <1>4, <1>5, <1>7, <1>8, <1>9, OneReader

LEMMA QuietInv ==
  ASSUME ReadInv, UNCHANGED <<configuration, reader>>,
         tail' \in [Topic -> Nat],
         \/ held' = held
         \/ \E k \in Entry : held' = [held EXCEPT ![k] = Nil]
  PROVE  ReadInv'
<1>1. /\ held' \in [Entry -> (SUBSET Message) \cup {Nil}]
      /\ \A k \in Entry : held'[k] \in {held[k], Nil}
  BY DEF ReadInv
<1>2. \A x, y : About(x, y)' <=> About(x, y)
  BY DEF About, GetClient, ResolveNetworkConfig, Places, KeyOf
<1>3. \A r \in Reader : Reads(r)'
  BY <1>2 DEF ReadInv, Reads, Streams
<1> QED
  BY <1>1, <1>2, <1>3 DEF ReadInv

LEMMA ReadNextInv ==
  ASSUME ReadInv, ReadNext, UNCHANGED configuration
  PROVE  ReadInv'
<1>1. CASE \E r \in Reader, name \in Name \cup {Nil} : ReadCall(r, name)
  BY <1>1, BeginReadInv, NoClientInv DEF ReadCall
<1>2. CASE \E r \in Reader : Deliver(r) \/ StreamFails(r) \/ FinishRead(r)
  BY <1>2, DeliverInv, StreamFailsInv, FinishReadInv
<1>3. CASE \E k \in Entry : Expire(k)
  BY <1>3, QuietInv DEF Expire, ReadInv
<1>4. CASE \E t \in Topic : Publish(t)
  <2>1. tail' \in [Topic -> Nat]
    BY <1>4 DEF Publish, ReadInv
  <2> QED
    BY <1>4, <2>1, QuietInv DEF Publish
<1> QED
  BY <1>1, <1>2, <1>3, <1>4 DEF ReadNext, ReadStep

LEMMA ReadInvStep == ReadInv /\ [Next]_vars => ReadInv'
<1> SUFFICES ASSUME ReadInv, [Next]_vars PROVE ReadInv'
  OBVIOUS
<1>1. CASE ReadNext /\ UNCHANGED configuration
  BY <1>1, ReadNextInv
<1>2. CASE UNCHANGED <<configuration, readVars>>
  BY <1>2, QuietInv DEF readVars, ReadInv
<1> QED
  BY <1>1, <1>2 DEF Next, vars

THEOREM ReadInvariance == Spec => []ReadInv
<1> QED
  BY ReadInitially, ReadInvStep, PTL DEF Spec, Init

(***************************************************************************)
(* Readers have only what was posted, and streams do not overtake topics.  *)
(***************************************************************************)
TypedRead(r, s) ==
  /\ s.state = "streaming" =>
       /\ s.topic \in Topic /\ s.key \in Entry /\ s.req \in Requests[r]
       /\ s.first \in 1 .. s.next
       /\ s.next \in 1 .. tail[s.topic] + 1
       /\ s.snapshot # Nil => s.snapshot \subseteq Posted
  /\ s.result \subseteq Posted

TypedInv ==
  /\ ReadInv
  /\ \A t \in Topic : tail[t] <= MaxTail[t]
  /\ \A k \in Entry : held[k] = Nil \/ held[k] \subseteq Posted
  /\ \A r \in Reader : TypedRead(r, reader[r])

LEMMA TypedReader ==
  ASSUME TypedInv, ReadInv', NEW r \in Reader, NEW s, reader' = [reader EXCEPT ![r] = s],
         tail' = tail, TypedRead(r, s),
         \A k \in Entry : held'[k] \in {Nil, held[k]} \/ held'[k] \subseteq Posted
  PROVE  TypedInv'
<1>1. \A v \in Reader : (reader'[v] = s /\ v = r) \/ reader'[v] = reader[v]
  BY DEF TypedInv, ReadInv
<1>2. Posted' = Posted
  BY DEF Posted
<1>3. \A v \in Reader : TypedRead(v, reader'[v])
  BY <1>1 DEF TypedInv
<1>4. \A v \in Reader : TypedRead(v, reader[v])'
  BY <1>2, <1>3 DEF TypedRead
<1>5. \A k \in Entry : held'[k] = Nil \/ held'[k] \subseteq Posted
  BY DEF TypedInv
<1> QED
  BY <1>2, <1>4, <1>5 DEF TypedInv

LEMMA TypedFresh ==
  ASSUME TypedInv, NEW r \in Reader, reader[r].state = "streaming"
  PROVE  Filtered(Merged(r), reader[r].req) \subseteq Posted
<1>1. /\ reader[r].topic \in Topic /\ tail[reader[r].topic] \in Nat
      /\ reader[r].first \in 1 .. reader[r].next
      /\ reader[r].next \in 1 .. tail[reader[r].topic] + 1
      /\ reader[r].snapshot # Nil => reader[r].snapshot \subseteq Posted
  BY DEF TypedInv, TypedRead, ReadInv
<1>2. \A n \in reader[r].first .. reader[r].next - 1 : n \in 1 .. tail[reader[r].topic]
  BY <1>1
<1>3. Fresh(r) \subseteq Posted
  BY <1>1, <1>2 DEF Fresh, Posted, MessagesOf
<1>4. Merged(r) \subseteq Posted
  BY <1>1, <1>3 DEF Merged
<1> QED
  BY <1>4 DEF Filtered, InWindow, Limited

LEMMA TypedIdle ==
  ASSUME NEW r, NEW state \in {"idle", "done", "failed"}
  PROVE  TypedRead(r, [Idle EXCEPT !.state = state])
<1>1. /\ [Idle EXCEPT !.state = state].state = state
      /\ [Idle EXCEPT !.state = state].result = {}
  BY DEF Idle
<1> QED
  BY <1>1 DEF TypedRead

LEMMA TypedInitially == ServiceInit /\ ReadInit => TypedInv
<1> SUFFICES ASSUME ServiceInit, ReadInit PROVE TypedInv
  OBVIOUS
<1>1. \A t \in Topic : tail[t] <= MaxTail[t]
  BY ReadAssumption DEF ReadInit
<1>2. \A r \in Reader : reader[r].state = "idle" /\ reader[r].result = {}
  BY DEF ReadInit, Idle
<1> QED
  BY <1>1, <1>2, ReadInitially DEF ReadInit, TypedInv, TypedRead

LEMMA TypedBegin ==
  ASSUME TypedInv, ReadInv', NEW r \in Reader, NEW name \in Name \cup {Nil}, NEW id \in TopicId,
         NEW q \in Requests[r], GetTopicMessages(r, name, id, q)
  PROVE  TypedInv'
<1> DEFINE t == <<GetClient(name), id>>
           k == KeyOf(name, id)
           s == [Idle EXCEPT !.state = "streaming", !.topic = t, !.key = k, !.req = q,
                             !.snapshot = IF q.cached THEN held[k] ELSE Nil,
                             !.first = StartTime(t, q), !.next = StartTime(t, q)]
<1>1. reader' = [reader EXCEPT ![r] = s] /\ tail' = tail /\ held' = held
  BY DEF GetTopicMessages, BeginRead
<1>2. /\ s.state = "streaming" /\ s.topic = t /\ s.key = k /\ s.req = q
      /\ s.snapshot \in {held[k], Nil} /\ s.first = StartTime(t, q) /\ s.next = StartTime(t, q)
      /\ s.result = {}
  BY DEF Idle
<1> HIDE DEF s
<1>3. reader'[r] = s
  BY <1>1 DEF TypedInv, ReadInv
<1>4. t \in Topic /\ k \in Entry
  BY <1>2, <1>3 DEF ReadInv, Reads, Streams
<1> HIDE DEF t, k
<1>5. tail[t] \in Nat /\ (held[k] # Nil => held[k] \subseteq Posted)
  BY <1>4 DEF TypedInv, ReadInv
<1>6. StartTime(t, q) \in 1 .. tail[t] + 1 /\ StartTime(t, q) \in 1 .. StartTime(t, q)
  BY <1>5 DEF StartTime
<1>7. TypedRead(r, s)
  BY <1>2, <1>4, <1>5, <1>6 DEF TypedRead
<1> QED
  BY <1>1, <1>7, TypedReader

LEMMA TypedDeliver ==
  ASSUME TypedInv, ReadInv', NEW r \in Reader, Deliver(r)
  PROVE  TypedInv'
<1> DEFINE s == [reader[r] EXCEPT !.next = @ + 1]
<1>1. reader[r] \in ReaderState /\ TypedRead(r, reader[r]) /\ reader[r].state = "streaming"
  BY DEF Deliver, TypedInv, ReadInv
<1>2. /\ s.state = "streaming" /\ s.topic = reader[r].topic /\ s.key = reader[r].key
      /\ s.req = reader[r].req /\ s.snapshot = reader[r].snapshot
      /\ s.first = reader[r].first /\ s.next = reader[r].next + 1
      /\ s.result = reader[r].result
  BY <1>1 DEF ReaderState
<1>3. reader' = [reader EXCEPT ![r] = s] /\ tail' = tail /\ held' = held
  BY DEF Deliver
<1> HIDE DEF s
<1>4. reader[r].next <= tail[reader[r].topic] /\ tail[reader[r].topic] \in Nat
      /\ reader[r].next \in Nat /\ reader[r].first \in 1 .. reader[r].next
  BY <1>1 DEF Deliver, TypedInv, ReadInv, TypedRead
<1>5. s.first \in 1 .. s.next /\ s.next \in 1 .. tail[s.topic] + 1
  BY <1>2, <1>4
<1>6. TypedRead(r, s)
  BY <1>1, <1>2, <1>5 DEF TypedRead
<1> QED
  BY <1>3, <1>6, TypedReader

LEMMA TypedFinish ==
  ASSUME TypedInv, ReadInv', NEW r \in Reader, FinishRead(r)
  PROVE  TypedInv'
<1> DEFINE S == Filtered(Merged(r), reader[r].req)
           s == [Idle EXCEPT !.state = "done", !.topic = reader[r].topic, !.result = S,
                             !.whole = reader[r].req.from = "epoch" /\ reader[r].snapshot = Nil]
<1>1. /\ reader[r].state = "streaming" /\ reader' = [reader EXCEPT ![r] = s] /\ tail' = tail
      /\ held' \in {held, [held EXCEPT ![reader[r].key] = S]}
  BY DEF FinishRead
<1>2. S \subseteq Posted
  BY <1>1, TypedFresh
<1>3. s.state = "done" /\ s.result = S
  BY DEF Idle
<1> HIDE DEF S, s
<1>4. TypedRead(r, s)
  BY <1>2, <1>3 DEF TypedRead
<1>5. \A k \in Entry : held'[k] \in {Nil, held[k]} \/ held'[k] \subseteq Posted
  BY <1>1, <1>2 DEF TypedInv, ReadInv
<1> QED
  BY <1>1, <1>4, <1>5, TypedReader

LEMMA TypedPublish ==
  ASSUME TypedInv, ReadInv', NEW t \in Topic, Publish(t)
  PROVE  TypedInv'
<1>1. /\ tail' = [tail EXCEPT ![t] = @ + 1] /\ tail[t] < MaxTail[t]
      /\ held' = held /\ reader' = reader
  BY DEF Publish
<1>2. ASSUME NEW u \in Topic
      PROVE  /\ tail'[u] \in {tail[u], tail[u] + 1} /\ tail[u] \in Nat
             /\ tail'[u] <= MaxTail[u]
  <2>1. tail[u] \in Nat /\ tail[u] <= MaxTail[u] /\ MaxTail[u] \in Nat
    BY ReadAssumption DEF TypedInv, ReadInv
  <2>2. tail'[u] = IF u = t THEN tail[u] + 1 ELSE tail[u]
    BY <1>1 DEF TypedInv, ReadInv
  <2> QED
    BY <1>1, <2>1, <2>2
<1>3. \A u \in Topic : 1 .. tail[u] \subseteq 1 .. tail'[u]
  BY <1>2
<1>4. Posted \subseteq Posted'
  BY <1>3 DEF Posted, MessagesOf
<1>5. ASSUME NEW r \in Reader PROVE TypedRead(r, reader[r])'
  <2>1. TypedRead(r, reader[r])
    BY DEF TypedInv
  <2>2. \A u \in Topic : \A n : n \in 1 .. tail[u] + 1 => n \in 1 .. tail'[u] + 1
    BY <1>2
  <2> QED
    BY <1>1, <1>4, <2>1, <2>2 DEF TypedRead
<1>6. \A k \in Entry : held[k] = Nil \/ held[k] \subseteq Posted'
  BY <1>4 DEF TypedInv
<1> QED
  BY <1>1, <1>2, <1>5, <1>6 DEF TypedInv

LEMMA TypedStep == TypedInv /\ [Next]_vars => TypedInv'
<1> SUFFICES ASSUME TypedInv, [Next]_vars PROVE TypedInv'
  OBVIOUS
<1>1. ReadInv'
  BY ReadInvStep DEF TypedInv
<1>2. CASE UNCHANGED readVars
  BY <1>1, <1>2 DEF TypedInv, TypedRead, Posted, readVars
<1>3. ASSUME NEW r \in Reader, NEW s, reader' = [reader EXCEPT ![r] = s], TypedRead(r, s),
             tail' = tail, held' = held
      PROVE  TypedInv'
  BY <1>1, <1>3, TypedReader
<1>4. CASE ReadNext
  <2>1. ASSUME NEW r \in Reader, NEW name \in Name \cup {Nil}, ReadCall(r, name)
        PROVE  TypedInv'
    BY <1>1, <1>3, <2>1, TypedBegin, TypedIdle DEF ReadCall, NoClient
  <2>2. ASSUME NEW r \in Reader, Deliver(r) \/ StreamFails(r) \/ FinishRead(r)
        PROVE  TypedInv'
    BY <1>1, <1>3, <2>2, TypedDeliver, TypedFinish, TypedIdle DEF StreamFails
  <2>3. ASSUME NEW k \in Entry, Expire(k) PROVE TypedInv'
    <3>1. reader' = reader /\ tail' = tail /\ \A e \in Entry : held'[e] \in {Nil, held[e]}
      BY <2>3 DEF Expire, TypedInv, ReadInv
    <3> QED
      BY <1>1, <3>1 DEF TypedInv, TypedRead, Posted
  <2> QED
    BY <1>1, <1>4, <2>1, <2>2, <2>3, TypedPublish DEF ReadNext, ReadStep
<1> QED
  BY <1>2, <1>4 DEF Next, vars

(* What readers and the cache hold was posted, and no stream is ahead of   *)
(* its topic, for any networks and requests.                               *)
THEOREM ReadTypes == Spec => []ReadTypeOK
<1>1. TypedInv => ReadTypeOK
  BY DEF TypedInv, TypedRead, ReadInv, ReaderState, ReadTypeOK
<1> QED
  BY <1>1, TypedInitially, TypedStep, PTL DEF Spec, Init

(* What a call gets, and what it took from the cache, is of the network the*)
(* call went to, for any networks and whatever the callers call them.      *)
THEOREM NetworksStayApart == Spec => []NetworksApart
<1>1. ReadInv => NetworksApart
  BY DEF ReadInv, NetworksApart, Reads, Streams, OfTopic
<1> QED
  BY <1>1, ReadInvariance, PTL

(* A read from the epoch without help of the cache gives a prefix, for any *)
(* window and limit.                                                       *)
THEOREM PrefixesAreRead == Spec => []EpochReadsArePrefixes
<1>1. ReadInv => EpochReadsArePrefixes
  BY DEF ReadInv, EpochReadsArePrefixes, Reads, Prefix
<1> QED
  BY <1>1, ReadInvariance, PTL

(* Whoever writes to the cache writes all it took from there, and what came*)
(* since.                                                                  *)
THEOREM SnapshotsAreKept == Spec => WritesKeepSnapshot
<1> DEFINE A == \A k \in Entry :
                  held'[k] \notin {Nil, held[k]} =>
                    \E r \in Reader : /\ reader[r].state = "streaming"
                                      /\ reader[r].key = k
                                      /\ Merged(r) \subseteq held'[k]
<1>1. ReadInv /\ [Next]_vars => [A]_readVars
  <2> SUFFICES ASSUME ReadInv, Next, NEW k \in Entry, held'[k] \notin {Nil, held[k]}
               PROVE  \E r \in Reader : /\ reader[r].state = "streaming"
                                        /\ reader[r].key = k
                                        /\ Merged(r) \subseteq held'[k]
    BY DEF vars
  <2>1. PICK r \in Reader : FinishRead(r)
    BY DEF Next, ReadNext, ReadStep, ReadCall, GetTopicMessages, BeginRead, NoClient,
           Deliver, StreamFails, Expire, Publish, ReadInv, readVars
  <2>2. /\ Cacheable(reader[r].req) /\ reader[r].state = "streaming"
        /\ held' = [held EXCEPT ![reader[r].key] = Filtered(Merged(r), reader[r].req)]
    BY <2>1 DEF FinishRead
  <2>3. reader[r].key = k /\ held'[k] = Filtered(Merged(r), reader[r].req)
    BY <2>2 DEF ReadInv
  <2> QED
    BY <2>2, <2>3, Results
<1> QED
  BY <1>1, ReadInvariance, PTL DEF Spec, WritesKeepSnapshot

(***************************************************************************)
(* Vault, and the administrators of topics.                                *)
(***************************************************************************)
VaultInv ==
  /\ latest \in 1 .. MaxVersion
  /\ announced \in [Signer -> 0 .. MaxVersion]
  /\ outdated \subseteq {s \in Signer : announced[s] # 0}
  /\ \A s \in Signer \ outdated : announced[s] \in {0, latest}

LEMMA LatestIsGreatest ==
  ASSUME NEW m \in Nat, NEW n \in 1 .. m
  PROVE  LatestKeyVersion(n .. m) = m
<1>1. m \in n .. m /\ \A y \in n .. m : m >= y
  OBVIOUS
<1>2. \A x \in n .. m : (\A y \in n .. m : x >= y) => x = m
  <2> TAKE x \in n .. m
  <2> HAVE \A y \in n .. m : x >= y
  <2>1. x >= m
    BY <1>1
  <2> QED
    BY <2>1
<1> QED
  BY <1>1, <1>2 DEF LatestKeyVersion, Max

LEMMA VaultInitially == VaultInit => VaultInv
BY VaultAssumption DEF VaultInit, VaultInv

LEMMA VaultStep ==
  ASSUME VaultInv, VaultNext \/ UNCHANGED vaultVars
  PROVE  VaultInv'
<1>1. CASE UNCHANGED vaultVars
  BY <1>1 DEF vaultVars, VaultInv
<1>2. CASE Rotate
  <2>1. latest' \in 1 .. MaxVersion
    BY <1>2, VaultAssumption DEF Rotate, VaultInv
  <2>2. \A s \in Signer \ outdated' : announced'[s] \in {0, latest'}
    BY <1>2 DEF Rotate
  <2> QED
    BY <1>2, <2>1, <2>2 DEF Rotate, VaultInv
<1>3. ASSUME NEW s \in Signer, NewSigner(s) PROVE VaultInv'
  <2>1. PICK oldest \in 1 .. latest :
          announced' = [announced EXCEPT ![s] = LatestKeyVersion(oldest .. latest)]
    BY <1>3 DEF NewSigner
  <2>2. announced' = [announced EXCEPT ![s] = latest] /\ UNCHANGED <<latest, outdated>>
    <3>1. latest \in Nat
      BY VaultAssumption DEF VaultInv
    <3>2. LatestKeyVersion(oldest .. latest) = latest
      BY <3>1, LatestIsGreatest
    <3> QED
      BY <1>3, <2>1, <3>2 DEF NewSigner
  <2>3. latest \in 0 .. MaxVersion
    BY VaultAssumption DEF VaultInv
  <2> QED
    BY <2>2, <2>3 DEF VaultInv
<1> QED
  BY <1>1, <1>2, <1>3 DEF VaultNext

CallState ==
  [state : {"execute", "receipt", "waiting", "ok", "err"}, props : Props \cup {Nil},
   key : AnyKey, slot : BOOLEAN, nodes : 0 .. MaxNodes,
   sent : {Nil, Operator, Unsigned} \cup 1 .. MaxVersion,
   landed : {"none", "flying", "done", "rejected"}, polls : 0 .. MaxPolls,
   seen : Info \cup {Nil}]

(* What the topic showed to a call that waited.                            *)
Shown(p, i) ==
  IF p.op = "delete" THEN i.state = "deleted"
  ELSE /\ p.memo \in {Nil, i.memo}
       /\ p.period \in {Nil, i.period}
       /\ p.op = "create" /\ p.keyed => i.admin # NoKey

(* A call that got as far as its receipt has no error in its slot; one that*)
(* got further has changed the topic.                                      *)
Honest(c) ==
  /\ c.state \in {"execute", "receipt", "waiting"} => c.props \in Props
  /\ c.landed = "flying" => c.props \in Props
  /\ c.state = "execute" => c.nodes < MaxNodes
  /\ c.state = "waiting" => c.polls < MaxPolls
  /\ c.state \in {"execute", "receipt"} => c.polls = 0
  /\ c.state \in {"receipt", "waiting", "ok"} => ~c.slot
  /\ c.state \in {"waiting", "ok"} => c.landed = "done"
  /\ c.state = "ok" /\ c.props # Nil /\ c.props.wait => Shown(c.props, c.seen)

AdminInv ==
  /\ info \in [Managed -> Info]
  /\ call \in [Admin -> CallState]
  /\ \A a \in Admin : Honest(call[a])

(* Where the constants of the administrators lie.                          *)
LEMMA Keys ==
  /\ 1 .. MaxVersion \subseteq AnyKey /\ NoKey \in AnyKey /\ Operator \in AnyKey
  /\ \A a \in Admin : SignerOf[a] \in Signer
  /\ 0 \in 0 .. MaxNodes /\ 0 \in 0 .. MaxPolls /\ 0 < MaxNodes /\ 0 < MaxPolls
  /\ MaxNodes \in Nat /\ MaxPolls \in Nat /\ MaxVersion \in Nat
BY AdminAssumption, VaultAssumption DEF AnyKey

LEMMA NoCallIsHonest == NoCall \in CallState /\ Honest(NoCall)
BY Keys DEF NoCall, CallState, Honest

LEMMA AdminInitially == TopicInit => AdminInv
BY NoCallIsHonest, Keys DEF TopicInit, AdminInv, NoTopic, Info

(* One administrator's call moves on.                                      *)
LEMMA OneCall ==
  ASSUME AdminInv, NEW a \in Admin, NEW c \in CallState, Honest(c),
         call' = [call EXCEPT ![a] = c], info' \in [Managed -> Info]
  PROVE  AdminInv'
<1>1. call' \in [Admin -> CallState] /\ \A b \in Admin : Honest(call'[b])
  BY DEF AdminInv
<1> QED
  BY <1>1 DEF AdminInv

LEMMA BeginInv ==
  ASSUME VaultInv, AdminInv, NEW a \in Admin, NEW p \in Props, Begin(a, p)
  PROVE  AdminInv'
<1>1. PICK state \in {"execute", "err"} :
        call' = [call EXCEPT ![a] =
          [NoCall EXCEPT !.state = state, !.props = p, !.landed = "none",
                         !.key = IF p.keyed THEN announced[SignerOf[a]] ELSE NoKey]]
  BY DEF Begin
<1> DEFINE k == IF p.keyed THEN announced[SignerOf[a]] ELSE NoKey
           c == [NoCall EXCEPT !.state = state, !.props = p, !.landed = "none", !.key = k]
<1>2. k \in AnyKey
  BY Keys DEF Begin, VaultInv
<1> HIDE DEF k
<1>3. /\ c \in CallState
      /\ c.state = state /\ c.props = p /\ c.landed = "none" /\ c.nodes = 0 /\ c.polls = 0
      /\ c.slot = FALSE
  BY <1>2, NoCallIsHonest DEF NoCall, CallState
<1>4. call' = [call EXCEPT ![a] = c] /\ info' = info
  BY <1>1 DEF k, Begin
<1> HIDE DEF c
<1>5. Honest(c)
  BY <1>3, Keys DEF Honest
<1> QED
  BY <1>3, <1>4, <1>5, OneCall DEF AdminInv

LEMMA ExecuteInv ==
  ASSUME VaultInv, AdminInv, NEW a \in Admin, Accepted(a) \/ Unavailable(a) \/ Refused(a)
  PROVE  AdminInv'
<1> DEFINE o == call[a]
<1>1. /\ o \in CallState /\ Honest(o) /\ o.state = "execute" /\ info' = info
      /\ info' \in [Managed -> Info]
  BY DEF AdminInv, Accepted, Unavailable, Refused
<1>2. AdminSignatures(a) \subseteq {Nil, Operator, Unsigned} \cup 1 .. MaxVersion
  BY DEF AdminSignatures, Signatures, VaultInv
<1>3. /\ o.nodes \in 0 .. MaxNodes /\ o.nodes < MaxNodes /\ MaxNodes \in Nat
      /\ o.sent \in {Nil, Operator, Unsigned} \cup 1 .. MaxVersion
      /\ o.slot \in BOOLEAN /\ o.landed \in {"none", "flying", "done", "rejected"}
      /\ o.props \in Props /\ o.polls = 0
  BY <1>1, Keys DEF CallState, Honest
<1>4. ASSUME NEW slot \in BOOLEAN, NEW sent \in {Nil, Operator, Unsigned} \cup 1 .. MaxVersion,
             NEW landed \in {"none", "flying", "done", "rejected"}, NEW nodes \in 0 .. MaxNodes,
             NEW state \in {"execute", "receipt", "err"},
             state = "execute" => nodes < MaxNodes, state = "receipt" => ~slot,
             call' = [call EXCEPT ![a] = [o EXCEPT !.slot = slot, !.sent = sent,
                        !.landed = landed, !.nodes = nodes, !.state = state]]
      PROVE  AdminInv'
  <2> DEFINE c == [o EXCEPT !.slot = slot, !.sent = sent, !.landed = landed,
                            !.nodes = nodes, !.state = state]
  <2> HIDE DEF o
  <2>1. c.state = state /\ c.nodes = nodes /\ c.polls = o.polls /\ c.props = o.props
    BY <1>1 DEF CallState
  <2>4. c.slot = slot
    BY <1>1 DEF CallState
  <2>5. c \in CallState
    BY <1>1 DEF CallState
  <2>2. call' = [call EXCEPT ![a] = c]
    BY <1>4
  <2> HIDE DEF c
  <2>3. Honest(c)
    BY <1>3, <1>4, <2>1, <2>4, Keys DEF Honest
  <2> QED
    BY <1>1, <2>2, <2>3, <2>5, OneCall
<1>5. CASE Accepted(a)
  <2>1. PICK g \in AdminSignatures(a), first \in {o.sent, Nil} :
          call' = [call EXCEPT ![a].slot = @ \/ g = Unsigned,
                     ![a].sent = IF first = Nil THEN g ELSE first,
                     ![a].landed = IF @ = "none" THEN "flying" ELSE @,
                     ![a].state = IF SlotFilled(a, g) THEN "err" ELSE "receipt"]
    BY <1>5 DEF Accepted
  <2> DEFINE slot == o.slot \/ g = Unsigned
             sent == IF first = Nil THEN g ELSE first
             landed == IF o.landed = "none" THEN "flying" ELSE o.landed
             state == IF slot THEN "err" ELSE "receipt"
  <2>2. /\ slot \in BOOLEAN /\ sent \in {Nil, Operator, Unsigned} \cup 1 .. MaxVersion
        /\ landed \in {"none", "flying", "done", "rejected"}
        /\ state \in {"execute", "receipt", "err"} /\ state # "execute"
        /\ state = "receipt" => ~slot
    BY <1>2, <1>3
  <2>3. call' = [call EXCEPT ![a] = [o EXCEPT !.slot = slot, !.sent = sent,
                   !.landed = landed, !.nodes = o.nodes, !.state = state]]
    BY <1>1, <2>1 DEF SlotFilled, CallState, AdminInv
  <2>4. o.nodes \in 0 .. MaxNodes
    BY <1>3
  <2> HIDE DEF o, slot, sent, landed, state
  <2> QED
    BY <1>4, <2>2, <2>3, <2>4
<1>6. CASE Unavailable(a)
  <2>1. PICK g \in AdminSignatures(a), taken \in BOOLEAN :
          call' = [call EXCEPT ![a].slot = @ \/ g = Unsigned,
                     ![a].sent = IF taken /\ @ = Nil THEN g ELSE @,
                     ![a].landed = IF taken /\ @ = "none" THEN "flying" ELSE @,
                     ![a].nodes = @ + 1,
                     ![a].state = IF o.nodes + 1 = MaxNodes THEN "err" ELSE @]
    BY <1>6 DEF Unavailable
  <2> DEFINE slot == o.slot \/ g = Unsigned
             sent == IF taken /\ o.sent = Nil THEN g ELSE o.sent
             landed == IF taken /\ o.landed = "none" THEN "flying" ELSE o.landed
             nodes == o.nodes + 1
             state == IF nodes = MaxNodes THEN "err" ELSE o.state
  <2>2. /\ slot \in BOOLEAN /\ sent \in {Nil, Operator, Unsigned} \cup 1 .. MaxVersion
        /\ landed \in {"none", "flying", "done", "rejected"}
        /\ nodes \in 0 .. MaxNodes
        /\ state \in {"execute", "receipt", "err"} /\ state # "receipt"
        /\ state = "execute" => nodes < MaxNodes
    BY <1>1, <1>2, <1>3
  <2>3. call' = [call EXCEPT ![a] = [o EXCEPT !.slot = slot, !.sent = sent,
                   !.landed = landed, !.nodes = nodes, !.state = state]]
    BY <1>1, <2>1 DEF CallState, AdminInv
  <2> HIDE DEF slot, sent, landed, nodes, state
  <2> QED
    BY <1>4, <2>2, <2>3
<1>7. CASE Refused(a)
  <2> DEFINE c == [o EXCEPT !.state = "err"]
  <2>1. c \in CallState /\ c.state = "err" /\ c.landed = o.landed /\ c.props = o.props
    BY <1>1 DEF CallState
  <2>2. call' = [call EXCEPT ![a] = c]
    BY <1>7 DEF Refused
  <2> HIDE DEF c
  <2>3. Honest(c)
    BY <1>3, <2>1 DEF Honest
  <2> QED
    BY <1>1, <2>1, <2>2, <2>3, OneCall
<1> QED
  BY <1>5, <1>6, <1>7

LEMMA ReceiptInv ==
  ASSUME AdminInv, NEW a \in Admin, ReceiptSucceeds(a) \/ ReceiptFails(a) \/ PollAgain(a)
  PROVE  AdminInv'
<1> DEFINE o == call[a]
<1>1. /\ o \in CallState /\ Honest(o) /\ info' = info /\ info' \in [Managed -> Info]
  BY DEF AdminInv, ReceiptSucceeds, ReceiptFails, PollAgain
<1>2. CASE ReceiptSucceeds(a)
  <2> DEFINE state == IF o.props.wait THEN "waiting" ELSE "ok"
             c == [o EXCEPT !.state = state]
  <2>1. call' = [call EXCEPT ![a] = c] /\ o.state = "receipt" /\ o.landed = "done"
    BY <1>2 DEF ReceiptSucceeds
  <2>2. state \in {"waiting", "ok"} /\ (state = "ok" => ~o.props.wait)
    OBVIOUS
  <2> HIDE DEF state
  <2>3. /\ c \in CallState /\ c.state = state /\ c.landed = o.landed /\ c.props = o.props
        /\ c.polls = o.polls
    BY <1>1, <2>2 DEF CallState
  <2>4. c.slot = o.slot
    BY <1>1 DEF CallState
  <2> HIDE DEF c
  <2>5. Honest(c)
    BY <1>1, <2>1, <2>2, <2>3, <2>4, Keys DEF Honest
  <2> QED
    BY <1>1, <2>1, <2>3, <2>5, OneCall
<1>3. CASE ReceiptFails(a)
  <2> DEFINE c == [o EXCEPT !.state = "err"]
  <2>1. c \in CallState /\ c.state = "err" /\ c.landed = o.landed /\ c.props = o.props
    BY <1>1 DEF CallState
  <2>2. call' = [call EXCEPT ![a] = c]
    BY <1>3 DEF ReceiptFails
  <2> HIDE DEF c
  <2>3. Honest(c)
    BY <1>1, <2>1 DEF Honest
  <2> QED
    BY <1>1, <2>1, <2>2, <2>3, OneCall
<1>4. CASE PollAgain(a)
  <2> DEFINE polls == o.polls + 1
             state == IF polls = MaxPolls THEN "err" ELSE o.state
             c == [o EXCEPT !.polls = polls, !.state = state]
  <2>1. /\ o.state = "waiting" /\ o.polls \in 0 .. MaxPolls /\ o.polls < MaxPolls
        /\ o.landed = "done" /\ ~o.slot /\ o.props \in Props
    BY <1>1, <1>4 DEF PollAgain, Honest, CallState
  <2>2. /\ polls \in 0 .. MaxPolls /\ state \in {"waiting", "err"}
        /\ state = "waiting" => polls < MaxPolls
    BY <2>1, Keys
  <2>3. call' = [call EXCEPT ![a] = c]
    BY <1>4 DEF PollAgain
  <2> HIDE DEF polls, state
  <2>4. /\ c \in CallState /\ c.state = state /\ c.landed = o.landed /\ c.props = o.props
        /\ c.polls = polls
    BY <1>1, <2>2 DEF CallState
  <2>5. c.slot = o.slot
    BY <1>1 DEF CallState
  <2> HIDE DEF c
  <2>6. Honest(c)
    BY <2>1, <2>2, <2>4, <2>5 DEF Honest
  <2> QED
    BY <1>1, <2>3, <2>4, <2>6, OneCall
<1> QED
  BY <1>2, <1>3, <1>4

(* The wait ends well: what the query showed is what was asked for.        *)
LEMMA PollSeesInv ==
  ASSUME AdminInv, NEW a \in Admin, PollSees(a)
  PROVE  AdminInv'
<1> DEFINE o == call[a]
           p == o.props
           i == info[p.topic]
           c == [o EXCEPT !.state = "ok", !.seen = i]
<1>1. /\ o \in CallState /\ Honest(o) /\ info' = info /\ o.state = "waiting"
      /\ call' = [call EXCEPT ![a] = c] /\ info' \in [Managed -> Info]
  BY DEF AdminInv, PollSees
<1>2. p \in Props /\ p.topic \in Managed /\ i \in Info
  BY <1>1 DEF Honest, Props, AdminInv
<1>3. Shown(p, i)
  BY <1>2 DEF PollSees, Shows, Shown
<1> HIDE DEF i
<1>4. /\ c \in CallState /\ c.state = "ok" /\ c.seen = i /\ c.props = p
      /\ c.landed = o.landed
  BY <1>1, <1>2 DEF CallState
<1>5. c.slot = o.slot
  BY <1>1 DEF CallState
<1> HIDE DEF c, p
<1>6. Honest(c)
  BY <1>1, <1>2, <1>3, <1>4, <1>5 DEF Honest
<1> QED
  BY <1>1, <1>4, <1>6, OneCall

LEMMA LandsInv ==
  ASSUME AdminInv, NEW a \in Admin, Lands(a)
  PROVE  AdminInv'
<1> DEFINE o == call[a]
           p == o.props
<1>1. /\ o \in CallState /\ Honest(o) /\ o.landed = "flying" /\ p \in Props
      /\ o.key \in AnyKey
  BY DEF AdminInv, Lands, Honest, CallState
<1>2. info' \in [Managed -> Info]
  <2>1. p.topic \in Managed /\ info[p.topic] \in Info
    BY <1>1 DEF Props, AdminInv
  <2>2. /\ p.memo \in Memo \cup {Nil} /\ p.period \in Period \cup {Nil}
        /\ p.op \in {"create", "update", "delete"}
    BY <1>1 DEF Props
  <2>3. Changed(a) \in Info
    BY <1>1, <2>1, <2>2 DEF Changed, Given, Info
  <2> QED
    BY <2>1, <2>3 DEF Lands, AdminInv
<1>3. PICK landed \in {"done", "rejected"} : call' = [call EXCEPT ![a].landed = landed]
  BY DEF Lands
<1> DEFINE c == [o EXCEPT !.landed = landed]
<1>4. call' = [call EXCEPT ![a] = c]
  BY <1>3
<1>5. /\ c \in CallState /\ c.state = o.state /\ c.props = o.props /\ c.landed = landed
      /\ c.nodes = o.nodes /\ c.polls = o.polls /\ c.seen = o.seen
  BY <1>1 DEF CallState
<1>6. c.slot = o.slot
  BY <1>1 DEF CallState
<1> HIDE DEF c
<1>7. Honest(c)
  BY <1>1, <1>5, <1>6 DEF Honest
<1> QED
  BY <1>2, <1>4, <1>5, <1>7, OneCall

LEMMA OthersChangeInv ==
  ASSUME AdminInv, NEW t \in Managed, OthersChange(t)
  PROVE  AdminInv'
<1>1. info' \in [Managed -> Info]
  BY DEF OthersChange, AdminInv, Info
<1> QED
  BY <1>1 DEF OthersChange, AdminInv

LEMMA AdminStep == VaultInv /\ AdminInv /\ [Next]_vars => VaultInv' /\ AdminInv'
<1> SUFFICES ASSUME VaultInv, AdminInv, [Next]_vars PROVE VaultInv' /\ AdminInv'
  OBVIOUS
<1>1. CASE UNCHANGED topicVars
  <2>1. AdminInv'
    BY <1>1 DEF topicVars, AdminInv
  <2>2. VaultNext \/ UNCHANGED vaultVars
    BY <1>1 DEF Next, vars, TopicNext, TopicCall, Begin, CallStep, Accepted, Unavailable,
                Refused, ReceiptSucceeds, ReceiptFails, PollSees, PollAgain, Lands, OthersChange
  <2> QED
    BY <2>1, <2>2, VaultStep
<1>2. CASE TopicNext
  <2>1. AdminInv'
    BY <1>2, BeginInv, ExecuteInv, ReceiptInv, PollSeesInv, LandsInv, OthersChangeInv
       DEF TopicNext, TopicCall, CallStep
  <2>2. UNCHANGED vaultVars
    BY <1>2 DEF TopicNext, TopicCall, Begin, CallStep, Accepted, Unavailable,
                Refused, ReceiptSucceeds, ReceiptFails, PollSees, PollAgain, Lands, OthersChange
  <2> QED
    BY <2>1, <2>2, VaultStep
<1> QED
  BY <1>1, <1>2 DEF Next, vars

THEOREM AdminInvariance == Spec => [](VaultInv /\ AdminInv)
<1> QED
  BY VaultInitially, AdminInitially, AdminStep, PTL DEF Spec, Init

(* State of topics and of calls is of its type, for any number of nodes,   *)
(* polls and versions.                                                     *)
THEOREM TopicTypes == Spec => []TopicTypeOK
<1>1. AdminInv => TopicTypeOK
  BY DEF AdminInv, TopicTypeOK, CallState
<1> QED
  BY <1>1, AdminInvariance, PTL

(* Success is never reported over an error of a signer, nor before the     *)
(* change is there and, for a call that waits, was shown.                  *)
THEOREM SuccessIsTrue == Spec => []OkMeansDone
<1>1. AdminInv => OkMeansDone
  BY DEF AdminInv, OkMeansDone, Honest, Shown
<1> QED
  BY <1>1, AdminInvariance, PTL

(***************************************************************************)
(* Pipelines.  Whoever signs on one has a public key, and that is of the   *)
(* version which Vault signs with, until a rotation.                       *)
(***************************************************************************)
Mark == [label : STRING, signer : Signer \cup {Nil}, signature : Int \cup {Nil}]

RunState == [phase : {"rest", "step", "hooks", "catch"}, at : Nat, message : Seq(Mark),
             signature : Int \cup {Nil}]

KeptState ==
  [status : {"pause", "success", "error"}, label : STRING \cup {""}, message : Seq(Mark)]

Genuine(m) ==
  \A i \in DOMAIN m :
    m[i].signer \notin outdated \cup {Nil} =>
      m[i].signature = announced[m[i].signer] /\ m[i].signature # 0

PipelineInv ==
  /\ VaultInv
  /\ pipeline \in Pipelines
  /\ run \in [Task -> RunState]
  /\ runs \in Nat
  /\ kept \subseteq KeptState
  /\ \A s \in kept : s.status = "pause" => \E i \in DOMAIN Steps : Steps[i].label = s.label
  /\ \A c \in Task : Genuine(run[c].message)
  /\ \A s \in kept : Genuine(s.message)

LEMMA StepTypes ==
  ASSUME pipeline \in Pipelines
  PROVE  \A i \in DOMAIN Steps : i \in Nat /\ Steps[i].label \in STRING
<1>1. Steps \in Seq(Step)
  BY PipelineAssumption DEF Steps
<1>2. ASSUME NEW i \in DOMAIN Steps PROVE i \in Nat /\ Steps[i] \in Step
  BY <1>1
<1> QED
  BY <1>2 DEF Step

LEMMA RestedRuns == Rested \in RunState /\ Genuine(Rested.message)
<1>1. Rested \in RunState
  BY DEF Rested, RunState
<1>2. Rested.message = <<>>
  BY DEF Rested
<1> QED
  BY <1>1, <1>2 DEF Genuine

LEMMA PipelineInitially == RunInit /\ VaultInit => PipelineInv
BY VaultInitially, RestedRuns DEF RunInit, PipelineInv

(* Vault goes on: signatures of those who are not outdated are unchanged.  *)
LEMMA RotationInv ==
  ASSUME PipelineInv, VaultNext \/ UNCHANGED vaultVars, UNCHANGED runVars
  PROVE  PipelineInv'
<1>1. VaultInv'
  BY VaultStep DEF PipelineInv
<1>2. outdated \subseteq outdated'
      /\ \A s \in Signer \ outdated' : announced[s] # 0 => announced'[s] = announced[s]
  <2>1. CASE UNCHANGED vaultVars
    BY <2>1 DEF vaultVars
  <2>2. CASE Rotate
    <3>1. outdated' = {s \in Signer : announced[s] # 0} /\ announced' = announced
      BY <2>2 DEF Rotate
    <3>2. \A s \in outdated : s \in outdated'
      BY <3>1 DEF PipelineInv, VaultInv
    <3> QED
      BY <3>1, <3>2
  <2>3. ASSUME NEW s \in Signer, NewSigner(s)
        PROVE  outdated' = outdated /\ \A u \in Signer : announced[u] # 0 => announced'[u] = announced[u]
    BY <2>3 DEF NewSigner, PipelineInv, VaultInv
  <2> QED
    BY <2>1, <2>2, <2>3 DEF VaultNext
<1>3. ASSUME NEW m \in Seq(Mark), Genuine(m) PROVE Genuine(m)'
  <2>1. ASSUME NEW i \in DOMAIN m PROVE m[i].signer \in Signer \cup {Nil}
    <3>1. m[i] \in Mark
      BY <1>3, <2>1
    <3> QED
      BY <3>1 DEF Mark
  <2> QED
    BY <1>2, <1>3, <2>1 DEF Genuine
<1>4. \A c \in Task : run[c].message \in Seq(Mark) /\ Genuine(run[c].message)
  BY DEF PipelineInv, RunState
<1>5. \A s \in kept : s.message \in Seq(Mark) /\ Genuine(s.message)
  BY DEF PipelineInv, KeptState
<1>6. (\A c \in Task : Genuine(run[c].message)') /\ (\A s \in kept : Genuine(s.message)')
  BY <1>3, <1>4, <1>5 DEF runVars, Genuine
<1> QED
  BY <1>1, <1>6 DEF PipelineInv, runVars, Steps, Genuine

(* A task's run moves on: what it has put on the message is genuine.       *)
LEMMA OneRun ==
  ASSUME PipelineInv, NEW c \in Task, NEW r \in RunState, Genuine(r.message),
         run' = [run EXCEPT ![c] = r],
         UNCHANGED <<pipeline, kept, vaultVars>>, runs' \in Nat
  PROVE  PipelineInv'
<1>1. run' \in [Task -> RunState] /\ \A d \in Task : Genuine(run'[d].message)
  BY DEF PipelineInv
<1>2. VaultInv'
  BY VaultStep DEF PipelineInv
<1>3. (\A d \in Task : Genuine(run[d].message)') /\ (\A s \in kept : Genuine(s.message)')
  BY <1>1 DEF PipelineInv, Genuine, vaultVars
<1> QED
  BY <1>1, <1>2, <1>3 DEF PipelineInv, Steps, Genuine

LEMMA CalledInv ==
  ASSUME PipelineInv, NEW c \in Task, NEW phase \in {"step", "hooks"}, NEW at \in Nat,
         NEW message \in Seq(Mark), Genuine(message), Called(c, phase, at, message)
  PROVE  PipelineInv'
<1>1. PICK s \in {Nil, -runs'} :
        run' = [run EXCEPT ![c] = [phase |-> phase, at |-> at, message |-> message,
                                   signature |-> s]]
  BY DEF Called
<1>2. runs' \in Nat /\ s \in Int \cup {Nil} /\ UNCHANGED <<pipeline, kept, vaultVars>>
  BY DEF Called, PipelineInv
<1> DEFINE r == [phase |-> phase, at |-> at, message |-> message, signature |-> s]
<1>3. r \in RunState /\ r.message = message
  BY <1>2 DEF RunState
<1> HIDE DEF r
<1>4. Genuine(r.message)
  BY <1>3
<1> QED
  BY <1>1, <1>2, <1>3, <1>4, OneRun DEF r

LEMMA CallsInv ==
  ASSUME PipelineInv, NEW c \in Task, Process(c) \/ Resume(c)
  PROVE  PipelineInv'
<1>1. CASE Process(c)
  <2>1. <<>> \in Seq(Mark) /\ Genuine(<<>>)
    BY DEF Genuine
  <2> QED
    BY <1>1, <2>1, CalledInv DEF Process
<1>2. CASE Resume(c)
  <2>1. PICK s \in kept : /\ s.status = "pause"
                         /\ Called(c, "hooks", GetIndexByLabel(s.label), s.message)
    BY <1>2 DEF Resume
  <2>2. GetIndexByLabel(s.label) \in Nat
    BY <2>1, StepTypes DEF PipelineInv, GetIndexByLabel
  <2>3. s.message \in Seq(Mark) /\ Genuine(s.message)
    BY DEF PipelineInv, KeptState
  <2> QED
    BY <2>1, <2>2, <2>3, CalledInv
<1> QED
  BY <1>1, <1>2

(* A step that puts a mark on the message, or nothing.                     *)
LEMMA GoesInv ==
  ASSUME PipelineInv, NEW c \in Task, NEW message \in Seq(Mark), Genuine(message),
         NEW signature \in Int \cup {Nil}, Goes(c, "hooks", message, signature)
  PROVE  PipelineInv'
<1> DEFINE r == [run[c] EXCEPT !.phase = "hooks", !.message = message, !.signature = signature]
<1>1. r \in RunState /\ r.message = message
  BY DEF PipelineInv, RunState
<1>2. run' = [run EXCEPT ![c] = r] /\ UNCHANGED <<pipeline, kept, vaultVars>> /\ runs' \in Nat
  BY DEF Goes, PipelineInv
<1> HIDE DEF r
<1>3. Genuine(r.message)
  BY <1>1
<1> QED
  BY <1>1, <1>2, <1>3, OneRun

LEMMA Marked ==
  ASSUME PipelineInv, NEW c \in Task, run[c].at \in DOMAIN Steps,
         NEW s \in Signer \cup {Nil}, NEW v \in Int \cup {Nil},
         s \notin outdated \cup {Nil} => v = announced[s] /\ v # 0
  PROVE  With(c, s, v) \in Seq(Mark) /\ Genuine(With(c, s, v))
<1> DEFINE m == run[c].message
           e == [label |-> Steps[run[c].at].label, signer |-> s, signature |-> v]
<1>1. m \in Seq(Mark) /\ Genuine(m) /\ Steps[run[c].at].label \in STRING
  BY StepTypes DEF PipelineInv, RunState
<1>2. e \in Mark /\ e.signer = s /\ e.signature = v
  BY <1>1 DEF Mark
<1>3. With(c, s, v) = Append(m, e)
  BY DEF With
<1> HIDE DEF m, e
<1>4. \A i \in DOMAIN Append(m, e) :
        Append(m, e)[i] = e \/ (i \in DOMAIN m /\ Append(m, e)[i] = m[i])
  BY <1>1, <1>2
<1>5. Append(m, e) \in Seq(Mark)
  BY <1>1, <1>2
<1> QED
  BY <1>1, <1>2, <1>3, <1>4, <1>5 DEF Genuine

LEMMA MarkingInv ==
  ASSUME PipelineInv, NEW c \in Task, CallbackStep(c) \/ SignWithSigner(c) \/ AttachSignature(c)
  PROVE  PipelineInv'
<1>1. run[c].signature \in Int \cup {Nil} /\ run[c].at \in DOMAIN Steps
  BY DEF PipelineInv, RunState, CallbackStep, SignWithSigner, AttachSignature, At
<1>2. CASE CallbackStep(c)
  <2>1. With(c, Nil, Nil) \in Seq(Mark) /\ Genuine(With(c, Nil, Nil))
    BY <1>1, Marked
  <2> QED
    BY <1>1, <1>2, <2>1, GoesInv DEF CallbackStep
<1>3. CASE SignWithSigner(c)
  <2> DEFINE s == RunSigner[c]
  <2>1. /\ s \in Signer /\ announced[s] # 0
        /\ Goes(c, "hooks", With(c, s, latest), run[c].signature)
    BY <1>3, PipelineAssumption DEF SignWithSigner, Signatures
  <2>2. latest \in Int /\ latest # 0 /\ (s \notin outdated => announced[s] = latest)
    BY <2>1, VaultAssumption DEF PipelineInv, VaultInv
  <2>3. With(c, s, latest) \in Seq(Mark) /\ Genuine(With(c, s, latest))
    BY <1>1, <2>1, <2>2, Marked
  <2> QED
    BY <1>1, <2>1, <2>3, GoesInv
<1>4. CASE AttachSignature(c)
  <2>1. /\ With(c, Nil, run[c].signature) \in Seq(Mark)
        /\ Genuine(With(c, Nil, run[c].signature))
    BY <1>1, Marked
  <2> QED
    BY <1>4, <2>1, GoesInv DEF AttachSignature
<1> QED
  BY <1>2, <1>3, <1>4

(* A step that fails, and hooks.                                           *)
LEMMA QuietRunInv ==
  ASSUME PipelineInv, NEW c \in Task,
         StepFails(c) \/ HooksPass(c) \/ HooksFail(c) \/ CatchFails(c)
  PROVE  PipelineInv'
<1>1. /\ run[c] \in RunState /\ Genuine(run[c].message)
      /\ Rested \in RunState /\ Genuine(Rested.message)
  BY RestedRuns DEF PipelineInv
<1>2. UNCHANGED <<pipeline, kept, vaultVars>> /\ runs' \in Nat
  BY DEF StepFails, HooksPass, HooksFail, CatchFails, PipelineInv
<1>3. PICK r \in {Rested, [run[c] EXCEPT !.phase = "catch"],
                   [run[c] EXCEPT !.phase = "step", !.at = @ + 1]} :
        run' = [run EXCEPT ![c] = r]
  BY DEF StepFails, HooksPass, HooksFail, CatchFails
<1>4. r \in RunState /\ r.message \in {run[c].message, Rested.message}
  <2>1. CASE r = Rested
    BY <1>1, <2>1
  <2>2. CASE r = [run[c] EXCEPT !.phase = "catch"]
    BY <1>1, <2>2 DEF RunState
  <2>3. CASE r = [run[c] EXCEPT !.phase = "step", !.at = @ + 1]
    <3> DEFINE n == run[c].at + 1
    <3>1. n \in Nat /\ r = [run[c] EXCEPT !.phase = "step", !.at = n]
      BY <1>1, <2>3 DEF RunState
    <3> HIDE DEF n
    <3> QED
      BY <1>1, <3>1 DEF RunState
  <2> QED
    BY <1>3, <2>1, <2>2, <2>3
<1>5. Genuine(r.message)
  BY <1>1, <1>4
<1> QED
  BY <1>2, <1>3, <1>4, <1>5, OneRun

LEMMA HandsOutInv ==
  ASSUME PipelineInv, NEW c \in Task, NEW status \in {"pause", "success", "error"},
         NEW label \in STRING \cup {""}, HandsOut(c, status, label),
         status = "pause" => \E i \in DOMAIN Steps : Steps[i].label = label
  PROVE  PipelineInv'
<1> DEFINE s == [status |-> status, label |-> label, message |-> run[c].message]
<1>1. run[c].message \in Seq(Mark) /\ Genuine(run[c].message) /\ run \in [Task -> RunState]
  BY DEF PipelineInv, RunState
<1>2. s \in KeptState /\ s.status = status /\ s.label = label /\ s.message = run[c].message
  BY <1>1 DEF KeptState
<1>3. kept' = kept \cup {s} /\ run' = [run EXCEPT ![c] = Rested]
      /\ UNCHANGED <<pipeline, runs, vaultVars>>
  BY DEF HandsOut
<1> HIDE DEF s
<1>4. Rested \in RunState /\ Genuine(Rested.message)
  BY RestedRuns
<1>5. run' \in [Task -> RunState] /\ \A d \in Task : Genuine(run'[d].message)
  BY <1>1, <1>3, <1>4 DEF PipelineInv
<1>6. /\ kept' \subseteq KeptState
      /\ \A u \in kept' : u.status = "pause" => \E i \in DOMAIN Steps : Steps[i].label = u.label
      /\ \A u \in kept' : Genuine(u.message)
  BY <1>1, <1>2, <1>3 DEF PipelineInv
<1>7. VaultInv'
  BY <1>3, VaultStep DEF PipelineInv
<1>8. \A m : Genuine(m)' <=> Genuine(m)
  BY <1>3 DEF Genuine, vaultVars
<1>9. (\A d \in Task : Genuine(run[d].message)') /\ (\A u \in kept' : Genuine(u.message)')
  <2>1. \A d \in Task : Genuine(run[d].message)'
    BY <1>5, <1>8 DEF Genuine
  <2>2. \A u \in kept' : Genuine(u.message)'
    BY <1>6, <1>8
  <2> QED
    BY <2>1, <2>2
<1> QED
  BY <1>3, <1>5, <1>6, <1>7, <1>9 DEF PipelineInv, Steps, Genuine

LEMMA PipelineStep ==
  PipelineInv /\ [RunNext \/ (VaultNext /\ UNCHANGED runVars)]_<<runVars, vaultVars>>
    => PipelineInv'
<1> SUFFICES ASSUME PipelineInv,
                    \/ RunNext
                    \/ (VaultNext \/ UNCHANGED vaultVars) /\ UNCHANGED runVars
             PROVE  PipelineInv'
  OBVIOUS
<1>1. CASE (VaultNext \/ UNCHANGED vaultVars) /\ UNCHANGED runVars
  BY <1>1, RotationInv
<1>2. ASSUME NEW c \in Task, RunStep(c) PROVE PipelineInv'
  <2>1. CASE CallbackStep(c) \/ SignWithSigner(c) \/ AttachSignature(c)
    BY <2>1, MarkingInv
  <2>2. CASE StepFails(c) \/ HooksPass(c) \/ HooksFail(c) \/ CatchFails(c)
    BY <2>2, QuietRunInv
  <2>3. CASE Pauses(c)
    <3>1. run[c].at \in DOMAIN Steps /\ HandsOut(c, "pause", Steps[run[c].at].label)
      BY <2>3 DEF Pauses, At
    <3>2. Steps[run[c].at].label \in STRING
      BY <3>1, StepTypes DEF PipelineInv
    <3> QED
      BY <3>1, <3>2, HandsOutInv
  <2>4. CASE Succeeds(c) \/ CatchPasses(c)
    <3>1. "" \in STRING \cup {""}
      OBVIOUS
    <3>2. HandsOut(c, "success", "") \/ HandsOut(c, "error", "")
      BY <2>4 DEF Succeeds, CatchPasses
    <3> QED
      BY <3>1, <3>2, HandsOutInv
  <2> QED
    BY <1>2, <2>1, <2>2, <2>3, <2>4 DEF RunStep
<1>3. CASE RunNext
  BY <1>2, <1>3, CallsInv DEF RunNext
<1> QED
  BY <1>1, <1>3

THEOREM PipelineInvariance == RunSpec => []PipelineInv
<1> QED
  BY PipelineInitially, PipelineStep, PTL DEF RunSpec

(* A signature verifies under the announced key until a rotation, for any  *)
(* pipelines, any interleaving of runs, and any number of rotations.       *)
THEOREM SignaturesVerify == RunSpec => []SignedAsAnnounced
<1>1. PipelineInv => SignedAsAnnounced
  BY DEF PipelineInv, SignedAsAnnounced, Genuine
<1> QED
  BY <1>1, PipelineInvariance, PTL

(***************************************************************************)
(* The trace of the first steps: what the recursion says, it defines.  If  *)
(* there were a first place up to which it defines nothing, one more step  *)
(* from the place before would define it.                                  *)
(***************************************************************************)
LEMMA Traces ==
  ASSUME NEW steps \in Seq(Step)
  PROVE  /\ Before(steps, 1) = <<>>
         /\ \A n \in 1 .. Len(steps) :
              Before(steps, n + 1) =
                IF steps[n].kind = "Pause" THEN Before(steps, n)
                ELSE Append(Before(steps, n), steps[n].label)
<1> DEFINE L == Len(steps) + 1
           Is(g, m) == g = [n \in 1 .. m |->
                              IF n = 1 THEN <<>>
                              ELSE IF steps[n - 1].kind = "Pause" THEN g[n - 1]
                              ELSE Append(g[n - 1], steps[n - 1].label)]
           Bad == {m \in 1 .. L : ~ \E g : Is(g, m)}
<1>1. L \in Nat /\ L > 0
  OBVIOUS
<1>2. Bad = {}
  <2> SUFFICES ASSUME Bad # {} PROVE FALSE
    OBVIOUS
  <2>1. PICK k \in Bad : \A m \in Bad : k <= m
    <3>1. Bad \subseteq Nat
      BY <1>1
    <3> HIDE DEF Bad
    <3> QED
      BY <3>1, Least
  <2>2. k \in 1 .. L /\ ~ \E g : Is(g, k)
    OBVIOUS
  <2>3. k # 1
    <3>1. Is([n \in 1 .. 1 |-> <<>>], 1)
      OBVIOUS
    <3> QED
      BY <2>2, <3>1
  <2>4. k - 1 \in 1 .. L /\ k - 1 \notin Bad
    <3>1. k - 1 \in 1 .. L /\ ~(k <= k - 1)
      BY <1>1, <2>2, <2>3
    <3> HIDE DEF Bad
    <3> QED
      BY <2>1, <3>1
  <2>5. PICK g : Is(g, k - 1)
    BY <2>4
  <2> DEFINE h == [n \in 1 .. k |->
                     IF n = 1 THEN <<>>
                     ELSE IF steps[n - 1].kind = "Pause" THEN g[n - 1]
                     ELSE Append(g[n - 1], steps[n - 1].label)]
  <2>6. ASSUME NEW n \in 1 .. k - 1 PROVE h[n] = g[n]
    <3>1. n \in 1 .. k
      BY <1>1, <2>2
    <3> QED
      BY <2>5, <3>1
  <2>7. h = [n \in 1 .. k |->
               IF n = 1 THEN <<>>
               ELSE IF steps[n - 1].kind = "Pause" THEN g[n - 1]
               ELSE Append(g[n - 1], steps[n - 1].label)]
    OBVIOUS
  <2> HIDE DEF h
  <2>8. ASSUME NEW n \in 1 .. k, n # 1 PROVE h[n - 1] = g[n - 1]
    <3>1. n - 1 \in 1 .. k - 1
      BY <1>1, <2>2, <2>8
    <3> QED
      BY <2>6, <3>1
  <2>9. Is(h, k)
    BY <2>7, <2>8
  <2> QED
    BY <2>2, <2>9
<1>3. \E g : Is(g, L)
  BY <1>1, <1>2
<1> DEFINE f == CHOOSE g : Is(g, L)
<1>4. Is(f, L)
  BY <1>3
<1>5. \A i : Before(steps, i) = f[i]
  BY DEF Before
<1> HIDE DEF f
<1>6. f[1] = <<>> /\ \A n \in 1 .. Len(steps) :
        f[n + 1] = IF steps[n].kind = "Pause" THEN f[n] ELSE Append(f[n], steps[n].label)
  <2>1. f[1] = <<>>
    BY <1>1, <1>4
  <2>2. ASSUME NEW n \in 1 .. Len(steps)
        PROVE  f[n + 1] = IF steps[n].kind = "Pause" THEN f[n] ELSE Append(f[n], steps[n].label)
    <3>1. n + 1 \in 1 .. L /\ n + 1 # 1 /\ (n + 1) - 1 = n
      BY <1>1
    <3> QED
      BY <1>4, <3>1
  <2> QED
    BY <2>1, <2>2
<1> QED
  BY <1>5, <1>6
(* These traces are sequences of labels, each a prefix of the later ones.  *)
LEMMA TraceTypes ==
  ASSUME NEW steps \in Seq(Step), NEW i \in 1 .. Len(steps) + 1
  PROVE  Before(steps, i) \in Seq(STRING)
<1> DEFINE Bad == {n \in 1 .. Len(steps) + 1 : Before(steps, n) \notin Seq(STRING)}
<1> SUFFICES ASSUME Bad # {} PROVE FALSE
  OBVIOUS
<1>1. PICK k \in Bad : \A n \in Bad : k <= n
  <2>1. Bad \subseteq Nat
    OBVIOUS
  <2> HIDE DEF Bad
  <2> QED
    BY <2>1, Least
<1>2. k \in 1 .. Len(steps) + 1 /\ Before(steps, k) \notin Seq(STRING)
  OBVIOUS
<1>3. \A n \in 1 .. Len(steps) + 1 : n \in Bad \/ Before(steps, n) \in Seq(STRING)
  OBVIOUS
<1> HIDE DEF Bad
<1>4. k # 1
  <2>1. Before(steps, 1) = <<>> /\ <<>> \in Seq(STRING)
    BY Traces
  <2> QED
    BY <1>2, <2>1
<1>5. k - 1 \in 1 .. Len(steps) /\ k - 1 \in 1 .. Len(steps) + 1 /\ (k - 1) + 1 = k
  BY <1>2, <1>4
<1>6. Before(steps, k - 1) \in Seq(STRING)
  <2>1. ~(k <= k - 1)
    BY <1>5
  <2> QED
    BY <1>1, <1>3, <1>5, <2>1
<1>7. steps[k - 1].label \in STRING
  <2>1. steps[k - 1] \in Step
    BY <1>5
  <2> QED
    BY <2>1 DEF Step
<1>8. Before(steps, k) \in {Before(steps, k - 1),
                            Append(Before(steps, k - 1), steps[k - 1].label)}
  <2> DEFINE n == k - 1
  <2>1. n \in 1 .. Len(steps) /\ n + 1 = k
    BY <1>5
  <2> HIDE DEF n
  <2>2. Before(steps, n + 1) \in {Before(steps, n), Append(Before(steps, n), steps[n].label)}
    BY <2>1, Traces
  <2> QED
    BY <2>1, <2>2 DEF n
<1>9. Append(Before(steps, k - 1), steps[k - 1].label) \in Seq(STRING)
  BY <1>6, <1>7
<1> QED
  BY <1>2, <1>6, <1>8, <1>9

LEMMA TracesGrow ==
  ASSUME NEW steps \in Seq(Step), NEW i \in 1 .. Len(steps) + 1
  PROVE  IsPrefix(Before(steps, i), Before(steps, Len(steps) + 1))
<1> DEFINE last == Len(steps) + 1
           Bad == {n \in i .. last : ~ IsPrefix(Before(steps, i), Before(steps, n))}
<1>1. last \in Nat /\ i \in Nat /\ i <= last /\ \A n \in i .. last : n \in 1 .. Len(steps) + 1
  OBVIOUS
<1>2. ASSUME Bad # {} PROVE FALSE
  <2>1. PICK k \in Bad : \A n \in Bad : k <= n
    <3>1. Bad \subseteq Nat
      BY <1>1
    <3> HIDE DEF Bad
    <3> QED
      BY <1>2, <3>1, Least
  <2>2. k \in i .. last /\ ~ IsPrefix(Before(steps, i), Before(steps, k))
    OBVIOUS
  <2>3. Before(steps, i) \in Seq(STRING) /\ Before(steps, k) \in Seq(STRING)
    BY <1>1, <2>2, TraceTypes
  <2>4. k # i
    BY <2>2, <2>3 DEF IsPrefix
  <2>5. k - 1 \in i .. last /\ k - 1 \in 1 .. Len(steps) /\ (k - 1) + 1 = k
    BY <1>1, <2>2, <2>4
  <2>6. IsPrefix(Before(steps, i), Before(steps, k - 1))
    <3>1. ~(k <= k - 1)
      BY <2>5
    <3> QED
      BY <2>1, <2>5, <3>1
  <2>7. Before(steps, k - 1) \in Seq(STRING) /\ steps[k - 1].label \in STRING
    <3>1. steps[k - 1] \in Step
      BY <2>5
    <3> QED
      BY <2>5, <3>1, TraceTypes DEF Step
  <2>8. Before(steps, k) \in {Before(steps, k - 1),
                              Append(Before(steps, k - 1), steps[k - 1].label)}
    BY <2>5, Traces
  <2> DEFINE s == Before(steps, i)
             t == Before(steps, k - 1)
             e == steps[k - 1].label
  <2>9. IsPrefix(s, Append(t, e))
    <3> HIDE DEF s, t, e
    <3>1. Len(s) <= Len(t) /\ Len(s) \in Nat /\ Len(t) \in Nat
      BY <2>3, <2>6, <2>7 DEF IsPrefix, s, t
    <3>2. Len(Append(t, e)) = Len(t) + 1 /\ \A j \in 1 .. Len(s) : Append(t, e)[j] = t[j]
      BY <2>7, <3>1 DEF t, e
    <3>3. SubSeq(Append(t, e), 1, Len(s)) = SubSeq(t, 1, Len(s))
      BY <2>7, <3>1, <3>2 DEF t, e
    <3> QED
      BY <2>6, <3>1, <3>2, <3>3 DEF IsPrefix, s, t, e
  <2> QED
    BY <2>2, <2>6, <2>8, <2>9
<1>3. last \in i .. last
  BY <1>1
<1> QED
  BY <1>2, <1>3

(***************************************************************************)
(* Runs leave the trace of the steps that they went through.  Signatures   *)
(* that callers gave: a message has none of later calls, and none twice;   *)
(* and not yet the one that its own call still holds.                      *)
(***************************************************************************)
Attached(m) == {i \in DOMAIN m : m[i].signer = Nil /\ m[i].signature # Nil}

OncePut(m, n) ==
  /\ \A i, j \in Attached(m) : m[i].signature = m[j].signature => i = j
  /\ \A i \in Attached(m) : -m[i].signature \in 1 .. n

StillHeld(s, m, n) ==
  s # Nil => -s \in 1 .. n /\ \A i \in Attached(m) : m[i].signature # s

SoundRun(steps, n, r) ==
  /\ r.at \in 1 .. Len(steps) + 1
  /\ r.phase = "step" => Labels(r.message) = Before(steps, r.at)
  /\ r.phase = "hooks" => r.at \in DOMAIN steps /\ Labels(r.message) = Before(steps, r.at + 1)
  /\ r.phase = "catch" => \E i \in 1 .. Len(steps) + 1 : Labels(r.message) = Before(steps, i)
  /\ OncePut(r.message, n)
  /\ StillHeld(r.signature, r.message, n)

SoundKept(steps, n, s) ==
  /\ s.status = "success" => Labels(s.message) = Before(steps, Len(steps) + 1)
  /\ s.status = "pause" =>
       \E i \in DOMAIN steps : /\ steps[i].label = s.label /\ steps[i].kind = "Pause"
                               /\ Labels(s.message) = Before(steps, i)
  /\ s.status = "error" => \E i \in 1 .. Len(steps) + 1 : Labels(s.message) = Before(steps, i)
  /\ OncePut(s.message, n)

WholeInv ==
  /\ PipelineInv
  /\ \A c \in Task : SoundRun(Steps, runs, run[c])
  /\ \A s \in kept : SoundKept(Steps, runs, s)

LEMMA RestIsSound ==
  ASSUME NEW steps \in Seq(Step), NEW n \in Nat
  PROVE  SoundRun(steps, n, Rested)
<1>1. /\ Rested.at = 1 /\ Rested.phase = "rest"
      /\ Rested.message = <<>> /\ Rested.signature = Nil
  BY DEF Rested
<1>2. Attached(<<>>) = {}
  BY DEF Attached
<1>3. 1 \in 1 .. Len(steps) + 1
  OBVIOUS
<1> QED
  BY <1>1, <1>2, <1>3 DEF SoundRun, OncePut, StillHeld

(* Later calls do not disturb what is there.                               *)
LEMMA SoundLater ==
  ASSUME NEW steps, NEW n \in Nat, NEW k \in Nat, n <= k
  PROVE  /\ \A r : SoundRun(steps, n, r) => SoundRun(steps, k, r)
         /\ \A s : SoundKept(steps, n, s) => SoundKept(steps, k, s)
<1>1. \A x : x \in 1 .. n => x \in 1 .. k
  OBVIOUS
<1>2. \A m : OncePut(m, n) => OncePut(m, k)
  BY <1>1 DEF OncePut
<1>3. \A s, m : StillHeld(s, m, n) => StillHeld(s, m, k)
  BY <1>1 DEF StillHeld
<1> QED
  BY <1>2, <1>3 DEF SoundRun, SoundKept

LEMMA WholeInitially == RunInit /\ VaultInit => WholeInv
<1> SUFFICES ASSUME RunInit, VaultInit PROVE WholeInv
  OBVIOUS
<1>1. Steps \in Seq(Step) /\ runs = 0 /\ kept = {} /\ \A c \in Task : run[c] = Rested
  BY PipelineAssumption DEF RunInit, Steps
<1>2. SoundRun(Steps, 0, Rested)
  BY <1>1, RestIsSound
<1> QED
  BY <1>1, <1>2, PipelineInitially DEF WholeInv

(* A task's run moves on, and may hand out a state.                        *)
LEMMA OneRunWhole ==
  ASSUME WholeInv, PipelineInv', NEW c \in Task, NEW r, NEW s,
         run' = [run EXCEPT ![c] = r], pipeline' = pipeline, runs' \in {runs, runs + 1},
         SoundRun(Steps, runs', r),
         kept' = kept \/ (kept' = kept \cup {s} /\ SoundKept(Steps, runs', s))
  PROVE  WholeInv'
<1>1. Steps' = Steps /\ runs \in Nat /\ runs' \in Nat /\ runs <= runs'
  BY DEF Steps, WholeInv, PipelineInv
<1>2. \A d \in Task : SoundRun(Steps, runs', run'[d])
  <2>1. \A d \in Task : run'[d] = r \/ run'[d] = run[d]
    BY DEF WholeInv, PipelineInv
  <2> QED
    BY <1>1, <2>1, SoundLater DEF WholeInv
<1>3. \A u \in kept' : SoundKept(Steps, runs', u)
  BY <1>1, SoundLater DEF WholeInv
<1> QED
  BY <1>1, <1>2, <1>3 DEF WholeInv

LEMMA CalledWhole ==
  ASSUME WholeInv, PipelineInv', NEW c \in Task, NEW phase \in {"step", "hooks"},
         NEW at \in 1 .. Len(Steps) + 1, NEW message \in Seq(Mark),
         Called(c, phase, at, message), OncePut(message, runs),
         phase = "step" => Labels(message) = Before(Steps, at),
         phase = "hooks" => at \in DOMAIN Steps /\ Labels(message) = Before(Steps, at + 1)
  PROVE  WholeInv'
<1>1. PICK s \in {Nil, -runs'} :
        run' = [run EXCEPT ![c] = [phase |-> phase, at |-> at, message |-> message,
                                   signature |-> s]]
  BY DEF Called
<1>2. runs \in Nat /\ runs' = runs + 1 /\ pipeline' = pipeline /\ kept' = kept
  BY DEF Called, WholeInv, PipelineInv
<1>3. OncePut(message, runs')
  BY <1>2 DEF OncePut
<1>4. StillHeld(s, message, runs')
  <2> SUFFICES ASSUME s # Nil PROVE StillHeld(s, message, runs')
    BY DEF StillHeld
  <2>1. s = -(runs + 1) /\ -s = runs' /\ -s \in 1 .. runs'
    BY <1>2
  <2>2. ASSUME NEW i \in Attached(message) PROVE message[i].signature # s
    <3>1. -message[i].signature \in 1 .. runs
      BY DEF OncePut
    <3>2. -s \notin 1 .. runs
      BY <1>2, <2>1
    <3> QED
      BY <3>1, <3>2
  <2> QED
    BY <2>1, <2>2 DEF StillHeld
<1> DEFINE r == [phase |-> phase, at |-> at, message |-> message, signature |-> s]
<1>5. SoundRun(Steps, runs', r)
  BY <1>3, <1>4 DEF SoundRun
<1> HIDE DEF r
<1> QED
  BY <1>1, <1>2, <1>5, OneRunWhole DEF r

LEMMA PipelineSteps ==
  ASSUME PipelineInv
  PROVE  Steps \in Seq(Step) /\ UniqueLabels(Steps)
BY PipelineAssumption DEF PipelineInv, Steps

LEMMA CallsWhole ==
  ASSUME WholeInv, PipelineInv', NEW c \in Task, Process(c) \/ Resume(c)
  PROVE  WholeInv'
<1>1. Steps \in Seq(Step) /\ UniqueLabels(Steps)
  BY PipelineSteps DEF WholeInv
<1>2. CASE Process(c)
  <2>1. /\ <<>> \in Seq(Mark) /\ Labels(<<>>) = <<>> /\ Attached(<<>>) = {}
        /\ Before(Steps, 1) = <<>> /\ 1 \in 1 .. Len(Steps) + 1
    BY <1>1, Traces DEF Labels, Attached
  <2> QED
    BY <1>2, <2>1, CalledWhole DEF Process, OncePut
<1>3. CASE Resume(c)
  <2>1. PICK s \in kept : /\ s.status = "pause"
                         /\ Called(c, "hooks", GetIndexByLabel(s.label), s.message)
    BY <1>3 DEF Resume
  <2>2. PICK i \in DOMAIN Steps : /\ Steps[i].label = s.label /\ Steps[i].kind = "Pause"
                                 /\ Labels(s.message) = Before(Steps, i)
    BY <2>1 DEF WholeInv, SoundKept
  <2>3. GetIndexByLabel(s.label) = i
    BY <1>1, <2>2 DEF GetIndexByLabel, UniqueLabels
  <2>4. i \in 1 .. Len(Steps) /\ i \in 1 .. Len(Steps) + 1
    BY <1>1
  <2>5. Before(Steps, i + 1) = Before(Steps, i)
    BY <1>1, <2>2, <2>4, Traces
  <2>6. s.message \in Seq(Mark) /\ OncePut(s.message, runs)
    BY DEF WholeInv, PipelineInv, KeptState, SoundKept
  <2> QED
    BY <2>1, <2>2, <2>3, <2>4, <2>5, <2>6, CalledWhole
<1> QED
  BY <1>2, <1>3

(* One more mark: the trace grows with its label.                          *)
LEMMA MarkedTrace ==
  ASSUME WholeInv, NEW c \in Task, run[c].phase = "step", run[c].at \in DOMAIN Steps,
         Steps[run[c].at].kind # "Pause", NEW s, NEW v
  PROVE  Labels(With(c, s, v)) = Before(Steps, run[c].at + 1)
<1> DEFINE m == run[c].message
           e == [label |-> Steps[run[c].at].label, signer |-> s, signature |-> v]
           M == {m[i] : i \in DOMAIN m} \cup {e}
<1>1. m \in Seq(Mark) /\ Steps \in Seq(Step) /\ run[c].at \in 1 .. Len(Steps)
  BY PipelineSteps DEF WholeInv, PipelineInv, RunState
<1>2. Labels(m) = Before(Steps, run[c].at)
  BY DEF WholeInv, SoundRun
<1>3. Before(Steps, run[c].at + 1) = Append(Labels(m), Steps[run[c].at].label)
  BY <1>1, <1>2, Traces
<1>4. With(c, s, v) = Append(m, e) /\ e.label = Steps[run[c].at].label
  BY DEF With
<1>5. m \in Seq(M) /\ e \in M /\ Len(m) \in Nat
  BY <1>1
<1> HIDE DEF m, e, M
<1>6. Labels(Append(m, e)) = Append(Labels(m), e.label)
  <2>1. DOMAIN Append(m, e) = 1 .. Len(m) + 1
    BY <1>5
  <2>2. \A i \in 1 .. Len(m) + 1 : Append(m, e)[i] = IF i = Len(m) + 1 THEN e ELSE m[i]
    BY <1>5
  <2>3. Labels(m) = [i \in 1 .. Len(m) |-> m[i].label]
    BY <1>5 DEF Labels
  <2>4. Labels(m) \in Seq({m[i].label : i \in 1 .. Len(m)}) /\ Len(Labels(m)) = Len(m)
    BY <1>5, <2>3
  <2>5. Append(Labels(m), e.label)
          = [i \in 1 .. Len(m) + 1 |-> IF i = Len(m) + 1 THEN e.label ELSE Labels(m)[i]]
    BY <1>5, <2>4
  <2> QED
    BY <1>5, <2>1, <2>2, <2>3, <2>5 DEF Labels
<1> QED
  BY <1>3, <1>4, <1>6

(* The marks of a message are those before, and the last one.              *)
LEMMA MarkedSignatures ==
  ASSUME WholeInv, NEW c \in Task, NEW s, NEW v
  PROVE  LET m == run[c].message
             w == With(c, s, v)
         IN  /\ DOMAIN w = 1 .. Len(m) + 1 /\ DOMAIN m = 1 .. Len(m) /\ Len(m) \in Nat
             /\ \A i \in DOMAIN m : w[i] = m[i]
             /\ w[Len(m) + 1].signer = s /\ w[Len(m) + 1].signature = v
<1> DEFINE m == run[c].message
           e == [label |-> Steps[run[c].at].label, signer |-> s, signature |-> v]
           M == {m[i] : i \in DOMAIN m} \cup {e}
<1>1. m \in Seq(Mark)
  BY DEF WholeInv, PipelineInv, RunState
<1>2. m \in Seq(M) /\ e \in M /\ Len(m) \in Nat /\ e.signer = s /\ e.signature = v
  BY <1>1
<1>3. With(c, s, v) = Append(m, e)
  BY DEF With
<1> HIDE DEF m, e, M
<1>4. /\ DOMAIN Append(m, e) = 1 .. Len(m) + 1 /\ DOMAIN m = 1 .. Len(m)
      /\ \A i \in 1 .. Len(m) : Append(m, e)[i] = m[i]
      /\ Append(m, e)[Len(m) + 1] = e
  BY <1>2
<1> QED
  BY <1>2, <1>3, <1>4 DEF m

(* A mark that carries no signature of a caller.                           *)
LEMMA MarkedByOthers ==
  ASSUME WholeInv, NEW c \in Task, NEW s, NEW v, s # Nil \/ v = Nil
  PROVE  /\ OncePut(With(c, s, v), runs)
         /\ StillHeld(run[c].signature, With(c, s, v), runs)
<1> DEFINE m == run[c].message
           w == With(c, s, v)
<1>1. /\ DOMAIN w = 1 .. Len(m) + 1 /\ DOMAIN m = 1 .. Len(m) /\ Len(m) \in Nat
      /\ \A i \in DOMAIN m : w[i] = m[i]
      /\ w[Len(m) + 1].signer = s /\ w[Len(m) + 1].signature = v
  BY MarkedSignatures
<1>2. OncePut(m, runs) /\ StillHeld(run[c].signature, m, runs)
  BY DEF WholeInv, SoundRun
<1> HIDE DEF m, w
<1>3. \A i \in Attached(w) : i \in Attached(m) /\ w[i] = m[i]
  <2> SUFFICES ASSUME NEW i \in Attached(w) PROVE i \in Attached(m) /\ w[i] = m[i]
    OBVIOUS
  <2>1. i \in 1 .. Len(m) + 1 /\ w[i].signer = Nil /\ w[i].signature # Nil
    BY <1>1 DEF Attached
  <2>2. i # Len(m) + 1
    BY <1>1, <2>1
  <2>3. i \in DOMAIN m
    BY <1>1, <2>1, <2>2
  <2> QED
    BY <1>1, <2>1, <2>3 DEF Attached
<1> QED
  BY <1>2, <1>3 DEF OncePut, StillHeld, w

(* The signature of the call, which it then no longer holds.               *)
LEMMA MarkedByCaller ==
  ASSUME WholeInv, NEW c \in Task, run[c].signature # Nil
  PROVE  OncePut(With(c, Nil, run[c].signature), runs)
<1> DEFINE m == run[c].message
           v == run[c].signature
           w == With(c, Nil, v)
<1>1. /\ DOMAIN w = 1 .. Len(m) + 1 /\ DOMAIN m = 1 .. Len(m) /\ Len(m) \in Nat
      /\ \A i \in DOMAIN m : w[i] = m[i]
      /\ w[Len(m) + 1].signer = Nil /\ w[Len(m) + 1].signature = v
  BY MarkedSignatures
<1>2. OncePut(m, runs) /\ -v \in 1 .. runs /\ \A i \in Attached(m) : m[i].signature # v
  BY DEF WholeInv, SoundRun, StillHeld
<1> HIDE DEF m, v, w
<1>3. \A i \in Attached(w) : \/ i = Len(m) + 1 /\ w[i].signature = v
                             \/ i \in Attached(m) /\ w[i] = m[i]
  <2> SUFFICES ASSUME NEW i \in Attached(w), i # Len(m) + 1
               PROVE  i \in Attached(m) /\ w[i] = m[i]
    BY <1>1
  <2>1. i \in 1 .. Len(m) + 1 /\ w[i].signer = Nil /\ w[i].signature # Nil
    BY <1>1 DEF Attached
  <2>2. i \in DOMAIN m
    BY <1>1, <2>1
  <2> QED
    BY <1>1, <2>1, <2>2 DEF Attached
<1>4. \A i, j \in Attached(w) : w[i].signature = w[j].signature => i = j
  BY <1>2, <1>3 DEF OncePut
<1>5. \A i \in Attached(w) : -w[i].signature \in 1 .. runs
  BY <1>2, <1>3 DEF OncePut
<1> QED
  BY <1>4, <1>5 DEF OncePut, v, w

LEMMA GoesWhole ==
  ASSUME WholeInv, PipelineInv', NEW c \in Task, run[c].phase = "step",
         run[c].at \in DOMAIN Steps, Steps[run[c].at].kind # "Pause",
         NEW s, NEW v, NEW rest,
         Goes(c, "hooks", With(c, s, v), rest),
         OncePut(With(c, s, v), runs), StillHeld(rest, With(c, s, v), runs)
  PROVE  WholeInv'
<1> DEFINE r == [run[c] EXCEPT !.phase = "hooks", !.message = With(c, s, v), !.signature = rest]
<1>1. run[c] \in RunState
  BY DEF WholeInv, PipelineInv
<1>2. /\ r.phase = "hooks" /\ r.at = run[c].at
      /\ r.message = With(c, s, v) /\ r.signature = rest
  BY <1>1 DEF RunState
<1>3. /\ run' = [run EXCEPT ![c] = r]
      /\ pipeline' = pipeline /\ runs' = runs /\ kept' = kept
  BY DEF Goes
<1> HIDE DEF r
<1>4. Labels(r.message) = Before(Steps, r.at + 1)
  BY <1>2, MarkedTrace
<1>5. r.at \in 1 .. Len(Steps) + 1
  BY <1>2 DEF WholeInv, SoundRun
<1>6. SoundRun(Steps, runs, r)
  BY <1>2, <1>4, <1>5 DEF SoundRun
<1> QED
  BY <1>3, <1>6, OneRunWhole

LEMMA MarkingWhole ==
  ASSUME WholeInv, PipelineInv', NEW c \in Task,
         CallbackStep(c) \/ SignWithSigner(c) \/ AttachSignature(c)
  PROVE  WholeInv'
<1>1. /\ run[c].phase = "step" /\ run[c].at \in DOMAIN Steps
      /\ Steps[run[c].at].kind # "Pause"
  BY DEF CallbackStep, SignWithSigner, AttachSignature, At
<1>2. CASE CallbackStep(c)
  BY <1>1, <1>2, MarkedByOthers, GoesWhole DEF CallbackStep
<1>3. CASE SignWithSigner(c)
  <2>1. PICK v \in Signatures(RunSigner[c]) \ {Unsigned} :
          Goes(c, "hooks", With(c, RunSigner[c], v), run[c].signature)
    BY <1>3 DEF SignWithSigner
  <2>2. RunSigner[c] # Nil
    BY <1>3 DEF SignWithSigner
  <2> QED
    BY <1>1, <2>1, <2>2, MarkedByOthers, GoesWhole
<1>4. CASE AttachSignature(c)
  <2>1. /\ run[c].signature # Nil
        /\ Goes(c, "hooks", With(c, Nil, run[c].signature), Nil)
    BY <1>4 DEF AttachSignature
  <2>2. StillHeld(Nil, With(c, Nil, run[c].signature), runs)
    BY DEF StillHeld
  <2> QED
    BY <1>1, <2>1, <2>2, MarkedByCaller, GoesWhole
<1> QED
  BY <1>2, <1>3, <1>4

LEMMA QuietWhole ==
  ASSUME WholeInv, PipelineInv', NEW c \in Task,
         StepFails(c) \/ HooksPass(c) \/ HooksFail(c) \/ CatchFails(c)
  PROVE  WholeInv'
<1>1. run[c] \in RunState /\ SoundRun(Steps, runs, run[c]) /\ SoundRun(Steps, runs, Rested)
  BY RestIsSound, PipelineSteps DEF WholeInv, PipelineInv
<1>2. pipeline' = pipeline /\ runs' = runs /\ kept' = kept
  BY DEF StepFails, HooksPass, HooksFail, CatchFails
<1>3. CASE run' = [run EXCEPT ![c] = Rested]
  BY <1>1, <1>2, <1>3, OneRunWhole
<1>4. CASE /\ run[c].phase \in {"step", "hooks"}
           /\ run' = [run EXCEPT ![c].phase = "catch"]
  <2> DEFINE r == [run[c] EXCEPT !.phase = "catch"]
  <2>1. /\ r.phase = "catch" /\ r.at = run[c].at
        /\ r.message = run[c].message /\ r.signature = run[c].signature
    BY <1>1 DEF RunState
  <2>2. run' = [run EXCEPT ![c] = r]
    BY <1>4
  <2> HIDE DEF r
  <2>3. \E i \in 1 .. Len(Steps) + 1 : Labels(r.message) = Before(Steps, i)
    <3>1. CASE run[c].phase = "step"
      BY <1>1, <2>1, <3>1 DEF SoundRun
    <3>2. CASE run[c].phase = "hooks"
      <4>1. run[c].at \in DOMAIN Steps /\ Labels(r.message) = Before(Steps, run[c].at + 1)
        BY <1>1, <2>1, <3>2 DEF SoundRun
      <4>2. run[c].at + 1 \in 1 .. Len(Steps) + 1
        BY <4>1, PipelineSteps DEF WholeInv
      <4> QED
        BY <4>1, <4>2
    <3> QED
      BY <1>4, <3>1, <3>2
  <2>4. SoundRun(Steps, runs, r)
    BY <1>1, <2>1, <2>3 DEF SoundRun
  <2> QED
    BY <1>2, <2>2, <2>4, OneRunWhole
<1>5. CASE HooksPass(c)
  <2> DEFINE r == [run[c] EXCEPT !.phase = "step", !.at = run[c].at + 1]
  <2>1. /\ r.phase = "step" /\ r.at = run[c].at + 1
        /\ r.message = run[c].message /\ r.signature = run[c].signature
    BY <1>1 DEF RunState
  <2>2. run' = [run EXCEPT ![c] = r]
    BY <1>5 DEF HooksPass
  <2> HIDE DEF r
  <2>3. run[c].at \in DOMAIN Steps /\ Labels(r.message) = Before(Steps, run[c].at + 1)
    BY <1>1, <1>5, <2>1 DEF HooksPass, SoundRun
  <2>4. r.at \in 1 .. Len(Steps) + 1
    BY <2>1, <2>3, PipelineSteps DEF WholeInv
  <2>5. SoundRun(Steps, runs, r)
    BY <1>1, <2>1, <2>3, <2>4 DEF SoundRun
  <2> QED
    BY <1>2, <2>2, <2>5, OneRunWhole
<1> QED
  BY <1>3, <1>4, <1>5 DEF StepFails, HooksFail, CatchFails

LEMMA HandsOutWhole ==
  ASSUME WholeInv, PipelineInv', NEW c \in Task, NEW status, NEW label,
         HandsOut(c, status, label),
         LET m == Labels(run[c].message) IN
         /\ status = "success" => m = Before(Steps, Len(Steps) + 1)
         /\ status = "pause" => \E i \in DOMAIN Steps : /\ Steps[i].label = label
                                                      /\ Steps[i].kind = "Pause"
                                                      /\ m = Before(Steps, i)
         /\ status = "error" => \E i \in 1 .. Len(Steps) + 1 : m = Before(Steps, i)
  PROVE  WholeInv'
<1> DEFINE s == [status |-> status, label |-> label, message |-> run[c].message]
<1>1. /\ kept' = kept \cup {s} /\ run' = [run EXCEPT ![c] = Rested]
      /\ pipeline' = pipeline /\ runs' = runs
  BY DEF HandsOut
<1>2. OncePut(run[c].message, runs) /\ SoundRun(Steps, runs, Rested)
  BY RestIsSound, PipelineSteps DEF WholeInv, PipelineInv, SoundRun
<1>3. SoundKept(Steps, runs, s)
  BY <1>2 DEF SoundKept
<1> HIDE DEF s
<1> QED
  BY <1>1, <1>2, <1>3, OneRunWhole

LEMMA WholeStep ==
  /\ WholeInv
  /\ [RunNext \/ (VaultNext /\ UNCHANGED runVars)]_<<runVars, vaultVars>>
  => WholeInv'
<1> SUFFICES ASSUME WholeInv,
                    [RunNext \/ (VaultNext /\ UNCHANGED runVars)]_<<runVars, vaultVars>>
             PROVE  WholeInv'
  OBVIOUS
<1>1. PipelineInv'
  BY PipelineStep DEF WholeInv
<1>2. CASE UNCHANGED runVars
  BY <1>1, <1>2 DEF WholeInv, runVars, Steps
<1>3. ASSUME NEW c \in Task, Pauses(c) \/ Succeeds(c) \/ CatchPasses(c) PROVE WholeInv'
  <2>1. SoundRun(Steps, runs, run[c]) /\ Steps \in Seq(Step)
    BY PipelineSteps DEF WholeInv
  <2>2. CASE Pauses(c)
    BY <1>1, <2>1, <2>2, HandsOutWhole DEF Pauses, At, SoundRun
  <2>3. CASE Succeeds(c)
    <3>1. run[c].at = Len(Steps) + 1
      <4>1. run[c].at \in 1 .. Len(Steps) + 1 /\ run[c].at \notin DOMAIN Steps
        BY <2>1, <2>3 DEF Succeeds, SoundRun
      <4>2. DOMAIN Steps = 1 .. Len(Steps) /\ Len(Steps) \in Nat
        BY <2>1
      <4> QED
        BY <4>1, <4>2
    <3> QED
      BY <1>1, <2>1, <2>3, <3>1, HandsOutWhole DEF Succeeds, SoundRun
  <2>4. CASE CatchPasses(c)
    BY <1>1, <2>1, <2>4, HandsOutWhole DEF CatchPasses, SoundRun
  <2> QED
    BY <1>3, <2>2, <2>3, <2>4
<1>4. CASE RunNext
  BY <1>1, <1>3, <1>4, CallsWhole, MarkingWhole, QuietWhole DEF RunNext, RunStep
<1> QED
  BY <1>2, <1>4 DEF runVars

THEOREM WholeInvariance == RunSpec => []WholeInv
<1> QED
  BY WholeInitially, WholeStep, PTL DEF RunSpec

(* A state that says success went through every step once and in order, a  *)
(* paused one through those before its pause, one that says error through  *)
(* the first few, and no signature that a caller gave is on a message      *)
(* twice: for any pipelines, any number of calls, and however often states *)
(* are resumed.                                                            *)
THEOREM RunsGoThroughTheirSteps == RunSpec => []RunsAreWhole
<1>1. WholeInv => RunsAreWhole
  <2> SUFFICES ASSUME WholeInv, NEW s \in kept
               PROVE  /\ CASE s.status = "success" ->
                                Labels(s.message) = Before(Steps, Len(Steps) + 1)
                           [] s.status = "pause" ->
                                Labels(s.message) = Before(Steps, GetIndexByLabel(s.label))
                           [] s.status = "error" ->
                                IsPrefix(Labels(s.message), Before(Steps, Len(Steps) + 1))
                      /\ \A i, j \in DOMAIN s.message :
                           /\ s.message[i].signature \notin {Nil} /\ s.message[i].signer = Nil
                           /\ s.message[j].signer = Nil
                           /\ s.message[i].signature = s.message[j].signature
                           => i = j
    BY DEF RunsAreWhole
  <2>1. /\ s.status \in {"pause", "success", "error"} /\ SoundKept(Steps, runs, s)
        /\ Steps \in Seq(Step) /\ UniqueLabels(Steps)
    BY PipelineSteps DEF WholeInv, PipelineInv, KeptState
  <2>2. s.status = "pause" => Labels(s.message) = Before(Steps, GetIndexByLabel(s.label))
    BY <2>1 DEF SoundKept, GetIndexByLabel, UniqueLabels
  <2>3. s.status = "error" => IsPrefix(Labels(s.message), Before(Steps, Len(Steps) + 1))
    BY <2>1, TracesGrow DEF SoundKept
  <2>4. \A i, j \in DOMAIN s.message :
          /\ s.message[i].signature \notin {Nil} /\ s.message[i].signer = Nil
          /\ s.message[j].signer = Nil
          /\ s.message[i].signature = s.message[j].signature
          => i = j
    BY <2>1 DEF SoundKept, OncePut, Attached
  <2> QED
    BY <2>1, <2>2, <2>3, <2>4 DEF SoundKept
<1> QED
  BY <1>1, WholeInvariance, PTL

(***************************************************************************)
(* All of them together: a step of one leaves the others' state alone.     *)
(***************************************************************************)
LEMMA CallersAreService == CallersSpec => Spec
<1>1. CallersNext => Next \/ UNCHANGED vars
  BY DEF CallersNext, vars, RunNext, Process, Resume, Called, RunStep, CallbackStep,
         SignWithSigner, AttachSignature, Goes, StepFails, HooksPass, HooksFail, Pauses,
         Succeeds, CatchPasses, CatchFails, HandsOut
<1>2. UNCHANGED callerVars => UNCHANGED vars
  BY DEF callerVars
<1>3. [CallersNext]_callerVars => [Next]_vars
  BY <1>1, <1>2
<1> QED
  BY <1>3, PTL DEF CallersSpec, CallersInit, Spec

LEMMA CallersAreRuns == CallersSpec => RunSpec
<1> DEFINE RunsNext == RunNext \/ (VaultNext /\ UNCHANGED runVars)
<1>1. ASSUME Next, UNCHANGED runVars PROVE RunsNext \/ UNCHANGED <<runVars, vaultVars>>
  <2>1. CASE ReadNext /\ UNCHANGED <<configuration, topicVars, vaultVars>>
    BY <1>1, <2>1
  <2>2. CASE TopicNext
    <3>1. UNCHANGED vaultVars
      BY <2>2 DEF TopicNext, TopicCall, Begin, CallStep, Accepted, Unavailable,
                  Refused, ReceiptSucceeds, ReceiptFails, PollSees, PollAgain, Lands, OthersChange
    <3> QED
      BY <1>1, <3>1
  <2>3. CASE VaultNext
    BY <1>1, <2>3
  <2> QED
    BY <1>1, <2>1, <2>2, <2>3 DEF Next
<1>2. UNCHANGED callerVars => UNCHANGED <<runVars, vaultVars>>
  BY DEF callerVars, vars
<1>3. [CallersNext]_callerVars => [RunsNext]_<<runVars, vaultVars>>
  BY <1>1, <1>2 DEF CallersNext
<1>4. CallersInit => RunInit /\ VaultInit
  BY DEF CallersInit, Init
<1> QED
  BY <1>3, <1>4, PTL DEF CallersSpec, RunSpec

(* The state of readers, administrators and runs is of its type, whatever  *)
(* they do together.                                                       *)
THEOREM CallersTypes == CallersSpec => []TypeOK
<1>1. WholeInv => RunTypeOK
  <2> SUFFICES ASSUME WholeInv PROVE RunTypeOK
    OBVIOUS
  <2>1. ASSUME NEW c \in Task
        PROVE  run[c].signature \in {Nil} \cup {-n : n \in 1 .. runs}
    <3>1. run[c].signature \in Int \cup {Nil} /\ runs \in Nat
      BY DEF WholeInv, PipelineInv, RunState
    <3>2. run[c].signature # Nil => -run[c].signature \in 1 .. runs
      BY DEF WholeInv, SoundRun, StillHeld
    <3>3. run[c].signature # Nil => run[c].signature = -(-run[c].signature)
      BY <3>1
    <3> QED
      BY <3>2, <3>3
  <2> QED
    BY <2>1 DEF RunTypeOK, WholeInv, PipelineInv, SoundRun, RunState, KeptState
<1>2. CallersSpec => []RunTypeOK
  BY <1>1, CallersAreRuns, WholeInvariance, PTL
<1> QED
  BY <1>2, CallersAreService, ReadTypes, TopicTypes, PTL DEF TypeOK

(* Nor does anything else that holds of one of them depend on the others.  *)
THEOREM CallersAreSafe ==
  CallersSpec => /\ [](EpochReadsArePrefixes /\ NetworksApart)
                 /\ WritesKeepSnapshot
                 /\ []OkMeansDone
                 /\ [](RunsAreWhole /\ SignedAsAnnounced)
BY CallersAreService, CallersAreRuns, PrefixesAreRead, NetworksStayApart, SnapshotsAreKept,
   SuccessIsTrue, RunsGoThroughTheirSteps, SignaturesVerify, PTL
================================================================================
