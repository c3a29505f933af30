----------------------------- MODULE TopicMessages -----------------------------
(***************************************************************************)
(* Reading topics with HcsMessage::get_topic_messages_with_cache           *)
(* (hcs/src/hcs/message.rs): a subscription that ends when no message came *)
(* for a while, merged with what an earlier read left in the cache; and    *)
(* the cache (hcs/src/cache/mod.rs), whose entries vanish at any time and  *)
(* which all readers share.  A message is known by its topic and its       *)
(* sequence number, which is also its consensus time.                      *)
(***************************************************************************)
EXTENDS Options, Integers, FiniteSets

CONSTANTS
  Topic,     \* the topics of all networks
  Entry,     \* keys of the cache's "messages" entries
  Reader,    \* tasks that read topics
  Requests,  \* per reader: what it may ask for
  MaxTail    \* bound: messages, per topic

(* from: "epoch", or "now" when no from_time is given and the mirror node  *)
(* streams what comes after the subscription (grpc_reader.rs 69-73).       *)
(* cached: whether the read goes through a service with a cache.           *)
AnyRequest == [from : {"epoch", "now"}, to : Nat \cup {Nil},
               limit : Nat \cup {Nil}, cached : BOOLEAN]

ASSUME ReadAssumption ==
  /\ \A r \in Reader : Requests[r] \subseteq AnyRequest
  /\ Nil \notin Nat
  /\ MaxTail \in [Topic -> Nat]

VARIABLES
  tail,      \* per topic: the sequence number of its last message
  held,      \* per key: the entry of the cache, or Nil
  reader     \* per reader: its request and how far its stream has come

readVars == <<tail, held, reader>>

Message == [topic : Topic, n : Nat]
MessagesOf(t, ns) == {[topic |-> t, n |-> i] : i \in ns}

Idle == [state |-> "idle", topic |-> Nil, key |-> Nil, req |-> Nil, snapshot |-> Nil,
         first |-> 1, next |-> 1, result |-> {}, whole |-> FALSE]

ReadInit ==
  /\ tail = [t \in Topic |-> 0]
  /\ held = [k \in Entry |-> Nil]
  /\ reader = [r \in Reader |-> Idle]

(* fresh_results: what the stream has delivered, without a gap.            *)
Fresh(r) == MessagesOf(reader[r].topic, reader[r].first .. reader[r].next - 1)

(* The loop ends by itself at the end time or at the limit.                *)
Enough(r) ==
  LET q == reader[r].req IN
  /\ Fresh(r) # {}
  /\ \/ q.to # Nil /\ reader[r].next > q.to
     \/ q.limit # Nil /\ Cardinality(Fresh(r)) >= q.limit

(* Fault: from_time does not reach the query.                              *)
StartOfNow(t, q) == tail[t] + 1

(* Fault: sequence numbers are counted from zero.                          *)
StartAtZero(t, q) == IF q.from = "epoch" THEN 0 ELSE tail[t] + 1

(* The first message the subscription asks for.                            *)
StartTime(t, q) == IF q.from = "epoch" THEN 1 ELSE tail[t] + 1

(* The cache is looked up, then the topic is subscribed to.                *)
BeginRead(r, t, k, q) ==
  /\ reader[r].state # "streaming"
  /\ reader' = [reader EXCEPT
       ![r] = [Idle EXCEPT !.state = "streaming", !.topic = t, !.key = k, !.req = q,
                           !.snapshot = IF q.cached THEN held[k] ELSE Nil,
                           !.first = StartTime(t, q), !.next = StartTime(t, q)]]
  /\ UNCHANGED <<tail, held>>

Deliver(r) ==
  /\ reader[r].state = "streaming"
  /\ ~Enough(r)
  /\ reader[r].next <= tail[reader[r].topic]
  /\ reader' = [reader EXCEPT ![r].next = @ + 1]
  /\ UNCHANGED <<tail, held>>

StreamFails(r) ==
  /\ reader[r].state = "streaming"
  /\ reader' = [reader EXCEPT ![r] = [Idle EXCEPT !.state = "failed"]]
  /\ UNCHANGED <<tail, held>>

(* merge_dedup_topic_messages: by sequence number, fresh before cached.    *)
Merged(r) ==
  IF reader[r].snapshot = Nil THEN Fresh(r)
  ELSE Fresh(r) \cup {m \in reader[r].snapshot : \A f \in Fresh(r) : f.n # m.n}

(* apply_topic_message_filters: the window, then the first ones.  Nothing  *)
(* is older than the epoch.                                                *)
InWindow(S, q) == IF q.to = Nil THEN S ELSE {m \in S : m.n <= q.to}
Limited(S, q) ==
  IF q.limit = Nil THEN S
  ELSE {m \in S : Cardinality({o \in S : o.n < m.n}) < q.limit}
Filtered(S, q) == Limited(InWindow(S, q), q)

(* Fault: the limit is forgotten.                                          *)
UnlimitedRequest(q) == q.cached /\ q.from = "now" /\ q.to = Nil

(* Only what was read without bounds goes into the cache.                  *)
Cacheable(q) == UnlimitedRequest(q) /\ q.limit = Nil

(* The stream ends, idles, says NOT_FOUND, or has delivered enough.  whole:*)
(* the result came from the epoch on, and nothing of it from the cache.    *)
FinishRead(r) ==
  LET result == Filtered(Merged(r), reader[r].req) IN
  /\ reader[r].state = "streaming"
  /\ reader' = [reader EXCEPT
       ![r] = [Idle EXCEPT !.state = "done", !.topic = reader[r].topic, !.result = result,
                           !.whole = reader[r].req.from = "epoch" /\ reader[r].snapshot = Nil]]
  /\ IF Cacheable(reader[r].req)
     THEN held' = [held EXCEPT ![reader[r].key] = result]
     ELSE UNCHANGED held
  /\ UNCHANGED tail

(* Time to live, or capacity.                                              *)
Expire(k) ==
  /\ held[k] # Nil
  /\ held' = [held EXCEPT ![k] = Nil]
  /\ UNCHANGED <<tail, reader>>

Publish(t) ==
  /\ tail[t] < MaxTail[t]
  /\ tail' = [tail EXCEPT ![t] = @ + 1]
  /\ UNCHANGED <<held, reader>>

(* What goes on without a caller.                                          *)
ReadStep ==
  \/ \E r \in Reader : Deliver(r) \/ StreamFails(r) \/ FinishRead(r)
  \/ \E k \in Entry : Expire(k)
  \/ \E t \in Topic : Publish(t)

-----------------------------------------------------------------------------
(* What readers hold, in their hands and in the cache, are messages.       *)
Posted == UNION {MessagesOf(t, 1 .. tail[t]) : t \in Topic}

ReadTypeOK ==
  /\ \A t \in Topic : tail[t] \in 0 .. MaxTail[t]
  /\ \A k \in Entry : held[k] = Nil \/ held[k] \subseteq Posted
  /\ \A r \in Reader :
       /\ reader[r].state \in {"idle", "streaming", "done", "failed"}
       /\ reader[r].state = "streaming" =>
            /\ reader[r].topic \in Topic
            /\ reader[r].key \in Entry
            /\ reader[r].req \in Requests[r]
            /\ reader[r].first \in 1 .. reader[r].next
            /\ reader[r].next \in 1 .. tail[reader[r].topic] + 1
            /\ reader[r].snapshot # Nil => reader[r].snapshot \subseteq Posted
       /\ reader[r].result \subseteq Posted

(* A read from the epoch that found nothing in the cache returns a prefix  *)
(* of the topic, also when its stream idled early, its window closed or    *)
(* its limit was reached (message.rs 122-172): what is built from it is    *)
(* something the topic once was.                                           *)
EpochReadsArePrefixes ==
  \A r \in Reader :
    reader[r].whole =>
      reader[r].result = MessagesOf(reader[r].topic, 1 .. Cardinality(reader[r].result))

(* What a read puts into the cache holds all that the read itself found    *)
(* there, so no bounded or shortened read stands in for the topic          *)
(* (message.rs 171-180).  Two reads at a time still overwrite each other.  *)
WritesKeepSnapshot ==
  [][\A k \in Entry :
       held'[k] \notin {Nil, held[k]} =>
         \E r \in Reader :
           /\ reader[r].state = "streaming"
           /\ reader[r].key = k
           /\ Merged(r) \subseteq held'[k]]_readVars
================================================================================
