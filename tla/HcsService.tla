------------------------------- MODULE HcsService -------------------------------
(***************************************************************************)
(* HederaHcsService (hcs/src/service.rs): every call names a network, gets *)
(* a client for it, and goes on to the operation; reads share one cache for*)
(* all networks.  Calls that submit messages or files go through the same  *)
(* choice; what they do then is in the modules of their callers.           *)
(***************************************************************************)
EXTENDS TopicMessages, ClientService, TopicAdmin

CONSTANT TopicId   \* two networks may use the same id

(* cache_network_key, and the rest of HcsCacheService::build_key.          *)
KeyOf(name, id) == <<IF name = Nil THEN "default" ELSE name, id>>

ASSUME ServiceAssumption ==
  /\ \A c \in Configurations : (1 .. Len(c)) \X TopicId \subseteq Topic
  /\ Entry = {KeyOf(name, id) : name \in Name \cup {Nil}, id \in TopicId}
  /\ Managed \subseteq Topic

vars == <<configuration, readVars, topicVars, vaultVars>>

Init == ServiceInit /\ ReadInit /\ TopicInit /\ VaultInit

(* get_topic_messages.                                                     *)
GetTopicMessages(r, name, id, q) ==
  LET place == GetClient(name) IN
  /\ place # Nil
  /\ BeginRead(r, <<place, id>>, KeyOf(name, id), q)

(* with_client fails: the name is not known, there is none and there should*)
(* be, or the network is not usable.                                       *)
NoClient(r, name) ==
  /\ reader[r].state # "streaming"
  /\ GetClient(name) = Nil
  /\ reader' = [reader EXCEPT ![r] = [Idle EXCEPT !.state = "failed"]]
  /\ UNCHANGED <<tail, held>>

ReadCall(r, name) ==
  \/ \E id \in TopicId, q \in Requests[r] : GetTopicMessages(r, name, id, q)
  \/ NoClient(r, name)

(* create_topic_with_props, update_topic, delete_topic_with_props.         *)
TopicCall(a, name) ==
  \E p \in Props :
    /\ p.topic[1] = GetClient(name)
    /\ Begin(a, p)

ReadNext ==
  \/ \E r \in Reader, name \in Name \cup {Nil} : ReadCall(r, name)
  \/ ReadStep

TopicNext ==
  \/ \E a \in Admin : \/ \E name \in Name \cup {Nil} : TopicCall(a, name)
                      \/ CallStep(a)
                      \/ Lands(a)
  \/ \E t \in Managed : OthersChange(t)

(* No call changes the configuration.                                      *)
Next ==
  \/ ReadNext /\ UNCHANGED <<configuration, topicVars, vaultVars>>
  \/ TopicNext /\ UNCHANGED <<configuration, readVars>>
  \/ VaultNext /\ UNCHANGED <<configuration, readVars, topicVars>>

Spec == Init /\ [][Next]_vars

-----------------------------------------------------------------------------
(* Whatever names the callers use for networks, also none, also a network's*)
(* second name, and also when a network is called "default": what a call   *)
(* gets are messages of the network it went to, although all entries are in*)
(* one cache and networks share topic ids and sequence numbers (client     *)
(* service.rs 79-95, 143-146; hcs service.rs 137; cache/mod.rs 94-96).     *)
NetworksApart ==
  \A r \in Reader :
    \A m \in reader[r].result \cup
             (IF reader[r].snapshot = Nil THEN {} ELSE reader[r].snapshot) :
      m.topic = reader[r].topic
================================================================================
