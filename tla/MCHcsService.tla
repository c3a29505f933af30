------------------------------ MODULE MCHcsService ------------------------------
(***************************************************************************)
(* A service for two networks and its callers: two readers of a topic, an  *)
(* administrator of another topic, and two tasks that run pipelines.  scope*)
(* says which of them a behaviour is about; in CallersSpec they all go on  *)
(* together.                                                               *)
(***************************************************************************)
EXTENDS HcsCallers, TLC

CONSTANTS r1, r2, s1

VARIABLE scope

allVars == <<callerVars, scope>>

MCReader == {r1, r2}
MCTopicId == {"0.0.5"}
MCName == {"default", "local"}
Net(name) == [name |-> name, local |-> name = "local-node", usable |-> TRUE]

(* One network, named like the cache entries of calls without a name; the  *)
(* same one as the second of two; a network with another's second name; one*)
(* that is not usable; and what HederaClientService::new refuses.          *)
MCConfigurations ==
  {<<Net("default")>>, <<Net("local-node"), Net("default")>>,
   <<Net("local-node"), Net("local")>>,
   <<[Net("local") EXCEPT !.usable = FALSE], Net("default")>>,
   <<Net("default"), Net("default")>>, <<>>}

MCTopic == {1, 2} \X MCTopicId
MCEntry == {KeyOf(name, id) : name \in MCName \cup {Nil}, id \in MCTopicId}
MCManaged == {<<1, "0.0.5">>}
MCMaxTail == [t \in MCTopic |-> IF t[1] = 1 THEN 3 ELSE 1]

(* HcsTopicReader; GrpcTopicReader; a status list; a caller with a limit.  *)
(* Only the first kind writes to the cache: the second reader is of it.    *)
MCRequest ==
  {[from |-> "now", to |-> Nil, limit |-> Nil, cached |-> TRUE],
   [from |-> "epoch", to |-> Nil, limit |-> Nil, cached |-> FALSE],
   [from |-> "epoch", to |-> 1, limit |-> Nil, cached |-> TRUE],
   [from |-> "now", to |-> Nil, limit |-> 1, cached |-> TRUE]}

MCSignerOf == [a \in Admin |-> s1]
MCRunSigner == [c \in Task |-> s1]

MCRequests ==
  r1 :> MCRequest @@ r2 :> {q \in MCRequest : Cacheable(q)}

(* The registrars' pipeline; the one of the tests of the lifecycle crate,  *)
(* with two signatures.                                                    *)
S(label, kind) == [label |-> label, kind |-> kind]
MCPipelines ==
  {[steps |-> p, catch |-> c] : c \in BOOLEAN, p \in
    {<<S("sign", "SignWithSigner")>>,
     <<S("pause-for-signature", "Pause"), S("attach", "AttachSignature"),
       S("countersign", "AttachSignature"), S("pause-before-publish", "Pause"),
       S("publish", "Callback")>>}}

MCInit ==
  /\ scope \in {"reads", "topics", "runs"}
  /\ CallersInit
  /\ scope = "runs" => Len(configuration) = 1
  /\ scope # "runs" => pipeline.catch /\ Len(pipeline.steps) = 1

MCNext ==
  /\ UNCHANGED <<scope, configuration>>
  /\ \/ scope = "reads" /\ ReadNext /\ UNCHANGED <<topicVars, vaultVars, runVars>>
     \/ scope = "topics" /\ TopicNext /\ UNCHANGED <<readVars, runVars>>
     \/ scope = "runs" /\ RunNext /\ UNCHANGED <<readVars, topicVars>>
     \/ scope # "reads" /\ VaultNext /\ UNCHANGED <<readVars, topicVars, runVars>>

(* A call that an administrator made is not starved.                       *)
MCSpec ==
  /\ MCInit
  /\ [][MCNext]_allVars
  /\ \A a \in Admin : WF_allVars(CallStep(a) /\ UNCHANGED <<readVars, runVars, configuration, scope>>)
================================================================================
