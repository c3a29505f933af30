------------------------------- MODULE HcsCallers -------------------------------
(***************************************************************************)
(* The callers of an HCS service and the tasks that run pipelines, in one  *)
(* process: readers, administrators and runs share nothing but the service *)
(* and the signers, which they only ask for signatures.                    *)
(***************************************************************************)
EXTENDS HcsService, LifecycleRunner

callerVars == <<vars, runVars>>

CallersInit == Init /\ RunInit

CallersNext ==
  \/ Next /\ UNCHANGED runVars
  \/ RunNext /\ UNCHANGED <<configuration, readVars, topicVars>>

CallersSpec == CallersInit /\ [][CallersNext]_callerVars

-----------------------------------------------------------------------------
(* Readers, administrators and runs have state of their type (hcs          *)
(* topic/message.rs, topic/mod.rs, lifecycle runner.rs).                   *)
TypeOK ==
  /\ ReadTypeOK
  /\ TopicTypeOK
  /\ RunTypeOK
================================================================================
