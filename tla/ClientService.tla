----------------------------- MODULE ClientService -----------------------------
(***************************************************************************)
(* Which network a call goes to (client/src/service.rs, configuration.rs). *)
(* A service is made for a list of networks; a call names one of them, or  *)
(* none.  A network is known by its place in the list.                     *)
(***************************************************************************)
EXTENDS Options, Integers, SequencesExt

CONSTANTS
  Configurations,   \* lists of networks that a service may be made for
  Name              \* what callers call networks

(* local: HederaNetwork::LocalNode, whose name is "local-node".  usable: a  *)
(* client can be built, which an operator id or key, or a node, that does  *)
(* not parse prevents.                                                     *)
Network == [name : STRING, local : BOOLEAN, usable : BOOLEAN]

ASSUME ConfigurationAssumption ==
  /\ Configurations \subseteq Seq(Network)
  /\ Nil \notin Name

VARIABLE configuration

(* HederaClientService::new.                                               *)
Acceptable(c) == c # <<>> /\ IsInjective([i \in DOMAIN c |-> c[i].name])

ServiceInit == configuration \in {c \in Configurations : Acceptable(c)}

(* network_name_matches.                                                   *)
Matches(network, name) ==
  \/ network.name = name
  \/ network.local /\ name \in {"local", "localhost"}

Places(name) == {i \in DOMAIN configuration : Matches(configuration[i], name)}

(* Fault: a call without a name goes to the first network.                 *)
FirstNetwork(name) ==
  IF name = Nil THEN 1 ELSE IF Places(name) = {} THEN Nil ELSE Min(Places(name))

(* The first match, or the only network; otherwise the call is refused.    *)
ResolveNetworkConfig(name) ==
  IF name = Nil THEN IF Len(configuration) = 1 THEN 1 ELSE Nil
  ELSE IF Places(name) = {} THEN Nil ELSE Min(Places(name))

(* get_client: the place of the network that the client is for.            *)
GetClient(name) ==
  LET place == ResolveNetworkConfig(name) IN
  IF place = Nil \/ ~configuration[place].usable THEN Nil ELSE place
================================================================================
