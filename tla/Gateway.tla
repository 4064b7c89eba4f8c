------------------------------ MODULE Gateway ------------------------------
(***************************************************************************)
(* What the cluster reconciler and the workload reconciler share: the      *)
(* Dockyards cluster, the gateways it may be published on, and the         *)
(* ingress-nginx workload that the one writes and the other serves.        *)
(***************************************************************************)
EXTENDS Naturals, Sequences, FiniteSetsExt

CONSTANTS
  None,
  Gateways,
  DefaultGateway,  \* --gateway-name and --gateway-namespace
  IPs,             \* the IPv4 addresses
  Untyped,         \* an address without a type
  Addresses,       \* the address lists a gateway occurs with
  Clusters,        \* the cluster specs that occur
  URLs,            \* the external URLs of the Dockyards installation
  MaxChanges,      \* how often users and other controllers change something
  MaxFaults        \* how often an API call fails or the operator restarts

Parents == {None} \cup Gateways

\* A cluster names a gateway or none, and a gateway lists its addresses.
ASSUME GatewayAssumption ==
  /\ DefaultGateway \in Gateways
  /\ \A c \in Clusters : c.parent \in Parents
  /\ Untyped \notin IPs
  /\ \A a \in Addresses : a \in Seq({a[i] : i \in DOMAIN a})
  /\ {MaxChanges, MaxFaults} \subseteq Nat

VARIABLES
  gateways,         \* per gateway its addresses, None if it does not exist
  cluster,
  externalURL,
  ingressWorkload,  \* the address in its input, Unpinned without one, or None
  changes, faults

Unpinned == "unpinned"

SharedTypeOK ==
  /\ gateways \in [Gateways -> {None} \cup Addresses]
  /\ cluster \in Clusters
  /\ externalURL \in {None} \cup URLs
  /\ ingressWorkload \in {None, Unpinned} \cup IPs
  /\ changes \in 0 .. MaxChanges
  /\ faults \in 0 .. MaxFaults

SharedInit ==
  /\ gateways \in [Gateways -> {None} \cup Addresses]
  /\ cluster \in Clusters
  /\ externalURL \in {None} \cup URLs
  /\ ingressWorkload = None
  /\ changes = 0 /\ faults = 0

\* The gateway a cluster is published on: its own, if it names one.
ResolveGateway(c) == IF c.parent = None THEN DefaultGateway ELSE c.parent

IPv4At(addresses) == {i \in DOMAIN addresses : addresses[i] \in IPs}

\* The loop of the workload reconciler ends at the first IPv4 address,
FirstIPv4(addresses) ==
  IF IPv4At(addresses) = {} THEN None ELSE addresses[Min(IPv4At(addresses))]

\* unless it meets an address without a type before, which it dereferences;
UntypedFirst(addresses) ==
  \E i \in DOMAIN addresses :
    addresses[i] = Untyped /\ \A j \in IPv4At(addresses) : i < j

\* that of the cluster reconciler goes on and keeps the last.
LastIPv4(addresses) ==
  IF IPv4At(addresses) = {} THEN None ELSE addresses[Max(IPv4At(addresses))]

\* An event that users or other controllers cause.
Change == changes < MaxChanges /\ changes' = changes + 1 /\ UNCHANGED faults

Fault == faults < MaxFaults /\ faults' = faults + 1 /\ UNCHANGED changes

\* Neither reconciler watches gateways or the configuration.
ChangeGateway(g, addresses) ==
  /\ Change
  /\ gateways[g] # addresses
  /\ gateways' = [gateways EXCEPT ![g] = addresses]
  /\ UNCHANGED <<cluster, externalURL, ingressWorkload>>

ChangeURL(u) ==
  /\ Change
  /\ externalURL # u
  /\ externalURL' = u
  /\ UNCHANGED <<gateways, cluster, ingressWorkload>>
=============================================================================
