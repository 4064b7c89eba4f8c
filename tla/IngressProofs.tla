--------------------------- MODULE IngressProofs ---------------------------
(***************************************************************************)
(* What the cluster and the workload reconciler keep together, for any     *)
(* gateways, clusters, services, addresses and numbers of changes, faults  *)
(* and restarts.                                                           *)
(*                                                                         *)
(* Both work from copies: of the cluster, of a gateway's address, of the   *)
(* list of services.  IngressInv says how far a copy may be trusted in the *)
(* middle of a reconciliation.  It is as the original, unless the          *)
(* reconciler has been queued again; then nothing is said, and nothing     *)
(* need be, for both properties are about reconcilers with nothing left to *)
(* do.                                                                     *)
(***************************************************************************)
EXTENDS Ingress, SequenceTheorems, WellFoundedInduction, TLAPS

\* The worker of the cluster reconciler has the cluster as it is, unless it is
\* queued again, and ends with the route of the endpoint it is about to write.
EndpointKept ==
  clusterStep # "idle" =>
    /\ ~clusterQueued => clusterWork.cluster = cluster
    /\ clusterStep \in {"gateway", "ingress", "tlsRoute"} => kubevirtCluster
    /\ clusterStep = "status" /\ clusterWork.outcome = "reconciled" =>
         /\ kubevirtCluster
         /\ clusterWork.status.endpoint # None =>
              apiRoute = [host |-> clusterWork.status.endpoint,
                          parent |-> ResolveGateway(clusterWork.cluster)]

\* The worker has found the gateway before it reads its addresses.
AddressesKnown == clusterStep = "ingress" => clusterWork.addresses # None

\* The parts of a service the worker has written before its next step.
Made(s) ==
  /\ remote[s] = workloadWork.ip /\ s \in exported
  /\ httpRoutes[s] = WantedRoute /\ tlsRoutes[s] = WantedRoute

\* The worker has a service in hand.
Serving == workloadStep \in {"service", "http", "tls"}

\* The service in hand, once written, is exported, and its HTTP route comes
\* before its TLS route.
ServingOK ==
  Serving => /\ workloadWork.service \in Services
             /\ workloadStep # "service" => workloadWork.service \in exported
             /\ workloadStep = "tls" => httpRoutes[workloadWork.service] = WantedRoute

\* The service in hand, which is in order but may lack its objects.
InHand == IF Serving THEN {workloadWork.service} ELSE {}

\* Unless an event has come in since, the list is what the workload cluster
\* still has, and the services the worker is through with are published.
ServicesKept ==
  (workloadStep = "next" \/ Serving) /\ watched /\ ~workloadQueued =>
      /\ workloadWork.list = remote
      /\ \A s \in InHand : remote[s] = workloadWork.ip
      /\ \A s \in Present \ (workloadWork.left \cup InHand) : Made(s)

\* The worker goes on from the gateway with its address only.
IPKnown == workloadStep \notin {"idle", "gateway"} => workloadWork.ip \in IPs

\* What is kept of services.
ServicesInv == PublishedAlike /\ ServingOK /\ ServicesKept /\ IPKnown

\* The inductive invariant.
IngressInv ==
  /\ TypeOK /\ AddressesKnown
  /\ EndpointRouted /\ EndpointKept
  /\ ServicesInv
-----------------------------------------------------------------------------
(* What is read from a gateway.                                            *)

\* The least and the greatest position of a list that holds an IPv4 address.
LEMMA PositionExists ==
  ASSUME NEW n \in Nat, NEW S \in SUBSET (1 .. n), S # {}
  PROVE  Min(S) \in S /\ Max(S) \in S
<1>1. \A T \in SUBSET Nat : T # {} => \E a \in T : \A b \in T : a <= b
  <2> SUFFICES ASSUME NEW T \in SUBSET Nat, T # {}
               PROVE  \E a \in T : \A b \in T : a <= b
    OBVIOUS
  <2>1. PICK a \in T : \A b \in T : <<b, a>> \notin OpToRel(<, Nat)
    BY NatLessThanWellFounded, WFMin
  <2>2. ASSUME NEW b \in T PROVE a <= b
    <3>1. <<b, a>> \in Nat \X Nat
      OBVIOUS
    <3>2. ~(b < a)
      BY <2>1, <3>1 DEF OpToRel
    <3>3. QED
      BY <3>2
  <2>3. QED
    BY <2>2
<1>2. \E a \in S : \A b \in S : a <= b
  <2>1. S \in SUBSET Nat
    OBVIOUS
  <2>2. QED
    BY <1>1, <2>1
<1>3. \E a \in S : \A b \in S : a >= b
  <2> DEFINE T == {k \in Nat : n - k \in S}
  <2>1. \A i \in S : n - i \in T
    <3> SUFFICES ASSUME NEW i \in S PROVE n - i \in T
      OBVIOUS
    <3>1. i \in 1 .. n
      OBVIOUS
    <3>2. n - i \in Nat /\ n - (n - i) = i
      BY <3>1
    <3>3. QED
      BY <3>2
  <2>2. T \in SUBSET Nat /\ T # {}
    BY <2>1
  <2> HIDE DEF T
  <2>3. PICK t \in T : \A u \in T : t <= u
    BY <1>1, <2>2
  <2>4. t \in Nat /\ n - t \in S
    BY <2>3 DEF T
  <2>5. ASSUME NEW b \in S PROVE n - t >= b
    <3>1. b \in 1 .. n /\ n - b \in T
      BY <2>1
    <3>2. t <= n - b
      BY <2>3, <3>1
    <3>3. QED
      BY <2>4, <3>1, <3>2
  <2>6. QED
    BY <2>4, <2>5
<1>4. Min(S) \in S
  BY <1>2 DEF Min
<1>5. Max(S) \in S
  BY <1>3 DEF Max
<1>6. QED
  BY <1>4, <1>5

\* Both reconcilers read an IPv4 address of the list, or none.
LEMMA AddressTyping ==
  ASSUME NEW a \in Addresses
  PROVE  FirstIPv4(a) \in {None} \cup IPs /\ LastIPv4(a) \in {None} \cup IPs
<1>1. a \in Seq({a[i] : i \in DOMAIN a})
  BY GatewayAssumption
<1>2. Len(a) \in Nat /\ DOMAIN a = 1 .. Len(a)
  BY <1>1, LenProperties
<1>3. IPv4At(a) \in SUBSET (1 .. Len(a)) /\ \A i \in IPv4At(a) : a[i] \in IPs
  BY <1>2 DEF IPv4At
<1>4. CASE IPv4At(a) = {}
  BY <1>4 DEF FirstIPv4, LastIPv4
<1>5. CASE IPv4At(a) # {}
  <2>1. Min(IPv4At(a)) \in IPv4At(a) /\ Max(IPv4At(a)) \in IPv4At(a)
    BY <1>2, <1>3, <1>5, PositionExists
  <2>2. QED
    BY <1>3, <1>5, <2>1 DEF FirstIPv4, LastIPv4
<1>6. QED
  BY <1>4, <1>5

\* A cluster's gateway is its own or the default one.
LEMMA GatewayTyping ==
  ASSUME NEW c \in Clusters
  PROVE  ResolveGateway(c) \in Gateways
  BY GatewayAssumption DEF ResolveGateway, Parents
-----------------------------------------------------------------------------
(* Type correctness.                                                       *)

\* The local variables of the cluster reconciler while it works.
LEMMA ClusterAtWork ==
  ASSUME ClusterTypeOK, clusterStep # "idle"
  PROVE  /\ clusterWork \in ClusterLocals /\ clusterWork # None
         /\ clusterWork.cluster \in Clusters /\ clusterWork.status \in Status
         /\ clusterWork.outcome \in Outcomes /\ clusterWork.addresses \in {None} \cup Addresses
<1>1. clusterWork \in ClusterLocals /\ clusterWork # None
  BY DEF ClusterTypeOK
<1>2. QED
  BY <1>1 DEF ClusterLocals

\* And those of the workload reconciler.
LEMMA WorkloadAtWork ==
  ASSUME WorkloadTypeOK, workloadStep # "idle"
  PROVE  /\ workloadWork \in WorkloadLocals /\ workloadWork # None
         /\ workloadWork.zones \in ZoneSets /\ workloadWork.parent \in Gateways
         /\ workloadWork.ip \in {None} \cup IPs /\ workloadWork.list \in Listed
         /\ workloadWork.left \in SUBSET Services /\ workloadWork.service \in {None} \cup Services
<1>1. workloadWork \in WorkloadLocals /\ workloadWork # None
  BY DEF WorkloadTypeOK
<1>2. QED
  BY <1>1 DEF WorkloadLocals

\* The bounds on changes and faults.
LEMMA BoundsKept ==
  ASSUME SharedTypeOK, Change \/ Fault \/ UNCHANGED <<changes, faults>>
  PROVE  changes' \in 0 .. MaxChanges /\ faults' \in 0 .. MaxFaults
<1>1. MaxChanges \in Nat /\ MaxFaults \in Nat
  BY GatewayAssumption
<1>2. changes \in 0 .. MaxChanges /\ faults \in 0 .. MaxFaults
  BY DEF SharedTypeOK
<1>3. QED
  BY <1>1, <1>2 DEF Change, Fault

\* What stays as it is keeps its type.
LEMMA SharedKept ==
  ASSUME SharedTypeOK, UNCHANGED sharedVars,
         Change \/ Fault \/ UNCHANGED <<changes, faults>>
  PROVE  SharedTypeOK'
  BY BoundsKept DEF SharedTypeOK, sharedVars

\* A reconciler nobody touches keeps its type.
LEMMA ClusterKept == ClusterTypeOK /\ UNCHANGED clusterVars => ClusterTypeOK'
  BY DEF ClusterTypeOK, clusterVars, clusterWorker

LEMMA WorkloadKept == WorkloadTypeOK /\ UNCHANGED workloadVars => WorkloadTypeOK'
  BY DEF WorkloadTypeOK, workloadVars, workloadWorker, remoteVars, publishedVars

\* An event of the workload changes the queue only.
LEMMA Told == WorkloadTypeOK /\ TellWorkload => WorkloadTypeOK'
  BY DEF WorkloadTypeOK, TellWorkload, remoteVars, publishedVars

\* Going on in the reconciliation of the cluster.
LEMMA ClusterGoes ==
  ASSUME ClusterTypeOK, UNCHANGED <<status, clusterOutcome>>,
         kubevirtCluster' \in BOOLEAN, clusterQueued' \in BOOLEAN,
         apiRoute' \in {None} \cup [host : URLs, parent : Gateways],
         NEW s \in {"kubevirtCluster", "gateway", "ingress", "tlsRoute", "status"},
         NEW w \in ClusterLocals, ClusterGoTo(s, w)
  PROVE  ClusterTypeOK'
<1>1. w # None
  BY ClusterAssumption
<1>2. QED
  BY <1>1 DEF ClusterTypeOK, ClusterGoTo

\* A return records the outcome and leaves the rest of the copy.
LEMMA ClusterReturns ==
  ASSUME NEW w \in ClusterLocals, NEW o \in Outcomes
  PROVE  /\ [w EXCEPT !.outcome = o] \in ClusterLocals
         /\ [w EXCEPT !.outcome = o].cluster = w.cluster
         /\ [w EXCEPT !.outcome = o].status = w.status
         /\ [w EXCEPT !.outcome = o].outcome = o
  BY DEF ClusterLocals

\* So does a mark of the ingress condition.
LEMMA IngressMarks ==
  ASSUME clusterWork \in ClusterLocals,
         NEW r \in {"unknown", "ready", "noDefaultIngressProvider",
                    "waitingForGatewayAddress", "errorReconciling"}
  PROVE  /\ IngressMarked(r) \in ClusterLocals
         /\ IngressMarked(r).cluster = clusterWork.cluster
         /\ IngressMarked(r).outcome = clusterWork.outcome
  BY DEF IngressMarked, ClusterLocals, Status

\* The endpoint is the external URL, or what it was.
LEMMA EndpointTyping ==
  ASSUME NEW w \in ClusterLocals, SharedTypeOK
  PROVE  /\ ReconcileAPIEndpoint(w) \in ClusterLocals
         /\ ReconcileAPIEndpoint(w).cluster = w.cluster
         /\ ReconcileAPIEndpoint(w).outcome = w.outcome
         /\ ReconcileAPIEndpoint(w).addresses = w.addresses
<1>1. externalURL \in {None} \cup URLs
  BY DEF SharedTypeOK
<1>2. w.status \in Status
  BY DEF ClusterLocals
<1>3. CASE externalURL = None
  <2>1. [w EXCEPT !.status.endpointReason = "waitingForListenerHostname"] \in ClusterLocals
    BY <1>2 DEF ClusterLocals, Status
  <2>2. QED
    BY <1>3, <2>1 DEF ReconcileAPIEndpoint, ClusterLocals
<1>4. CASE externalURL # None
  <2> DEFINE v == [w EXCEPT !.status.endpoint = externalURL, !.status.endpointReason = "reconciled"]
  <2>1. [w.status EXCEPT !.endpoint = externalURL, !.endpointReason = "reconciled"] \in Status
    BY <1>1, <1>2 DEF Status
  <2>2. v \in ClusterLocals /\ v.cluster = w.cluster /\ v.outcome = w.outcome
        /\ v.addresses = w.addresses
    BY <1>1, <1>2, <2>1 DEF ClusterLocals, Status
  <2>3. QED
    BY <1>4, <2>2 DEF ReconcileAPIEndpoint
<1>5. QED
  BY <1>3, <1>4

\* The calls of the cluster reconciler.
LEMMA ClusterStepTypes ==
  ASSUME SharedTypeOK, ClusterTypeOK, AddressesKnown, ReconcileCluster
  PROVE  SharedTypeOK' /\ ClusterTypeOK'
<1>1. CASE BeginCluster
  <2> DEFINE w == [cluster |-> cluster, status |-> status, outcome |-> "none", addresses |-> None]
  <2>1. w \in ClusterLocals
    BY DEF ClusterLocals, SharedTypeOK, ClusterTypeOK, Outcomes
  <2> HIDE DEF w
  <2>2. ClusterGoTo("kubevirtCluster", w)
    BY <1>1 DEF BeginCluster, w
  <2>3. ClusterTypeOK'
    BY <1>1, <2>1, <2>2, ClusterGoes DEF BeginCluster, ClusterTypeOK
  <2>4. QED
    BY <1>1, <2>3, SharedKept DEF BeginCluster, sharedVars
<1>2. ASSUME clusterStep # "idle" PROVE clusterWork \in ClusterLocals
  BY <1>2, ClusterAtWork
<1>3. CASE ReconcileKubevirtCluster
  <2>1. ClusterTypeOK'
    BY <1>2, <1>3, ClusterGoes DEF ReconcileKubevirtCluster, ClusterCalls, ClusterTypeOK
  <2>2. QED
    BY <1>3, <2>1, SharedKept DEF ReconcileKubevirtCluster, ClusterCalls, sharedVars
<1>4. CASE LookUpGateway
  <2> DEFINE a == gateways[ResolveGateway(clusterWork.cluster)]
             w == [clusterWork EXCEPT !.addresses = a]
  <2>1. clusterWork \in ClusterLocals /\ clusterWork.cluster \in Clusters
    BY <1>4, ClusterAtWork DEF LookUpGateway
  <2>2. a \in {None} \cup Addresses
    BY <2>1, GatewayTyping DEF SharedTypeOK
  <2> HIDE DEF a
  <2>3. w \in ClusterLocals
    BY <2>1, <2>2 DEF ClusterLocals
  <2> HIDE DEF w
  <2>4. ReconcileAPIEndpoint(w) \in ClusterLocals
    BY <2>3, EndpointTyping
  <2>5. [clusterWork EXCEPT !.outcome = "ignored"] \in ClusterLocals
    BY <2>1, ClusterReturns DEF Outcomes
  <2>6. \/ ClusterGoTo("status", [clusterWork EXCEPT !.outcome = "ignored"])
        \/ ClusterGoTo("ingress", ReconcileAPIEndpoint(w))
    BY <1>4 DEF LookUpGateway, ClusterReturn, w, a
  <2>7. ClusterTypeOK'
    BY <1>4, <2>4, <2>5, <2>6, ClusterGoes DEF LookUpGateway, ClusterCalls, ClusterTypeOK
  <2>8. QED
    BY <1>4, <2>7, SharedKept DEF LookUpGateway, ClusterCalls, sharedVars
<1>5. CASE ReconcileIngressNginx
  <2>1. clusterWork \in ClusterLocals /\ clusterWork.addresses \in {None} \cup Addresses
    BY <1>5, ClusterAtWork DEF ReconcileIngressNginx
  <2>2. PICK r \in {"ready", "noDefaultIngressProvider", "waitingForGatewayAddress"} :
          ClusterGoTo("tlsRoute", IngressMarked(r))
    BY <1>5 DEF ReconcileIngressNginx
  <2>3. IngressMarked(r) \in ClusterLocals
    BY <2>1, IngressMarks
  <2>4. ClusterTypeOK'
    BY <1>5, <2>2, <2>3, ClusterGoes DEF ReconcileIngressNginx, ClusterCalls, ClusterTypeOK
  <2>5. CASE UNCHANGED ingressWorkload
    BY <1>5, <2>4, <2>5, SharedKept DEF ReconcileIngressNginx, ClusterCalls, sharedVars
  <2>6. CASE ingressWorkload' = IngressInput /\ IngressInput # None
    <3>1. clusterStep = "ingress"
      BY <1>5 DEF ReconcileIngressNginx
    <3>2. IngressInput \in {None, Unpinned} \cup IPs
      <4>1. clusterWork.addresses \in Addresses
        BY <2>1, <3>1 DEF AddressesKnown
      <4>2. QED
        BY <4>1, AddressTyping DEF IngressInput
    <3>3. QED
      BY <1>5, <2>4, <2>6, <3>2, BoundsKept DEF ReconcileIngressNginx, ClusterCalls, SharedTypeOK
  <2>7. QED
    BY <1>5, <2>5, <2>6 DEF ReconcileIngressNginx
<1>6. CASE ReconcileAPIRoute
  <2>1. clusterWork \in ClusterLocals /\ clusterWork.cluster \in Clusters
        /\ clusterWork.status \in Status
    BY <1>6, ClusterAtWork DEF ReconcileAPIRoute
  <2>2. [clusterWork EXCEPT !.outcome = "reconciled"] \in ClusterLocals
    BY <2>1, ClusterReturns DEF Outcomes
  <2>3. Endpoint \in {None} \cup URLs
    BY <2>1 DEF Endpoint, Status
  <2>4. ResolveGateway(clusterWork.cluster) \in Gateways
    BY <2>1, GatewayTyping
  <2>5. apiRoute' \in {None} \cup [host : URLs, parent : Gateways]
    BY <1>6, <2>3, <2>4 DEF ReconcileAPIRoute, ClusterTypeOK
  <2>6. ClusterTypeOK'
    BY <1>6, <2>2, <2>5, ClusterGoes DEF ReconcileAPIRoute, ClusterReturn, ClusterCalls, ClusterTypeOK
  <2>7. QED
    BY <1>6, <2>6, SharedKept DEF ReconcileAPIRoute, ClusterCalls, sharedVars
<1>7. CASE FailCluster
  <2> DEFINE w == IF clusterStep = "ingress" THEN IngressMarked("errorReconciling") ELSE clusterWork
  <2>1. w \in ClusterLocals
    BY <1>2, <1>7, IngressMarks DEF FailCluster
  <2> HIDE DEF w
  <2>2. [w EXCEPT !.outcome = "failed"] \in ClusterLocals
    BY <2>1, ClusterReturns DEF Outcomes
  <2>3. ClusterGoTo("status", [w EXCEPT !.outcome = "failed"])
    BY <1>7 DEF FailCluster, ClusterReturn, w
  <2>4. ClusterTypeOK'
    BY <1>7, <2>2, <2>3, ClusterGoes DEF FailCluster, ClusterTypeOK
  <2>5. QED
    BY <1>7, <2>4, SharedKept DEF FailCluster, sharedVars
<1>8. CASE PatchCluster
  <2>1. clusterWork.status \in Status /\ clusterWork.outcome \in Outcomes
    BY <1>8, ClusterAtWork DEF PatchCluster
  <2>2. clusterQueued' \in BOOLEAN
    BY <1>8 DEF PatchCluster
  <2>3. ClusterTypeOK'
    BY <1>8, <2>1, <2>2 DEF PatchCluster, StopCluster, ClusterTypeOK
  <2>4. QED
    BY <1>8, <2>3, SharedKept DEF PatchCluster, sharedVars
<1>9. CASE FailClusterPatch
  <2>1. ClusterTypeOK'
    BY <1>9 DEF FailClusterPatch, StopCluster, ClusterTypeOK, Outcomes
  <2>2. QED
    BY <1>9, <2>1, SharedKept DEF FailClusterPatch, sharedVars
<1>10. QED
  BY <1>1, <1>3, <1>4, <1>5, <1>6, <1>7, <1>8, <1>9 DEF ReconcileCluster

\* The gateway is looked up first.
LEMMA AddressesStep ==
  ASSUME ClusterTypeOK, AddressesKnown, ReconcileCluster
  PROVE  AddressesKnown'
<1>1. CASE LookUpGateway
  <2> DEFINE a == gateways[ResolveGateway(clusterWork.cluster)]
             w == [clusterWork EXCEPT !.addresses = a]
  <2>1. clusterWork \in ClusterLocals
    BY <1>1, ClusterAtWork DEF LookUpGateway
  <2>2. CASE ClusterReturn(clusterWork, "ignored")
    BY <2>2 DEF ClusterReturn, ClusterGoTo, AddressesKnown
  <2>3. CASE a # None /\ ClusterGoTo("ingress", ReconcileAPIEndpoint(w))
    <3>1. w.addresses = a
      BY <2>1 DEF ClusterLocals
    <3>2. ReconcileAPIEndpoint(w).addresses = w.addresses
      BY <2>1 DEF ReconcileAPIEndpoint, ClusterLocals
    <3>3. QED
      BY <2>3, <3>1, <3>2 DEF ClusterGoTo, AddressesKnown
  <2>4. QED
    BY <1>1, <2>2, <2>3 DEF LookUpGateway
<1>2. CASE ~LookUpGateway
  BY <1>2 DEF ReconcileCluster, BeginCluster, ReconcileKubevirtCluster, ReconcileIngressNginx,
              ReconcileAPIRoute, FailCluster, PatchCluster, FailClusterPatch, ClusterReturn,
              ClusterGoTo, StopCluster, AddressesKnown
<1>3. QED
  BY <1>1, <1>2

\* Going on in the reconciliation of the workload.
LEMMA WorkloadGoes ==
  ASSUME WorkloadTypeOK, UNCHANGED remoteVars, UNCHANGED workloadOutcome,
         watched' = watched, workloadQueued' \in BOOLEAN,
         exported' \subseteq Services,
         httpRoutes' \in [Services -> {None} \cup Route],
         tlsRoutes' \in [Services -> {None} \cup Route],
         NEW s \in {"gateway", "watch", "list", "next", "service", "http", "tls"},
         NEW w \in WorkloadLocals, workloadStep' = s, workloadWork' = w
  PROVE  WorkloadTypeOK'
<1>1. w # None
  BY WorkloadAssumption
<1>2. QED
  BY <1>1 DEF WorkloadTypeOK, remoteVars

\* Ending it.
LEMMA WorkloadStops ==
  ASSUME WorkloadTypeOK, UNCHANGED <<controlPlane, connected, watched, publishedVars>>,
         remote' \in Listed, workloadQueued' \in BOOLEAN,
         NEW o \in {"ignored", "patched", "failed", "reconciled"}, StopWorkload(o)
  PROVE  WorkloadTypeOK'
  BY DEF WorkloadTypeOK, StopWorkload, publishedVars

\* The route a service is given.
LEMMA WantedTyping ==
  ASSUME WorkloadTypeOK, workloadStep # "idle"
  PROVE  WantedRoute \in Route /\ WantedRoute # None
<1>1. WantedRoute \in Route
  BY WorkloadAtWork DEF WantedRoute, Route
<1>2. QED
  BY <1>1, WorkloadAssumption

\* The calls of the workload reconciler.
LEMMA WorkloadStepTypes ==
  ASSUME SharedTypeOK, WorkloadTypeOK, ServingOK, ReconcileWorkload
  PROVE  SharedTypeOK' /\ WorkloadTypeOK'
<1> USE DEF remoteVars, publishedVars, sharedVars
<1>1. SharedTypeOK'
  BY SharedKept DEF ReconcileWorkload, BeginWorkload, FindGatewayIP, WatchServices, ListServices,
                    NextService, PatchIngressIP, ReconcileService, ReconcileHTTPRoute,
                    ReconcileTLSRoute, FailWorkload, Quiet
<1> SUFFICES WorkloadTypeOK'
  BY <1>1
<1>2. /\ remote \in Listed /\ workloadQueued \in BOOLEAN /\ exported \subseteq Services
      /\ httpRoutes \in [Services -> {None} \cup Route]
      /\ tlsRoutes \in [Services -> {None} \cup Route]
  BY DEF WorkloadTypeOK
<1>3. ASSUME workloadStep # "idle" PROVE workloadWork \in WorkloadLocals
  BY <1>3, WorkloadAtWork
<1>4. CASE BeginWorkload
  <2>1. CASE StopWorkload("ignored")
    BY <1>2, <1>4, <2>1, WorkloadStops DEF BeginWorkload, Quiet, remoteVars
  <2> DEFINE w == [zones |-> cluster.zones, parent |-> ResolveGateway(cluster),
                   ip |-> None, list |-> Nothing, left |-> {}, service |-> None]
  <2>2. CASE workloadStep' = "gateway" /\ workloadWork' = w /\ UNCHANGED workloadOutcome
    <3>1. cluster.zones \in ZoneSets /\ ResolveGateway(cluster) \in Gateways
      BY GatewayTyping DEF SharedTypeOK, ZoneSets
    <3>2. Nothing \in Listed
      BY DEF Nothing, Listed
    <3>3. w \in WorkloadLocals
      BY <3>1, <3>2 DEF WorkloadLocals
    <3>4. QED
      BY <1>2, <1>4, <2>2, <3>3, WorkloadGoes DEF BeginWorkload, Quiet, remoteVars, publishedVars
  <2>3. QED
    BY <1>4, <2>1, <2>2 DEF BeginWorkload
<1>5. CASE FindGatewayIP
  <2> DEFINE ip == GatewayIP(workloadWork.parent)
             w == [workloadWork EXCEPT !.ip = ip]
  <2>1. workloadWork \in WorkloadLocals /\ workloadWork.parent \in Gateways
    BY <1>5, WorkloadAtWork DEF FindGatewayIP
  <2>2. ip \in {None} \cup IPs
    <3>1. gateways[workloadWork.parent] \in {None} \cup Addresses
      BY <2>1 DEF SharedTypeOK
    <3>2. QED
      BY <3>1, AddressTyping DEF GatewayIP
  <2> HIDE DEF ip
  <2>3. w \in WorkloadLocals
    BY <2>1, <2>2 DEF WorkloadLocals
  <2> HIDE DEF w
  <2>4. CASE Ignore \/ Retry
    BY <1>2, <1>5, <2>4, WorkloadStops DEF FindGatewayIP, Ignore, Retry, Quiet, remoteVars
  <2>5. CASE WorkloadGoTo("watch", w)
    BY <1>2, <1>5, <2>3, <2>5, WorkloadGoes
    DEF FindGatewayIP, WorkloadGoTo, Quiet, publishedVars
  <2>6. QED
    BY <1>5, <2>4, <2>5 DEF FindGatewayIP, ip, w
<1>6. CASE WatchServices
  <2>1. CASE Ignore /\ UNCHANGED watched
    BY <1>2, <1>6, <2>1, WorkloadStops DEF WatchServices, Ignore, Quiet, remoteVars
  <2>2. CASE connected /\ watched' = TRUE /\ workloadStep' = "list"
             /\ UNCHANGED <<workloadWork, workloadOutcome>>
    <3>1. workloadWork # None /\ workloadQueued' \in BOOLEAN
      BY <1>2, <1>6, WorkloadAtWork DEF WatchServices, Ignore
    <3>2. QED
      BY <1>6, <2>2, <3>1 DEF WatchServices, WorkloadTypeOK, Quiet, remoteVars, publishedVars
  <2>3. QED
    BY <1>6, <2>1, <2>2 DEF WatchServices
<1>7. CASE ListServices
  <2> DEFINE w == [workloadWork EXCEPT !.list = remote, !.left = Present]
  <2>1. w \in WorkloadLocals
    BY <1>2, <1>3, <1>7 DEF ListServices, WorkloadLocals, Present
  <2> HIDE DEF w
  <2>2. CASE Retry
    BY <1>2, <1>7, <2>2, WorkloadStops DEF ListServices, Retry, Quiet, remoteVars
  <2>3. CASE WorkloadGoTo("next", w)
    BY <1>2, <1>7, <2>1, <2>3, WorkloadGoes DEF ListServices, WorkloadGoTo, Quiet, publishedVars
  <2>4. QED
    BY <1>7, <2>2, <2>3 DEF ListServices, w
<1>8. CASE NextService
  <2>1. workloadStep # "idle" /\ workloadWork \in WorkloadLocals
        /\ workloadWork.left \in SUBSET Services /\ workloadWork.ip \in {None} \cup IPs
    BY <1>8, WorkloadAtWork DEF NextService
  <2>2. CASE StopWorkload("reconciled") /\ UNCHANGED <<workloadQueued, watched, publishedVars>>
             /\ Quiet
    BY <1>2, <2>2, WorkloadStops DEF Quiet, remoteVars
  <2>3. ASSUME NEW s \in workloadWork.left, UNCHANGED <<watched, publishedVars>>, Quiet,
               WorkloadGoTo("service", [workloadWork EXCEPT !.left = @ \ {s}, !.service = s])
        PROVE  WorkloadTypeOK'
    <3> DEFINE w == [workloadWork EXCEPT !.left = @ \ {s}, !.service = s]
    <3>1. w \in WorkloadLocals
      BY <2>1 DEF WorkloadLocals
    <3> HIDE DEF w
    <3>2. WorkloadGoTo("service", w)
      BY <2>3 DEF w
    <3>3. QED
      BY <1>2, <2>3, <3>1, <3>2, WorkloadGoes DEF WorkloadGoTo, Quiet, publishedVars
  <2>4. ASSUME NEW s \in workloadWork.left, PatchIngressIP(s)
        PROVE  WorkloadTypeOK'
    <3>1. remote' \in Listed
      BY <1>2, <2>1, <2>4 DEF PatchIngressIP, Listed
    <3>2. workloadQueued' \in BOOLEAN
      BY <2>4 DEF PatchIngressIP, Retry
    <3>3. StopWorkload("failed") \/ StopWorkload("patched")
      BY <2>4 DEF PatchIngressIP, Retry
    <3>4. QED
      BY <2>4, <3>1, <3>2, <3>3, WorkloadStops DEF PatchIngressIP
  <2>5. QED
    BY <1>8, <2>2, <2>3, <2>4 DEF NextService
<1>9. CASE ReconcileService
  <2>1. workloadStep # "idle" /\ workloadWork.service \in Services
    BY <1>9 DEF ReconcileService, ServingOK, Serving
  <2>2. exported' \subseteq Services
    BY <1>2, <1>9, <2>1 DEF ReconcileService
  <2>3. QED
    BY <1>2, <1>3, <1>9, <2>1, <2>2, WorkloadGoes DEF ReconcileService, WorkloadGoTo, Quiet
<1>10. CASE ReconcileHTTPRoute
  <2>1. workloadStep # "idle" /\ WantedRoute \in Route
    BY <1>10, WantedTyping DEF ReconcileHTTPRoute
  <2>2. httpRoutes' \in [Services -> {None} \cup Route]
    BY <1>2, <1>10, <2>1 DEF ReconcileHTTPRoute
  <2>3. QED
    BY <1>2, <1>3, <1>10, <2>1, <2>2, WorkloadGoes DEF ReconcileHTTPRoute, WorkloadGoTo, Quiet
<1>11. CASE ReconcileTLSRoute
  <2>1. workloadStep # "idle" /\ WantedRoute \in Route
    BY <1>11, WantedTyping DEF ReconcileTLSRoute
  <2>2. tlsRoutes' \in [Services -> {None} \cup Route]
    BY <1>2, <1>11, <2>1 DEF ReconcileTLSRoute
  <2>3. QED
    BY <1>2, <1>3, <1>11, <2>1, <2>2, WorkloadGoes DEF ReconcileTLSRoute, WorkloadGoTo, Quiet
<1>12. CASE FailWorkload
  <2>1. StopWorkload("failed") /\ workloadQueued' \in BOOLEAN
    BY <1>12 DEF FailWorkload, AfterFailure, Retry
  <2>2. QED
    BY <1>2, <1>12, <2>1, WorkloadStops DEF FailWorkload, remoteVars
<1>13. QED
  BY <1>4, <1>5, <1>6, <1>7, <1>8, <1>9, <1>10, <1>11, <1>12 DEF ReconcileWorkload

\* The steps of users, of the workload cluster, and restarts.
LEMMA OutsideTypes ==
  ASSUME TypeOK, UserStep \/ RemoteStep \/ Restart
  PROVE  TypeOK'
<1> USE DEF TypeOK, sharedVars
<1>1. ASSUME NEW c \in Clusters, ChangeCluster(c), TellWorkload PROVE TypeOK'
  <2>1. SharedTypeOK'
    BY <1>1, BoundsKept DEF ChangeCluster, SharedTypeOK
  <2>2. ClusterTypeOK'
    BY <1>1 DEF ChangeCluster, ClusterEvent, ClusterTypeOK
  <2>3. QED
    BY <1>1, <2>1, <2>2, Told
<1>2. ASSUME UNCHANGED <<clusterVars, workloadVars>> PROVE ClusterTypeOK' /\ WorkloadTypeOK'
  BY <1>2, ClusterKept, WorkloadKept
<1>3. ASSUME NEW g \in Gateways, NEW a \in {None} \cup Addresses, ChangeGateway(g, a),
             UNCHANGED <<clusterVars, workloadVars>>
      PROVE  TypeOK'
  <2>1. gateways' \in [Gateways -> {None} \cup Addresses]
    BY <1>3 DEF ChangeGateway, SharedTypeOK
  <2>2. SharedTypeOK'
    BY <1>3, <2>1, BoundsKept DEF ChangeGateway, SharedTypeOK
  <2>3. QED
    BY <1>2, <1>3, <2>2
<1>4. ASSUME NEW u \in {None} \cup URLs, ChangeURL(u), UNCHANGED <<clusterVars, workloadVars>>
      PROVE  TypeOK'
  <2>1. SharedTypeOK'
    BY <1>4, BoundsKept DEF ChangeURL, SharedTypeOK
  <2>2. QED
    BY <1>2, <1>4, <2>1
<1>5. CASE (StartControlPlane \/ Connect \/ Disconnect) /\ UNCHANGED clusterVars
  <2>1. UNCHANGED clusterVars /\ UNCHANGED sharedVars
        /\ (Change \/ Fault \/ UNCHANGED <<changes, faults>>)
    BY <1>5 DEF StartControlPlane, Connect, Disconnect
  <2>2. WorkloadTypeOK'
    BY <1>5 DEF StartControlPlane, Connect, Disconnect, WorkloadTypeOK, publishedVars,
                workloadWorker
  <2>3. QED
    BY <2>1, <2>2, SharedKept, ClusterKept
<1>6. ASSUME NEW s \in Services, NEW ip \in {"absent", None}, RemoteEvent(s, ip),
             Change \/ UNCHANGED <<changes, faults>>, UNCHANGED clusterVars
      PROVE  TypeOK'
  <2>1. remote' \in Listed
    BY <1>6 DEF RemoteEvent, WorkloadTypeOK, Listed
  <2>2. workloadQueued' \in BOOLEAN
    BY <1>6 DEF RemoteEvent
  <2>3. WorkloadTypeOK'
    BY <1>6, <2>1, <2>2 DEF RemoteEvent, WorkloadTypeOK, publishedVars
  <2>4. QED
    BY <1>6, <2>3, SharedKept, ClusterKept DEF RemoteEvent
<1>7. CASE Restart
  <2>1. SharedTypeOK'
    BY <1>7, SharedKept DEF Restart
  <2>2. ClusterTypeOK'
    BY <1>7 DEF Restart, StopCluster, ClusterTypeOK, Outcomes
  <2>3. WorkloadTypeOK'
    BY <1>7 DEF Restart, StopWorkload, WorkloadTypeOK, publishedVars
  <2>4. QED
    BY <2>1, <2>2, <2>3
<1>8. CASE UserStep
  BY <1>1, <1>3, <1>4, <1>8 DEF UserStep
<1>9. CASE RemoteStep
  <2>1. CASE StartControlPlane \/ Connect \/ Disconnect
    BY <1>5, <1>9, <2>1 DEF RemoteStep
  <2>2. CASE \/ \E s \in Services : CreateService(s)
             \/ \E s \in Services, ip \in {"absent", None} : ChangeService(s, ip)
    BY <1>6, <1>9, <2>2 DEF RemoteStep, CreateService, ChangeService
  <2>3. QED
    BY <1>9, <2>1, <2>2 DEF RemoteStep
<1>10. QED
  BY <1>7, <1>8, <1>9

\* A restart and the steps of others leave the cluster reconciler where it is,
\* or stop it.
LEMMA AddressesOutside ==
  ASSUME AddressesKnown, UserStep \/ RemoteStep \/ Restart \/ WorkloadStep
  PROVE  AddressesKnown'
  BY DEF UserStep, RemoteStep, Restart, WorkloadStep, ChangeCluster, StopCluster, AddressesKnown,
         clusterVars, clusterWorker

\* Every step keeps the types.
LEMMA TypeNext ==
  ASSUME TypeOK, AddressesKnown, ServingOK, [Next]_vars
  PROVE  TypeOK' /\ AddressesKnown'
<1>1. CASE ClusterStep
  <2>1. WorkloadTypeOK'
    BY <1>1, Told DEF ClusterStep, TypeOK
  <2>2. QED
    BY <1>1, <2>1, ClusterStepTypes, AddressesStep DEF ClusterStep, TypeOK
<1>2. CASE WorkloadStep
  BY <1>2, WorkloadStepTypes, ClusterKept, AddressesOutside DEF WorkloadStep, TypeOK
<1>3. CASE UserStep \/ RemoteStep \/ Restart
  BY <1>3, OutsideTypes, AddressesOutside
<1>4. CASE UNCHANGED vars
  BY <1>4, SharedKept, ClusterKept, WorkloadKept
  DEF vars, TypeOK, AddressesKnown, clusterVars, clusterWorker
<1>5. QED
  BY <1>1, <1>2, <1>3, <1>4 DEF Next
-----------------------------------------------------------------------------
(* The endpoint and its route.                                             *)

\* A reconciliation of the cluster that goes on keeps what it has seen to.
LEMMA EndpointGoes ==
  ASSUME EndpointKept, EndpointRouted, UNCHANGED <<cluster, clusterQueued>>,
         clusterStep # "idle", kubevirtCluster',
         NEW s \in {"gateway", "ingress", "tlsRoute"},
         NEW w, w.cluster = clusterWork.cluster, ClusterGoTo(s, w)
  PROVE  EndpointKept' /\ EndpointRouted'
  BY DEF EndpointKept, EndpointRouted, ClusterGoTo

\* So does one that ends early.
LEMMA EndpointEndsEarly ==
  ASSUME EndpointKept, EndpointRouted, UNCHANGED <<cluster, clusterQueued>>,
         clusterStep # "idle", NEW w, w.cluster = clusterWork.cluster,
         w.outcome \in {"failed", "ignored"},
         ClusterGoTo("status", w)
  PROVE  EndpointKept' /\ EndpointRouted'
  BY DEF EndpointKept, EndpointRouted, ClusterGoTo

\* The calls of the cluster reconciler, one by one.
LEMMA EndpointStep ==
  ASSUME SharedTypeOK, ClusterTypeOK, EndpointKept, EndpointRouted, ReconcileCluster
  PROVE  EndpointKept' /\ EndpointRouted'
<1>1. ASSUME clusterStep # "idle"
      PROVE  clusterWork \in ClusterLocals /\ clusterWork.cluster \in Clusters
  BY <1>1, ClusterAtWork
<1>3. CASE BeginCluster
  BY <1>3 DEF BeginCluster, ClusterGoTo, EndpointKept, EndpointRouted
<1>4. CASE ReconcileKubevirtCluster
  BY <1>4, EndpointGoes DEF ReconcileKubevirtCluster, ClusterCalls
<1>5. CASE LookUpGateway
  <2> DEFINE a == gateways[ResolveGateway(clusterWork.cluster)]
             w == [clusterWork EXCEPT !.addresses = a]
             v == [clusterWork EXCEPT !.outcome = "ignored"]
  <2>1. clusterWork \in ClusterLocals /\ clusterWork.cluster \in Clusters /\ kubevirtCluster'
        /\ UNCHANGED <<cluster, clusterQueued>> /\ clusterStep # "idle"
    BY <1>1, <1>5 DEF LookUpGateway, EndpointKept, ClusterCalls
  <2>2. v.cluster = clusterWork.cluster /\ v.outcome = "ignored"
    BY <2>1 DEF ClusterLocals
  <2>3. ReconcileAPIEndpoint(w).cluster = clusterWork.cluster
    BY <2>1 DEF ReconcileAPIEndpoint, ClusterLocals
  <2>4. ClusterGoTo("status", v) \/ ClusterGoTo("ingress", ReconcileAPIEndpoint(w))
    BY <1>5 DEF LookUpGateway, ClusterReturn
  <2> HIDE DEF v, w
  <2>5. QED
    BY <2>1, <2>2, <2>3, <2>4, EndpointGoes, EndpointEndsEarly
<1>6. CASE ReconcileIngressNginx
  <2>1. clusterWork \in ClusterLocals /\ kubevirtCluster'
        /\ UNCHANGED <<cluster, clusterQueued>> /\ clusterStep # "idle"
    BY <1>1, <1>6 DEF ReconcileIngressNginx, EndpointKept, ClusterCalls
  <2>2. PICK r \in {"ready", "noDefaultIngressProvider", "waitingForGatewayAddress"} :
          ClusterGoTo("tlsRoute", IngressMarked(r))
    BY <1>6 DEF ReconcileIngressNginx
  <2>3. IngressMarked(r).cluster = clusterWork.cluster
    BY <2>1, IngressMarks
  <2>4. QED
    BY <2>1, <2>2, <2>3, EndpointGoes
<1>7. CASE ReconcileAPIRoute
  <2> DEFINE w == [clusterWork EXCEPT !.outcome = "reconciled"]
  <2>1. clusterWork \in ClusterLocals /\ kubevirtCluster'
        /\ UNCHANGED <<cluster, clusterQueued>> /\ clusterStep # "idle"
    BY <1>1, <1>7 DEF ReconcileAPIRoute, EndpointKept, ClusterCalls
  <2>2. w.cluster = clusterWork.cluster /\ w.status = clusterWork.status
    BY <2>1 DEF ClusterLocals
  <2>3. clusterStep' = "status" /\ clusterWork' = w
    BY <1>7 DEF ReconcileAPIRoute, ClusterReturn, ClusterGoTo
  <2> HIDE DEF w
  <2>4. w.status.endpoint # None =>
          apiRoute' = [host |-> w.status.endpoint, parent |-> ResolveGateway(w.cluster)]
    BY <1>7, <2>2 DEF ReconcileAPIRoute, Endpoint
  <2>5. QED
    BY <2>1, <2>2, <2>3, <2>4 DEF EndpointKept, EndpointRouted, ResolveGateway
<1>8. CASE FailCluster
  <2> DEFINE w == IF clusterStep = "ingress" THEN IngressMarked("errorReconciling") ELSE clusterWork
             v == [w EXCEPT !.outcome = "failed"]
  <2>1. clusterWork \in ClusterLocals /\ UNCHANGED <<cluster, clusterQueued>> /\ clusterStep # "idle"
    BY <1>1, <1>8 DEF FailCluster
  <2>2. w \in ClusterLocals /\ w.cluster = clusterWork.cluster
    BY <2>1, IngressMarks
  <2>3. ClusterGoTo("status", v)
    BY <1>8 DEF FailCluster, ClusterReturn
  <2> HIDE DEF w
  <2>4. v.cluster = clusterWork.cluster /\ v.outcome = "failed"
    BY <2>2 DEF ClusterLocals
  <2> HIDE DEF v
  <2>5. QED
    BY <2>1, <2>3, <2>4, EndpointEndsEarly
<1>9. CASE PatchCluster
  <2>1. clusterStep' = "idle" /\ clusterOutcome' = clusterWork.outcome
        /\ status' = clusterWork.status /\ UNCHANGED <<cluster, kubevirtCluster, apiRoute>>
        /\ clusterStep = "status" /\ (~clusterQueued' => ~clusterQueued)
    BY <1>9 DEF PatchCluster, StopCluster
  <2>2. QED
    BY <2>1 DEF EndpointKept, EndpointRouted, ResolveGateway
<1>10. CASE FailClusterPatch
  BY <1>10 DEF FailClusterPatch, StopCluster, EndpointKept, EndpointRouted
<1>11. QED
  BY <1>3, <1>4, <1>5, <1>6, <1>7, <1>8, <1>9, <1>10 DEF ReconcileCluster

\* Only a change of the cluster makes a copy of it stale, and it queues the
\* reconciler; a restart forgets the copy.
LEMMA EndpointOutside ==
  ASSUME EndpointKept, EndpointRouted, UserStep \/ RemoteStep \/ Restart \/ WorkloadStep
  PROVE  EndpointKept' /\ EndpointRouted'
<1>1. CASE \E c \in Clusters : ChangeCluster(c)
  BY <1>1 DEF ChangeCluster, ClusterEvent, EndpointKept, EndpointRouted
<1>2. CASE Restart
  BY <1>2 DEF Restart, StopCluster, EndpointKept, EndpointRouted
<1>3. CASE UNCHANGED clusterVars /\ UNCHANGED cluster
  BY <1>3 DEF clusterVars, clusterWorker, EndpointKept, EndpointRouted, ResolveGateway
<1>4. WorkloadStep => UNCHANGED cluster
  BY DEF WorkloadStep, ReconcileWorkload, BeginWorkload, FindGatewayIP, WatchServices,
         ListServices, NextService, PatchIngressIP, ReconcileService, ReconcileHTTPRoute,
         ReconcileTLSRoute, FailWorkload, Quiet, sharedVars
<1>5. RemoteStep => UNCHANGED cluster
  BY DEF RemoteStep, StartControlPlane, Connect, Disconnect, CreateService, ChangeService,
         RemoteEvent, sharedVars
<1>6. UserStep => (\E c \in Clusters : ChangeCluster(c)) \/ (UNCHANGED clusterVars /\ UNCHANGED cluster)
  BY DEF UserStep, ChangeGateway, ChangeURL
<1>7. QED
  BY <1>1, <1>2, <1>3, <1>4, <1>5, <1>6 DEF RemoteStep, WorkloadStep
-----------------------------------------------------------------------------
(* The services and their routes.                                          *)

\* Steps of others: a change of a service is an event as long as services are
\* watched, and only the worker starts to watch them.
LEMMA ServicesOutside ==
  ASSUME ServicesInv,
         UNCHANGED <<publishedVars, workloadStep, workloadWork, workloadOutcome>>,
         watched' => watched,
         workloadQueued => workloadQueued',
         watched' /\ ~workloadQueued' => UNCHANGED remote
  PROVE  ServicesInv'
<1> USE DEF publishedVars
<1>1. ServingOK' /\ IPKnown'
  BY DEF ServicesInv, ServingOK, Serving, IPKnown, WantedRoute
<1>2. ServicesKept'
  BY DEF ServicesInv, ServicesKept, Serving, InHand, Present, Made, WantedRoute
<1>3. PublishedAlike'
  BY DEF ServicesInv, PublishedAlike, WorkloadSettled, Present
<1>4. QED
  BY <1>1, <1>2, <1>3 DEF ServicesInv

\* A reconciliation that ends without having seen to every service says so.
LEMMA ServicesEndEarly ==
  ASSUME NEW o \in {"none", "ignored", "patched", "failed"}, StopWorkload(o)
  PROVE  ServicesInv'
  BY DEF StopWorkload, ServicesInv, PublishedAlike, WorkloadSettled, ServingOK, Serving,
         ServicesKept, IPKnown

\* Before the services are listed nothing is claimed of them.
LEMMA ServicesNotListed ==
  ASSUME NEW s \in {"gateway", "watch", "list"}, workloadStep' = s,
         s # "gateway" => workloadWork'.ip \in IPs
  PROVE  ServicesInv'
  BY DEF ServicesInv, PublishedAlike, WorkloadSettled, ServingOK, Serving, ServicesKept, IPKnown

\* The calls of the workload reconciler, one by one.
LEMMA ServicesStep ==
  ASSUME WorkloadTypeOK, SharedTypeOK, ServicesInv, ReconcileWorkload
  PROVE  ServicesInv'
<1>1. ASSUME workloadStep # "idle"
      PROVE  /\ workloadWork \in WorkloadLocals
             /\ workloadWork.ip \in {None} \cup IPs /\ workloadWork.left \in SUBSET Services
  BY <1>1, WorkloadAtWork
<1>2. ASSUME workloadStep \notin {"idle", "gateway"} PROVE workloadWork.ip \in IPs
  BY <1>2 DEF ServicesInv, IPKnown
<1>3. CASE BeginWorkload
  BY <1>3, ServicesEndEarly, ServicesNotListed DEF BeginWorkload
<1>4. CASE FindGatewayIP
  <2> DEFINE ip == GatewayIP(workloadWork.parent)
             w == [workloadWork EXCEPT !.ip = ip]
  <2>1. workloadWork \in WorkloadLocals /\ workloadWork.parent \in Gateways
    BY <1>4, WorkloadAtWork DEF FindGatewayIP
  <2>2. ip \in {None} \cup IPs
    <3>1. gateways[workloadWork.parent] \in {None} \cup Addresses
      BY <2>1 DEF SharedTypeOK
    <3>2. QED
      BY <3>1, AddressTyping DEF GatewayIP
  <2> HIDE DEF ip
  <2>3. w.ip = ip
    BY <2>1 DEF WorkloadLocals
  <2> HIDE DEF w
  <2>4. CASE Ignore \/ Retry
    BY <2>4, ServicesEndEarly DEF Ignore, Retry
  <2>5. CASE ip # None /\ WorkloadGoTo("watch", w)
    BY <2>2, <2>3, <2>5, ServicesNotListed DEF WorkloadGoTo
  <2>6. QED
    BY <1>4, <2>4, <2>5 DEF FindGatewayIP, ip, w
<1>5. CASE WatchServices
  BY <1>2, <1>5, ServicesEndEarly, ServicesNotListed DEF WatchServices, Ignore
<1>6. CASE ListServices
  <2> DEFINE w == [workloadWork EXCEPT !.list = remote, !.left = Present]
  <2>1. workloadWork \in WorkloadLocals /\ workloadWork.ip \in IPs
    BY <1>1, <1>2, <1>6 DEF ListServices
  <2>2. w.list = remote /\ w.left = Present /\ w.ip = workloadWork.ip
    BY <2>1 DEF WorkloadLocals
  <2> HIDE DEF w
  <2>3. CASE Retry
    BY <2>3, ServicesEndEarly DEF Retry
  <2>4. CASE WorkloadGoTo("next", w)
    <3>1. workloadStep' = "next" /\ workloadWork' = w /\ remote' = remote
      BY <1>6, <2>4 DEF WorkloadGoTo, ListServices, Quiet, remoteVars
    <3>2. ServicesKept'
      BY <2>2, <3>1 DEF ServicesKept, InHand, Serving, Present
    <3>3. QED
      BY <2>1, <2>2, <3>1, <3>2
      DEF ServicesInv, PublishedAlike, WorkloadSettled, ServingOK, Serving, IPKnown
  <2>5. QED
    BY <1>6, <2>3, <2>4 DEF ListServices, w
<1>7. CASE NextService
  <2>1. /\ workloadStep = "next" /\ workloadWork \in WorkloadLocals
        /\ workloadWork.left \in SUBSET Services /\ workloadWork.ip \in IPs
    BY <1>1, <1>2, <1>7 DEF NextService
  <2>2. ASSUME watched, ~workloadQueued
        PROVE  /\ workloadWork.list = remote
               /\ \A s \in Present \ workloadWork.left : Made(s)
    BY <2>1, <2>2 DEF ServicesInv, ServicesKept, InHand, Serving
  <2>3. CASE /\ workloadWork.left = {} /\ StopWorkload("reconciled") /\ Quiet
             /\ UNCHANGED <<workloadQueued, watched, publishedVars>>
    <3>1. /\ workloadStep' = "idle"
          /\ UNCHANGED <<remote, workloadQueued, watched, exported, httpRoutes, tlsRoutes>>
      BY <2>3 DEF StopWorkload, Quiet, remoteVars, publishedVars
    <3>2. PublishedAlike'
      <4>1. SUFFICES ASSUME watched, ~workloadQueued, NEW s \in Present, NEW u \in Present
                     PROVE  /\ s \in exported
                            /\ remote[s] = remote[u] /\ remote[s] \in IPs
                            /\ httpRoutes[s] = tlsRoutes[u] /\ httpRoutes[s] # None
        BY <3>1 DEF PublishedAlike, WorkloadSettled, Present
      <4>2. Made(s) /\ Made(u)
        BY <2>2, <2>3, <4>1
      <4>3. WantedRoute # None
        BY <2>1, WantedTyping
      <4>4. QED
        BY <2>1, <4>2, <4>3 DEF Made
    <3>3. QED
      BY <3>1, <3>2 DEF ServicesInv, ServingOK, Serving, ServicesKept, IPKnown
  <2>4. ASSUME NEW s \in workloadWork.left, HasGatewayIP(s), Quiet,
               WorkloadGoTo("service", [workloadWork EXCEPT !.left = @ \ {s}, !.service = s]),
               UNCHANGED <<watched, publishedVars>>
        PROVE  ServicesInv'
    <3> DEFINE w == [workloadWork EXCEPT !.left = @ \ {s}, !.service = s]
    <3>1. /\ w.left = workloadWork.left \ {s} /\ w.service = s /\ w.ip = workloadWork.ip
          /\ w.list = workloadWork.list /\ w.zones = workloadWork.zones
          /\ w.parent = workloadWork.parent
      BY <2>1 DEF WorkloadLocals
    <3> HIDE DEF w
    <3>2. /\ workloadStep' = "service" /\ workloadWork' = w
          /\ UNCHANGED <<remote, workloadQueued, watched, exported, httpRoutes, tlsRoutes>>
      BY <2>4 DEF WorkloadGoTo, Quiet, remoteVars, publishedVars, w
    <3>3. \A x : Made(x)' = Made(x)
      BY <3>1, <3>2 DEF Made, WantedRoute
    <3>4. ServicesKept'
      BY <2>2, <2>4, <3>1, <3>2, <3>3 DEF ServicesKept, Serving, InHand, Present, HasGatewayIP
    <3>5. QED
      BY <2>1, <3>1, <3>2, <3>4
      DEF ServicesInv, PublishedAlike, WorkloadSettled, ServingOK, Serving, IPKnown
  <2>5. ASSUME NEW s \in workloadWork.left, PatchIngressIP(s)
        PROVE  ServicesInv'
    BY <2>5, ServicesEndEarly DEF PatchIngressIP, Retry
  <2>6. QED
    BY <1>7, <2>3, <2>4, <2>5 DEF NextService
<1>8. ASSUME Serving PROVE workloadWork.service \in Services
  BY <1>8 DEF ServicesInv, ServingOK
<1>9. CASE ReconcileService
  <2>1. /\ workloadStep = "service" /\ workloadStep' = "http" /\ workloadWork' = workloadWork
        /\ exported' = exported \cup {workloadWork.service}
        /\ UNCHANGED <<remote, workloadQueued, watched, httpRoutes, tlsRoutes>>
    BY <1>9 DEF ReconcileService, WorkloadGoTo, Quiet, remoteVars
  <2>2. \A x : Made(x) => Made(x)'
    BY <2>1 DEF Made, WantedRoute
  <2>3. ServicesKept'
    BY <2>1, <2>2 DEF ServicesInv, ServicesKept, Serving, InHand, Present
  <2>4. QED
    BY <1>2, <1>8, <2>1, <2>3
    DEF ServicesInv, PublishedAlike, WorkloadSettled, ServingOK, Serving, IPKnown
<1>10. CASE ReconcileHTTPRoute
  <2>1. /\ workloadStep = "http" /\ workloadStep' = "tls" /\ workloadWork' = workloadWork
        /\ httpRoutes' = [httpRoutes EXCEPT ![workloadWork.service] = WantedRoute]
        /\ UNCHANGED <<remote, workloadQueued, watched, exported, tlsRoutes>>
    BY <1>10 DEF ReconcileHTTPRoute, WorkloadGoTo, Quiet, remoteVars
  <2>2. workloadWork.service \in Services /\ DOMAIN httpRoutes = Services
    BY <1>8, <2>1 DEF Serving, WorkloadTypeOK
  <2>3. /\ httpRoutes'[workloadWork.service] = WantedRoute
        /\ \A x \in Services \ {workloadWork.service} : httpRoutes'[x] = httpRoutes[x]
    BY <2>1, <2>2
  <2>4. \A x \in Services : Made(x) => Made(x)'
    BY <2>1, <2>3 DEF Made, WantedRoute
  <2>5. ServicesKept'
    BY <2>1, <2>4 DEF ServicesInv, ServicesKept, Serving, InHand, Present
  <2>6. WantedRoute' = WantedRoute
    BY <2>1 DEF WantedRoute
  <2>7. QED
    BY <1>2, <1>8, <2>1, <2>3, <2>5, <2>6
    DEF ServicesInv, PublishedAlike, WorkloadSettled, ServingOK, Serving, IPKnown
<1>11. CASE ReconcileTLSRoute
  <2>1. /\ workloadStep = "tls" /\ workloadStep' = "next" /\ workloadWork' = workloadWork
        /\ tlsRoutes' = [tlsRoutes EXCEPT ![workloadWork.service] = WantedRoute]
        /\ UNCHANGED <<remote, workloadQueued, watched, exported, httpRoutes>>
    BY <1>11 DEF ReconcileTLSRoute, WorkloadGoTo, Quiet, remoteVars
  <2>2. workloadWork.service \in Services /\ DOMAIN tlsRoutes = Services
    BY <1>8, <2>1 DEF Serving, WorkloadTypeOK
  <2>3. /\ tlsRoutes'[workloadWork.service] = WantedRoute
        /\ \A x \in Services \ {workloadWork.service} : tlsRoutes'[x] = tlsRoutes[x]
    BY <2>1, <2>2
  <2>4. \A x \in Services : Made(x) => Made(x)'
    BY <2>1, <2>3 DEF Made, WantedRoute
  <2>5. workloadWork.service \in exported /\ httpRoutes[workloadWork.service] = WantedRoute
    BY <2>1 DEF ServicesInv, ServingOK, Serving
  <2>6. remote[workloadWork.service] = workloadWork.ip => Made(workloadWork.service)'
    BY <2>1, <2>3, <2>5 DEF Made, WantedRoute
  <2>7. ServicesKept'
    BY <2>1, <2>4, <2>6 DEF ServicesInv, ServicesKept, Serving, InHand, Present
  <2>8. QED
    BY <1>2, <2>1, <2>7
    DEF ServicesInv, PublishedAlike, WorkloadSettled, ServingOK, Serving, IPKnown
<1>12. CASE FailWorkload
  BY <1>12, ServicesEndEarly DEF FailWorkload, AfterFailure, Retry
<1>13. QED
  BY <1>3, <1>4, <1>5, <1>6, <1>7, <1>9, <1>10, <1>11, <1>12 DEF ReconcileWorkload

\* A step of anybody else is an event of the workload, or none of its business.
LEMMA ServicesElsewhere ==
  ASSUME TypeOK, ServicesInv, ClusterStep \/ UserStep \/ RemoteStep \/ Restart \/ UNCHANGED vars
  PROVE  ServicesInv'
<1>1. workloadQueued \in BOOLEAN /\ watched \in BOOLEAN
  BY DEF TypeOK, WorkloadTypeOK
<1>2. ASSUME TellWorkload PROVE ServicesInv'
  BY <1>1, <1>2, ServicesOutside DEF TellWorkload, remoteVars
<1>3. ASSUME UNCHANGED workloadVars PROVE ServicesInv'
  BY <1>1, <1>3, ServicesOutside DEF workloadVars, workloadWorker, remoteVars
<1>4. CASE Restart
  BY <1>4, ServicesEndEarly DEF Restart
<1>5. CASE StartControlPlane \/ Connect
  BY <1>1, <1>5, ServicesOutside DEF StartControlPlane, Connect, workloadWorker
<1>6. CASE Disconnect
  BY <1>1, <1>6, ServicesOutside DEF Disconnect, workloadWorker
<1>7. ASSUME NEW s \in Services, NEW ip, RemoteEvent(s, ip) PROVE ServicesInv'
  <2>1. UNCHANGED <<publishedVars, workloadStep, workloadWork, workloadOutcome>>
        /\ watched' = watched /\ workloadQueued' = (workloadQueued \/ watched)
    BY <1>7 DEF RemoteEvent, ServiceToWorkload
  <2>2. (workloadQueued => workloadQueued') /\ ~(watched' /\ ~workloadQueued')
    BY <1>1, <2>1
  <2>3. QED
    BY <2>1, <2>2, ServicesOutside
<1>8. CASE RemoteStep
  BY <1>5, <1>6, <1>7, <1>8 DEF RemoteStep, CreateService, ChangeService
<1>9. CASE ClusterStep \/ UserStep
  BY <1>2, <1>3, <1>9 DEF ClusterStep, UserStep
<1>10. CASE UNCHANGED vars
  BY <1>3, <1>10 DEF vars
<1>11. QED
  BY <1>4, <1>8, <1>9, <1>10
-----------------------------------------------------------------------------
\* At first there is nothing to keep.
LEMMA IngressInit == Init => IngressInv
<1> SUFFICES ASSUME Init PROVE IngressInv
  OBVIOUS
<1> USE DEF Init
<1>1. SharedTypeOK
  BY GatewayAssumption DEF SharedInit, SharedTypeOK
<1>2. ClusterTypeOK
  BY DEF ClusterInit, ClusterTypeOK, Status, Outcomes
<1>3. WorkloadTypeOK
  BY DEF WorkloadInit, WorkloadTypeOK, Listed
<1>4. AddressesKnown /\ EndpointRouted /\ EndpointKept
  BY DEF ClusterInit, AddressesKnown, EndpointRouted, EndpointKept
<1>5. ServicesInv
  BY DEF WorkloadInit, ServicesInv, PublishedAlike, WorkloadSettled, ServingOK, Serving,
         ServicesKept, IPKnown
<1>6. QED
  BY <1>1, <1>2, <1>3, <1>4, <1>5 DEF IngressInv, TypeOK

\* Every step keeps the invariant.
LEMMA IngressNext == IngressInv /\ [Next]_vars => IngressInv'
<1> SUFFICES ASSUME IngressInv, [Next]_vars PROVE IngressInv'
  OBVIOUS
<1> USE DEF IngressInv
<1>1. TypeOK' /\ AddressesKnown'
  BY TypeNext DEF ServicesInv
<1>2. EndpointKept' /\ EndpointRouted'
  <2>1. CASE ClusterStep
    BY <2>1, EndpointStep DEF ClusterStep, TypeOK
  <2>2. CASE UserStep \/ RemoteStep \/ Restart \/ WorkloadStep
    BY <2>2, EndpointOutside
  <2>3. CASE UNCHANGED vars
    BY <2>3 DEF vars, clusterVars, clusterWorker, sharedVars, EndpointKept, EndpointRouted,
                ResolveGateway
  <2>4. QED
    BY <2>1, <2>2, <2>3 DEF Next
<1>3. ServicesInv'
  <2>1. CASE WorkloadStep
    BY <2>1, ServicesStep DEF WorkloadStep, TypeOK
  <2>2. CASE ClusterStep \/ UserStep \/ RemoteStep \/ Restart \/ UNCHANGED vars
    BY <2>2, ServicesElsewhere
  <2>3. QED
    BY <2>1, <2>2 DEF Next
<1>4. QED
  BY <1>1, <1>2, <1>3

\* For any gateways, clusters, services and numbers of changes and faults.
THEOREM IngressInvariant == Spec => []IngressInv
  BY IngressInit, IngressNext, PTL DEF Spec

\* Every variable of the two reconcilers keeps its type.
THEOREM IngressTypeCorrect == Spec => []TypeOK
<1>1. IngressInv => TypeOK
  BY DEF IngressInv
<1>2. QED
  BY <1>1, IngressInvariant, PTL

\* A cluster reconciler at rest after a full reconciliation reports the
\* endpoint its route publishes, on the gateway the cluster names.
THEOREM EndpointIsRouted == Spec => []EndpointRouted
<1>1. IngressInv => EndpointRouted
  BY DEF IngressInv
<1>2. QED
  BY <1>1, IngressInvariant, PTL

\* A workload reconciler at rest after a full reconciliation, and still
\* watching, has published every service alike.
THEOREM ServicesPublishedAlike == Spec => []PublishedAlike
<1>1. IngressInv => PublishedAlike
  BY DEF IngressInv, ServicesInv
<1>2. QED
  BY <1>1, IngressInvariant, PTL
============================================================================
