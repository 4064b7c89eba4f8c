------------------------------ MODULE Cluster ------------------------------
(***************************************************************************)
(* The cluster reconciler: it ensures the KubeVirt cluster, names the      *)
(* API endpoint, installs the ingress-nginx workload, pinned to an address *)
(* of the gateway, and publishes the API endpoint by a TLS route.          *)
(*                                                                         *)
(* One worker runs Reconcile, one API call per step.  The status is set in *)
(* the worker's copy and written when Reconcile returns, also with an      *)
(* error.                                                                  *)
(*                                                                         *)
(* A definition introduced by "Fault" is a wrong version of the one below  *)
(* it, which no specification uses.                                        *)
(***************************************************************************)
EXTENDS Gateway

CONSTANT EnableWorkloadIngress

VARIABLES
  kubevirtCluster,  \* whether it exists
  status,           \* of the cluster, as far as this reconciler writes it
  apiRoute,         \* the TLS route of the API endpoint, or None
  clusterQueued, clusterStep, clusterWork,
  clusterOutcome    \* how the last reconciliation ended

clusterWorker == <<clusterQueued, clusterStep, clusterWork, clusterOutcome>>
clusterVars   == <<kubevirtCluster, status, apiRoute, clusterWorker>>

Status == [endpoint : {None} \cup URLs,
           endpointReason : {"unknown", "reconciled", "waitingForListenerHostname"},
           ingressReason : {"unknown", "ready", "noDefaultIngressProvider",
                            "waitingForGatewayAddress", "errorReconciling"}]

Outcomes == {"none", "ignored", "failed", "reconciled"}

ClusterLocals == [cluster : Clusters, status : Status, outcome : Outcomes,
                  addresses : {None} \cup Addresses]

\* A worker at rest has no local variables.
ASSUME ClusterAssumption == None \notin ClusterLocals

ClusterTypeOK ==
  /\ kubevirtCluster \in BOOLEAN
  /\ status \in Status
  /\ apiRoute \in {None} \cup [host : URLs, parent : Gateways]
  /\ clusterQueued \in BOOLEAN
  /\ clusterStep \in {"idle", "kubevirtCluster", "gateway", "ingress", "tlsRoute", "status"}
  /\ clusterWork \in {None} \cup ClusterLocals
  /\ (clusterStep = "idle") = (clusterWork = None)
  /\ clusterOutcome \in Outcomes

ClusterInit ==
  /\ kubevirtCluster = FALSE
  /\ status = [endpoint |-> None, endpointReason |-> "unknown", ingressReason |-> "unknown"]
  /\ apiRoute = None
  /\ clusterQueued = TRUE
  /\ clusterStep = "idle" /\ clusterWork = None
  /\ clusterOutcome = "none"
-----------------------------------------------------------------------------
\* Fault: only the creation of a cluster is an event.
ClusterEventMissed == clusterQueued

ClusterEvent == TRUE

\* Its DNS zones too are written to the cluster, by another controller.
ChangeCluster(c) ==
  /\ Change
  /\ c # cluster
  /\ cluster' = c
  /\ clusterQueued' = ClusterEvent
  /\ UNCHANGED <<gateways, externalURL, ingressWorkload, kubevirtCluster, status, apiRoute,
                 clusterStep, clusterWork, clusterOutcome>>
-----------------------------------------------------------------------------
(* Reconcile.                                                              *)

ClusterGoTo(s, w) == clusterStep' = s /\ clusterWork' = w

ClusterReturn(w, outcome) == ClusterGoTo("status", [w EXCEPT !.outcome = outcome])

\* What no call of the reconciliation changes.
ClusterCalls ==
  UNCHANGED <<gateways, cluster, externalURL, changes, faults, status, clusterQueued, clusterOutcome>>

BeginCluster ==
  /\ clusterStep = "idle" /\ clusterQueued
  /\ clusterQueued' = FALSE
  /\ ClusterGoTo("kubevirtCluster", [cluster |-> cluster, status |-> status,
                                     outcome |-> "none", addresses |-> None])
  /\ UNCHANGED <<gateways, cluster, externalURL, ingressWorkload, changes, faults,
                 kubevirtCluster, status, apiRoute, clusterOutcome>>

ReconcileKubevirtCluster ==
  /\ clusterStep = "kubevirtCluster"
  /\ kubevirtCluster' = TRUE
  /\ ClusterGoTo("gateway", clusterWork)
  /\ UNCHANGED <<ingressWorkload, apiRoute>>
  /\ ClusterCalls

\* Without an external URL an endpoint that was set before is kept.
ReconcileAPIEndpoint(w) ==
  IF externalURL = None
  THEN [w EXCEPT !.status.endpointReason = "waitingForListenerHostname"]
  ELSE [w EXCEPT !.status.endpoint = externalURL, !.status.endpointReason = "reconciled"]

LookUpGateway ==
  /\ clusterStep = "gateway"
  /\ LET addresses == gateways[ResolveGateway(clusterWork.cluster)] IN
     \/ addresses = None /\ ClusterReturn(clusterWork, "ignored")
     \/ /\ addresses # None
        /\ ClusterGoTo("ingress",
             ReconcileAPIEndpoint([clusterWork EXCEPT !.addresses = addresses]))
  /\ UNCHANGED <<kubevirtCluster, ingressWorkload, apiRoute>>
  /\ ClusterCalls

IngressMarked(reason) == [clusterWork EXCEPT !.status.ingressReason = reason]

\* The input of the workload, None while the gateway has no address for it.
IngressInput ==
  IF EnableWorkloadIngress THEN LastIPv4(clusterWork.addresses) ELSE Unpinned

\* A workload that exists is left alone when it is no longer wanted.
ReconcileIngressNginx ==
  /\ clusterStep = "ingress"
  /\ \/ /\ ~clusterWork.cluster.ingress
        /\ ClusterGoTo("tlsRoute", IngressMarked("noDefaultIngressProvider"))
        /\ UNCHANGED ingressWorkload
     \/ /\ clusterWork.cluster.ingress /\ IngressInput = None
        /\ ClusterGoTo("tlsRoute", IngressMarked("waitingForGatewayAddress"))
        /\ UNCHANGED ingressWorkload
     \/ /\ clusterWork.cluster.ingress /\ IngressInput # None
        /\ ingressWorkload' = IngressInput
        /\ ClusterGoTo("tlsRoute", IngressMarked("ready"))
  /\ UNCHANGED <<kubevirtCluster, apiRoute>>
  /\ ClusterCalls

Endpoint == clusterWork.status.endpoint

ReconcileAPIRoute ==
  /\ clusterStep = "tlsRoute"
  /\ apiRoute' = IF Endpoint = None THEN apiRoute
                 ELSE [host |-> Endpoint, parent |-> ResolveGateway(clusterWork.cluster)]
  /\ ClusterReturn(clusterWork, "reconciled")
  /\ UNCHANGED <<kubevirtCluster, ingressWorkload>>
  /\ ClusterCalls

FailCluster ==
  /\ clusterStep \in {"kubevirtCluster", "gateway", "ingress", "tlsRoute"}
  /\ Fault
  /\ ClusterReturn(IF clusterStep = "ingress" THEN IngressMarked("errorReconciling")
                   ELSE clusterWork, "failed")
  /\ UNCHANGED <<gateways, cluster, externalURL, ingressWorkload, kubevirtCluster, status,
                 apiRoute, clusterQueued, clusterOutcome>>

StopCluster(outcome) ==
  clusterStep' = "idle" /\ clusterWork' = None /\ clusterOutcome' = outcome

\* A changed status is an event of the cluster.
PatchCluster ==
  /\ clusterStep = "status"
  /\ status' = clusterWork.status
  /\ clusterQueued' = (clusterQueued \/ status' # status \/ clusterWork.outcome = "failed")
  /\ StopCluster(clusterWork.outcome)
  /\ UNCHANGED <<gateways, cluster, externalURL, ingressWorkload, changes, faults,
                 kubevirtCluster, apiRoute>>

FailClusterPatch ==
  /\ clusterStep = "status"
  /\ Fault
  /\ clusterQueued' = TRUE
  /\ StopCluster("failed")
  /\ UNCHANGED <<gateways, cluster, externalURL, ingressWorkload, kubevirtCluster, status,
                 apiRoute>>

ReconcileCluster ==
  \/ BeginCluster \/ ReconcileKubevirtCluster \/ LookUpGateway \/ ReconcileIngressNginx
  \/ ReconcileAPIRoute \/ FailCluster \/ PatchCluster \/ FailClusterPatch
=============================================================================
