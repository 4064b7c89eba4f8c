------------------------------ MODULE Ingress ------------------------------
(***************************************************************************)
(* A workload cluster made reachable: the cluster reconciler writes the    *)
(* ingress-nginx workload, which is an event for the workload reconciler;  *)
(* both read the Dockyards cluster and its gateway, each at times of its   *)
(* own, in one process that may restart.                                   *)
(***************************************************************************)
EXTENDS Cluster, Workload

vars == <<sharedVars, changes, faults, clusterVars, workloadVars>>

Init == SharedInit /\ ClusterInit /\ WorkloadInit

TypeOK == SharedTypeOK /\ ClusterTypeOK /\ WorkloadTypeOK

\* What the cluster reconciler leaves alone: all of the workload's, except that
\* a change of the workload it writes is an event.
TellWorkload ==
  /\ workloadQueued' = (workloadQueued \/ ingressWorkload' # ingressWorkload)
  /\ UNCHANGED <<remoteVars, watched, publishedVars, workloadStep, workloadWork,
                 workloadOutcome>>

ClusterStep == ReconcileCluster /\ TellWorkload

WorkloadStep == ReconcileWorkload /\ UNCHANGED clusterVars

UserStep ==
  \/ /\ \E c \in Clusters : ChangeCluster(c)
     /\ TellWorkload
  \/ /\ \/ \E g \in Gateways, a \in {None} \cup Addresses : ChangeGateway(g, a)
        \/ \E u \in {None} \cup URLs : ChangeURL(u)
     /\ UNCHANGED <<clusterVars, workloadVars>>

RemoteStep ==
  /\ \/ StartControlPlane \/ Connect \/ Disconnect
     \/ \E s \in Services : CreateService(s)
     \/ \E s \in Services, ip \in {"absent", None} : ChangeService(s, ip)
  /\ UNCHANGED clusterVars

\* A restarted operator reconciles what exists, and connects anew.
Restart ==
  /\ Fault
  /\ clusterQueued' = TRUE /\ StopCluster("none")
  /\ workloadQueued' = (ingressWorkload # None) /\ StopWorkload("none")
  /\ connected' = FALSE /\ watched' = FALSE
  /\ UNCHANGED <<sharedVars, kubevirtCluster, status, apiRoute, controlPlane, remote,
                 publishedVars>>

Next == ClusterStep \/ WorkloadStep \/ UserStep \/ RemoteStep \/ Restart

\* The two workers go on as long as there is something to do.
Fairness == WF_vars(ClusterStep) /\ WF_vars(WorkloadStep)

Spec == Init /\ [][Next]_vars /\ Fairness
-----------------------------------------------------------------------------
\* When the cluster reconciler has nothing left to do and did not end early,
\* the endpoint it reports is the one its route publishes, on the gateway the
\* cluster names now.  The endpoint is written by the deferred patch, the route
\* before it, either may fail, and the cluster may change in between.
EndpointRouted ==
  ~clusterQueued /\ clusterStep = "idle" /\ clusterOutcome = "reconciled"
  /\ status.endpoint # None =>
    /\ kubevirtCluster
    /\ apiRoute = [host |-> status.endpoint, parent |-> ResolveGateway(cluster)]

WorkloadSettled ==
  ~workloadQueued /\ workloadStep = "idle" /\ workloadOutcome = "reconciled" /\ watched

\* When the workload reconciler has nothing left to do, did not end early, and
\* still watches the workload cluster, all services there have one address and
\* are published alike: the same host names, on the same gateway, for HTTP as
\* for TLS, backed by a service.  Every patch ends a reconciliation, so this
\* takes one for each service, and calls that fail between two routes.
PublishedAlike ==
  WorkloadSettled =>
    \A s, t \in Present :
      /\ s \in exported
      /\ remote[s] = remote[t] /\ remote[s] \in IPs
      /\ httpRoutes[s] = tlsRoutes[t] /\ httpRoutes[s] # None

Serviceable ==
  /\ ingressWorkload # None /\ controlPlane = "initialized" /\ connected
  /\ GatewayIP(ResolveGateway(cluster)) # None

Published(s) == s \in exported /\ httpRoutes[s] # None /\ tlsRoutes[s] # None

\* A service the reconciler is told of gets published, as long as the gateway
\* has an address and the workload cluster stays connected: although Reconcile
\* returns after each address it patches and nothing but the event of that
\* patch makes it go on.
ServicesPublished ==
  \A s \in Services :
    workloadQueued /\ Serviceable /\ s \in Present
      ~> Published(s) \/ ~Serviceable \/ s \notin Present

\* The workload reconciler is there for "keeping gateway hostnames aligned with
\* the Dockyards cluster DNS zones", says the README: when it has nothing left
\* to do, the routes carry the zones of the cluster.
HostnamesAligned ==
  WorkloadSettled /\ clusterStep = "idle" /\ ~clusterQueued =>
    \A s \in Present : httpRoutes[s].zones = cluster.zones
=============================================================================
