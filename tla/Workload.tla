------------------------------ MODULE Workload -----------------------------
(***************************************************************************)
(* The workload reconciler: it gives the load balancer services of a       *)
(* workload, found in the workload cluster, the address of the gateway,    *)
(* and publishes each by a service, an HTTP route and a TLS route in the   *)
(* management cluster.                                                     *)
(*                                                                         *)
(* The workload cluster is reached through a cluster cache, a library,     *)
(* which connects and disconnects on its own; a disconnected cluster loses *)
(* its watches.  One worker runs Reconcile, one API call per step.         *)
(*                                                                         *)
(* A definition introduced by "Fault" is a wrong version of the one below  *)
(* it, which no specification uses.                                        *)
(***************************************************************************)
EXTENDS Gateway

CONSTANT Services  \* the load balancer services of the workload

VARIABLES
  controlPlane,  \* of the Cluster API cluster
  connected,     \* the cluster cache is connected to the workload cluster
  watched,       \* and watches its services
  remote,        \* the services of the workload cluster, each with its address
  exported,      \* the services of the management cluster
  httpRoutes, tlsRoutes,
  workloadQueued, workloadStep, workloadWork,
  workloadOutcome

remoteVars     == <<controlPlane, connected, remote>>
publishedVars  == <<exported, httpRoutes, tlsRoutes>>
workloadWorker == <<workloadQueued, workloadStep, workloadWork, workloadOutcome>>
sharedVars     == <<gateways, cluster, externalURL, ingressWorkload>>
workloadVars   == <<remoteVars, watched, publishedVars, workloadWorker>>

ZoneSets == {c.zones : c \in Clusters}

Route == [zones : ZoneSets, parent : Gateways]

Listed == [Services -> {"absent", None} \cup IPs]

WorkloadLocals == [zones : ZoneSets, parent : Gateways, ip : {None} \cup IPs, list : Listed,
                   left : SUBSET Services, service : {None} \cup Services]

\* The absence of an object is none.
ASSUME WorkloadAssumption == None \notin WorkloadLocals \cup Route

WorkloadTypeOK ==
  /\ controlPlane \in {"missing", "pending", "initialized"}
  /\ connected \in BOOLEAN
  /\ watched \in BOOLEAN
  /\ watched => connected
  /\ remote \in Listed
  /\ exported \subseteq Services
  /\ httpRoutes \in [Services -> {None} \cup Route]
  /\ tlsRoutes \in [Services -> {None} \cup Route]
  /\ workloadQueued \in BOOLEAN
  /\ workloadStep \in {"idle", "gateway", "watch", "list", "next", "service", "http", "tls"}
  /\ workloadWork \in {None} \cup WorkloadLocals
  /\ (workloadStep = "idle") = (workloadWork = None)
  /\ workloadOutcome \in {"none", "ignored", "patched", "failed", "reconciled"}

WorkloadInit ==
  /\ controlPlane = "missing"
  /\ connected = FALSE /\ watched = FALSE
  /\ remote = [s \in Services |-> "absent"]
  /\ exported = {}
  /\ httpRoutes = [s \in Services |-> None]
  /\ tlsRoutes = [s \in Services |-> None]
  /\ workloadQueued = FALSE
  /\ workloadStep = "idle" /\ workloadWork = None
  /\ workloadOutcome = "none"
-----------------------------------------------------------------------------
(* The workload cluster.                                                   *)

\* The cluster's control plane starts; nothing here watches it.
StartControlPlane ==
  /\ \/ controlPlane = "missing" /\ controlPlane' = "pending"
     \/ controlPlane = "pending" /\ controlPlane' = "initialized"
  /\ UNCHANGED <<sharedVars, changes, faults, connected, remote, watched, publishedVars,
                 workloadWorker>>

Connect ==
  /\ controlPlane = "initialized" /\ ~connected
  /\ connected' = TRUE
  /\ UNCHANGED <<sharedVars, changes, faults, controlPlane, remote, watched, publishedVars,
                 workloadWorker>>

Disconnect ==
  /\ Fault
  /\ connected
  /\ connected' = FALSE /\ watched' = FALSE
  /\ UNCHANGED <<sharedVars, controlPlane, remote, publishedVars, workloadWorker>>

\* Fault: the events of services that exist already are dropped.
ServiceToWorkloadCreated(before) == watched /\ before = "absent"

\* The event of a service, of which it is known what it was before, leads to a
\* reconciliation of its workload as long as services are watched.
ServiceToWorkload(before) == watched

RemoteEvent(s, ip) ==
  /\ controlPlane = "initialized"
  /\ remote' = [remote EXCEPT ![s] = ip]
  /\ workloadQueued' = (workloadQueued \/ ServiceToWorkload(remote[s]))
  /\ UNCHANGED <<sharedVars, controlPlane, connected, watched, publishedVars,
                 workloadStep, workloadWork, workloadOutcome>>

CreateService(s) ==
  remote[s] = "absent" /\ RemoteEvent(s, None) /\ UNCHANGED <<changes, faults>>

\* A service is deleted, or its cluster takes its address away.
ChangeService(s, ip) == remote[s] \notin {"absent", ip} /\ RemoteEvent(s, ip) /\ Change
-----------------------------------------------------------------------------
(* Reconcile.                                                              *)

WorkloadGoTo(s, w) ==
  workloadStep' = s /\ workloadWork' = w /\ UNCHANGED <<workloadOutcome, workloadQueued>>

\* Fault: the worker's copy outlives the reconciliation.
StopWorkloadLeaking(outcome) ==
  workloadStep' = "idle" /\ UNCHANGED workloadWork /\ workloadOutcome' = outcome

StopWorkload(outcome) ==
  workloadStep' = "idle" /\ workloadWork' = None /\ workloadOutcome' = outcome

\* Without a cluster, a gateway, an address or a connection the workload is
\* ignored, and nothing is tried again.
Ignore == StopWorkload("ignored") /\ UNCHANGED workloadQueued

Retry == StopWorkload("failed") /\ workloadQueued' = TRUE

Nothing == [s \in Services |-> "absent"]

Quiet == UNCHANGED <<sharedVars, changes, faults, remoteVars>>

BeginWorkload ==
  /\ workloadStep = "idle" /\ workloadQueued
  /\ workloadQueued' = FALSE
  /\ \/ /\ ingressWorkload = None \/ controlPlane # "initialized"
        /\ StopWorkload("ignored")
     \/ /\ ingressWorkload # None /\ controlPlane = "initialized"
        /\ workloadStep' = "gateway"
        /\ workloadWork' = [zones |-> cluster.zones, parent |-> ResolveGateway(cluster),
                            ip |-> None, list |-> Nothing, left |-> {}, service |-> None]
        /\ UNCHANGED workloadOutcome
  /\ UNCHANGED <<watched, publishedVars>>
  /\ Quiet

Panics(g) == gateways[g] # None /\ UntypedFirst(gateways[g])

GatewayIP(g) ==
  IF gateways[g] = None \/ Panics(g) THEN None ELSE FirstIPv4(gateways[g])

\* The manager recovers a panic and tries again, as after an error.
FindGatewayIP ==
  /\ workloadStep = "gateway"
  /\ LET g == workloadWork.parent
         ip == GatewayIP(g) IN
     \/ Panics(g) /\ Retry
     \/ ~Panics(g) /\ ip = None /\ Ignore
     \/ ip # None /\ WorkloadGoTo("watch", [workloadWork EXCEPT !.ip = ip])
  /\ UNCHANGED <<watched, publishedVars>>
  /\ Quiet

Present == {s \in Services : remote[s] # "absent"}

\* A new watch delivers the services that exist.
WatchServices ==
  /\ workloadStep = "watch"
  /\ \/ ~connected /\ Ignore /\ UNCHANGED watched
     \/ /\ connected
        /\ watched' = TRUE
        /\ workloadQueued' = (workloadQueued \/ (~watched /\ Present # {}))
        /\ workloadStep' = "list"
        /\ UNCHANGED <<workloadWork, workloadOutcome>>
  /\ UNCHANGED publishedVars
  /\ Quiet

ListServices ==
  /\ workloadStep = "list"
  /\ \/ ~connected /\ Retry
     \/ /\ connected
        /\ WorkloadGoTo("next", [workloadWork EXCEPT !.list = remote, !.left = Present])
  /\ UNCHANGED <<watched, publishedVars>>
  /\ Quiet

HasGatewayIP(s) == workloadWork.list[s] = workloadWork.ip

\* The service, or the connection, may have gone since it was listed.
PatchIngressIP(s) ==
  /\ \/ (~connected \/ s \notin Present) /\ Retry /\ UNCHANGED remote
     \/ /\ connected /\ s \in Present
        /\ remote' = [remote EXCEPT ![s] = workloadWork.ip]
        /\ workloadQueued' =
             (workloadQueued \/ (remote' # remote /\ ServiceToWorkload(remote[s])))
        /\ StopWorkload("patched")
  /\ UNCHANGED <<sharedVars, changes, faults, controlPlane, connected, watched, publishedVars>>

\* Services come in no particular order.  After a patch Reconcile returns: the
\* event of the service it patched leads to the next reconciliation.
NextService ==
  /\ workloadStep = "next"
  /\ \/ /\ workloadWork.left = {}
        /\ StopWorkload("reconciled") /\ UNCHANGED <<workloadQueued, watched, publishedVars>>
        /\ Quiet
     \/ \E s \in workloadWork.left :
          /\ HasGatewayIP(s)
          /\ WorkloadGoTo("service", [workloadWork EXCEPT !.left = @ \ {s}, !.service = s])
          /\ UNCHANGED <<watched, publishedVars>>
          /\ Quiet
     \/ \E s \in workloadWork.left : ~HasGatewayIP(s) /\ PatchIngressIP(s)

ReconcileService ==
  /\ workloadStep = "service"
  /\ exported' = exported \cup {workloadWork.service}
  /\ WorkloadGoTo("http", workloadWork)
  /\ UNCHANGED <<watched, httpRoutes, tlsRoutes>>
  /\ Quiet

WantedRoute == [zones |-> workloadWork.zones, parent |-> workloadWork.parent]

ReconcileHTTPRoute ==
  /\ workloadStep = "http"
  /\ httpRoutes' = [httpRoutes EXCEPT ![workloadWork.service] = WantedRoute]
  /\ WorkloadGoTo("tls", workloadWork)
  /\ UNCHANGED <<watched, exported, tlsRoutes>>
  /\ Quiet

ReconcileTLSRoute ==
  /\ workloadStep = "tls"
  /\ tlsRoutes' = [tlsRoutes EXCEPT ![workloadWork.service] = WantedRoute]
  /\ WorkloadGoTo("next", workloadWork)
  /\ UNCHANGED <<watched, exported, httpRoutes>>
  /\ Quiet

\* Fault: a call that fails is logged and Reconcile goes on without it.
AfterFailureSkipping == IF workloadStep = "tls" THEN WorkloadGoTo("next", workloadWork) ELSE Retry

AfterFailure == Retry

FailWorkload ==
  /\ workloadStep # "idle"
  /\ workloadStep = "next" => \E s \in workloadWork.left : ~HasGatewayIP(s)
  /\ Fault
  /\ AfterFailure
  /\ UNCHANGED <<sharedVars, remoteVars, watched, publishedVars>>

ReconcileWorkload ==
  \/ BeginWorkload \/ FindGatewayIP \/ WatchServices \/ ListServices \/ NextService
  \/ ReconcileService \/ ReconcileHTTPRoute \/ ReconcileTLSRoute \/ FailWorkload
=============================================================================
