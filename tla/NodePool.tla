------------------------------ MODULE NodePool ------------------------------
(***************************************************************************)
(* The node pool reconciler: for every pool of a cluster it maintains the  *)
(* machine template, which names the data source machines boot from, and   *)
(* either the Talos control plane, or the config template and the machine  *)
(* deployment of workers; and it reports a condition for each.             *)
(*                                                                         *)
(* One worker runs Reconcile, one API call per step; step is the next      *)
(* call.  The conditions are set in the worker's copy of the pool and      *)
(* written when Reconcile returns, also with an error.  The cluster is     *)
(* read anew by several of the calls, each time as it is then.             *)
(*                                                                         *)
(* A definition introduced by "Fault" is a wrong version of the one below  *)
(* it, which no specification uses.                                        *)
(***************************************************************************)
EXTENDS SourceFeed, Naturals

CONSTANTS
  None,
  Pools,         \* the node pools of the cluster
  ControlPools,  \* those of the control plane
  Clusters,      \* the cluster specs and statuses that occur
  Taints,        \* the taints of a pool that occur
  Bad,           \* a setting that does not parse
  MaxChanges,    \* how often the cluster or a pool changes
  MaxFaults      \* how often an API call fails or the operator restarts

ASSUME PoolsAssumption ==
  /\ ControlPools \subseteq Pools
  /\ {MaxChanges, MaxFaults} \subseteq Nat

VARIABLES
  cluster,
  taints,             \* per pool
  installerVolumes,   \* per installer image, the storage class of its volume
  installerSource,    \* the image the cluster's own data source names
  templates, controlPlanes, configs, deployments,  \* per pool
  conditions,         \* per pool
  queue, step, work,
  changes, faults

poolObjects == <<installerVolumes, installerSource, templates, controlPlanes, configs, deployments>>
workerVars  == <<queue, step, work>>
boundVars   == <<changes, faults>>
vars == <<cluster, taints, poolObjects, conditions, workerVars, boundVars, feed>>

Conditions == {"template", "controlPlane", "config", "deployment"}

\* The reason of a condition; all but reconciled and unknown are of status False.
Reasons == {"unknown", "reconciled", "waitingForDataSource",
            "waitingForClusterEndpoint", "errorReconciling"}

\* The fields of the cluster that decide what is written, None where unset.
Installers == {c.installer : c \in Clusters} \ {None, Bad}

Storage == {c.storage : c \in Clusters}

\* What a Talos config is made of: shared patches, those of the role, taints.
Content(c, t) == [shared |-> c.shared, own |-> c.own, taints |-> t]

Contents == {Content(c, t) : c \in Clusters, t \in Taints}

Template == [source : {"release", "cluster"}, storage : Storage]

PoolWork == [pool : Pools, taints : Taints, cluster : Clusters,
             conds : [Conditions -> Reasons], installer : {None} \cup Installers,
             source : {None, "release", "cluster"}, storage : {None} \cup Storage,
             failed : BOOLEAN]

\* The absence of an object is none.
ASSUME NoneAssumption ==
  None \notin PoolWork \cup Template \cup Contents \cup [storage : Storage]

TypeOK ==
  /\ {released, sourced} \subseteq BOOLEAN
  /\ cluster \in Clusters
  /\ taints \in [Pools -> Taints]
  /\ installerVolumes \in [Installers -> {None} \cup [storage : Storage]]
  /\ installerSource \in {None} \cup Installers
  /\ templates \in [Pools -> {None} \cup Template]
  /\ controlPlanes \in [ControlPools -> {None} \cup Contents]
  /\ configs \in [Pools \ ControlPools -> {None} \cup Contents]
  /\ deployments \subseteq Pools \ ControlPools
  /\ conditions \in [Pools -> [Conditions -> Reasons]]
  /\ queue \subseteq Pools
  /\ step \in {"idle", "installer", "volume", "source", "default", "settings", "template",
               "controlPlane", "config", "deployment", "status"}
  /\ work \in {None} \cup PoolWork
  /\ (step = "idle") = (work = None)
  /\ changes \in 0 .. MaxChanges
  /\ faults \in 0 .. MaxFaults

\* A new cluster has no endpoint yet.
Init ==
  /\ FeedInit
  /\ cluster \in {c \in Clusters : ~c.endpoint}
  /\ taints \in [Pools -> Taints]
  /\ installerVolumes = [i \in Installers |-> None]
  /\ installerSource = None
  /\ templates = [p \in Pools |-> None]
  /\ controlPlanes = [p \in ControlPools |-> None]
  /\ configs = [p \in Pools \ ControlPools |-> None]
  /\ deployments = {}
  /\ conditions = [p \in Pools |-> [c \in Conditions |-> "unknown"]]
  /\ queue = Pools
  /\ step = "idle" /\ work = None
  /\ changes = 0 /\ faults = 0
-----------------------------------------------------------------------------
(* Users and the cluster reconciler.                                       *)

\* Fault: clusters are not watched.
UnwatchedClusterToNodePools == {}

DockyardsClusterToDockyardsNodePools == Pools

ChangeCluster(c) ==
  /\ c # cluster /\ changes < MaxChanges
  /\ cluster' = c
  /\ changes' = changes + 1
  /\ queue' = queue \cup DockyardsClusterToDockyardsNodePools
  /\ UNCHANGED <<taints, poolObjects, conditions, step, work, faults, feed>>

ChangeTaints(p, t) ==
  /\ t # taints[p] /\ changes < MaxChanges
  /\ taints' = [taints EXCEPT ![p] = t]
  /\ changes' = changes + 1
  /\ queue' = queue \cup {p}
  /\ UNCHANGED <<cluster, poolObjects, conditions, step, work, faults, feed>>
\* Releases and data sources are not watched.
ChangeRelease ==
  /\ FeedNext
  /\ UNCHANGED <<cluster, taints, poolObjects, conditions, workerVars, boundVars>>
-----------------------------------------------------------------------------
(* Reconcile.                                                              *)

GoTo(s, w) == step' = s /\ work' = w

Marked(condition, reason) == [work EXCEPT !.conds[condition] = reason]

\* The deferred patch of the conditions comes last either way.
Return(w) == GoTo("status", w)

Error(w) == GoTo("status", [w EXCEPT !.failed = TRUE])

\* What a call of the reconciliation that writes objects leaves alone.
Writing == UNCHANGED <<cluster, taints, conditions, queue, boundVars, feed>>

Reading == Writing /\ UNCHANGED poolObjects

\* Fault: the worker's copy outlives the reconciliation.
StopLeaking == step' = "idle" /\ UNCHANGED work

Stop == step' = "idle" /\ work' = None

BeginPool(p) ==
  /\ step = "idle" /\ p \in queue
  /\ queue' = queue \ {p}
  /\ GoTo("installer",
          [pool |-> p, taints |-> taints[p], cluster |-> cluster, conds |-> conditions[p],
           installer |-> None, source |-> None, storage |-> None, failed |-> FALSE])
  /\ UNCHANGED <<cluster, taints, poolObjects, conditions, boundVars, feed>>

\* The template comes first, then what the pool's role needs, also if the
\* template has to wait.
RoleStep == IF work.pool \in ControlPools THEN "controlPlane" ELSE "config"

ResolveTalosInstallerOverride ==
  /\ step = "installer"
  /\ \/ cluster.installer = Bad /\ Error(work)
     \/ cluster.installer = None /\ GoTo("default", work)
     \/ /\ cluster.installer \in Installers
        /\ GoTo("volume", [work EXCEPT !.installer = cluster.installer])
  /\ Reading

WriteInstallerVolume ==
  /\ installerVolumes' = [installerVolumes EXCEPT ![work.installer] = [storage |-> cluster.storage]]
  /\ UNCHANGED <<installerSource, templates, controlPlanes, configs, deployments>>

WriteInstallerSource ==
  /\ installerSource' = work.installer
  /\ UNCHANGED <<installerVolumes, templates, controlPlanes, configs, deployments>>

\* Fault: the data source names the image before there is a volume of it.
ReconcileInstallerSwapped ==
  /\ \/ step = "volume" /\ WriteInstallerSource /\ GoTo("source", work)
     \/ /\ step = "source" /\ WriteInstallerVolume
        /\ GoTo("settings", [work EXCEPT !.source = "cluster"])
  /\ Writing

\* The volume is named after the image, so a new image gets a new one.
ReconcileCustomTalosInstallerDataSource ==
  /\ \/ step = "volume" /\ WriteInstallerVolume /\ GoTo("source", work)
     \/ /\ step = "source" /\ WriteInstallerSource
        /\ GoTo("settings", [work EXCEPT !.source = "cluster"])
  /\ Writing

\* Without a default release the template's condition is left as it was.
FindDefaultSource ==
  /\ step = "default"
  /\ \/ ~released /\ GoTo(RoleStep, work)
     \/ /\ released /\ ~sourced
        /\ GoTo(RoleStep, Marked("template", "waitingForDataSource"))
     \/ /\ released /\ sourced
        /\ GoTo("settings", [work EXCEPT !.source = "release"])
  /\ Reading

ResolveSettings ==
  /\ step = "settings"
  /\ GoTo("template", [work EXCEPT !.storage = cluster.storage])
  /\ Reading

NewTemplate == [source |-> work.source, storage |-> work.storage]

\* A template that exists keeps its spec.
TemplateFor(old) == IF old = None THEN NewTemplate ELSE old

ReconcileMachineTemplate ==
  /\ step = "template"
  /\ templates' = [templates EXCEPT ![work.pool] = TemplateFor(@)]
  /\ GoTo(RoleStep, Marked("template", "reconciled"))
  /\ UNCHANGED <<installerVolumes, installerSource, controlPlanes, configs, deployments>>
  /\ Writing

Endpoint == work.cluster.endpoint

WorkContent == Content(work.cluster, work.taints)

\* The control plane's calls that fail: shared patches are reported and not
\* tried again, taints are reported and tried again, the role's own patches
\* are tried again without a report.
ControlPlaneErrors ==
  \/ /\ work.cluster.shared = Bad
     /\ Return(Marked("controlPlane", "errorReconciling"))
  \/ /\ work.cluster.shared # Bad /\ work.taints = Bad
     /\ Error(Marked("controlPlane", "errorReconciling"))
  \/ /\ work.cluster.shared # Bad /\ work.taints # Bad /\ work.cluster.own = Bad
     /\ Error(work)

WellFormed == Bad \notin {work.cluster.shared, work.taints, work.cluster.own}

ReconcileTalosControlPlane ==
  /\ step = "controlPlane"
  /\ \/ /\ ~Endpoint
        /\ Return(Marked("controlPlane", "waitingForClusterEndpoint"))
        /\ UNCHANGED controlPlanes
     \/ Endpoint /\ ControlPlaneErrors /\ UNCHANGED controlPlanes
     \/ /\ Endpoint /\ WellFormed
        /\ controlPlanes' = [controlPlanes EXCEPT ![work.pool] = WorkContent]
        /\ Return(Marked("controlPlane", "reconciled"))
  /\ UNCHANGED <<installerVolumes, installerSource, templates, configs, deployments>>
  /\ Writing

ReconcileTalosConfigTemplate ==
  /\ step = "config"
  /\ \/ ~WellFormed /\ Error(work) /\ UNCHANGED configs
     \/ /\ WellFormed
        /\ configs' = [configs EXCEPT ![work.pool] = WorkContent]
        /\ GoTo("deployment", Marked("config", "reconciled"))
  /\ UNCHANGED <<installerVolumes, installerSource, templates, controlPlanes, deployments>>
  /\ Writing

ReconcileMachineDeployment ==
  /\ step = "deployment"
  /\ \/ /\ ~Endpoint
        /\ Return(Marked("deployment", "waitingForClusterEndpoint"))
        /\ UNCHANGED deployments
     \/ /\ Endpoint
        /\ deployments' = deployments \cup {work.pool}
        /\ Return(Marked("deployment", "reconciled"))
  /\ UNCHANGED <<installerVolumes, installerSource, templates, controlPlanes, configs>>
  /\ Writing

\* The steps that call the API server.
Calls == \/ step \in {"installer", "volume", "source", "default", "settings", "template"}
         \/ step = "controlPlane" /\ Endpoint /\ WellFormed
         \/ step = "config" /\ WellFormed
         \/ step = "deployment" /\ Endpoint

\* The default release is searched for, and of a release that is found the
\* data source is read.
FailedSearch == step = "default" /\ GoTo(RoleStep, work)

FailedOtherwise == step # "controlPlane" /\ (step = "default" => released) /\ Error(work)

\* Fault: the control plane's error is not reported either.
FailedQuietly == \/ step = "controlPlane" /\ Return(work)
                 \/ FailedSearch
                 \/ FailedOtherwise

\* A failed write of the control plane is reported and not tried again; a
\* failed search for the release is as good as none; every other error is
\* tried again.
Failed == \/ step = "controlPlane" /\ Return(Marked("controlPlane", "errorReconciling"))
          \/ FailedSearch
          \/ FailedOtherwise

FailPool ==
  /\ Calls /\ faults < MaxFaults
  /\ faults' = faults + 1
  /\ Failed
  /\ UNCHANGED <<cluster, taints, poolObjects, conditions, queue, changes, feed>>

\* Written conditions are an event of the pool, an error a reason to retry.
PatchDockyardsNodePool ==
  /\ step = "status"
  /\ conditions' = [conditions EXCEPT ![work.pool] = work.conds]
  /\ queue' = queue \cup
       (IF work.failed \/ conditions' # conditions THEN {work.pool} ELSE {})
  /\ Stop
  /\ UNCHANGED <<cluster, taints, poolObjects, boundVars, feed>>

FailPatch ==
  /\ step = "status" /\ faults < MaxFaults
  /\ faults' = faults + 1
  /\ queue' = queue \cup {work.pool}
  /\ Stop
  /\ UNCHANGED <<cluster, taints, poolObjects, conditions, changes, feed>>

\* A restarted operator reconciles every pool it lists.
Restart ==
  /\ faults < MaxFaults
  /\ faults' = faults + 1
  /\ queue' = Pools
  /\ Stop
  /\ UNCHANGED <<cluster, taints, poolObjects, conditions, changes, feed>>

Reconcile ==
  \/ \E p \in Pools : BeginPool(p)
  \/ ResolveTalosInstallerOverride \/ ReconcileCustomTalosInstallerDataSource
  \/ FindDefaultSource \/ ResolveSettings \/ ReconcileMachineTemplate
  \/ ReconcileTalosControlPlane \/ ReconcileTalosConfigTemplate
  \/ ReconcileMachineDeployment \/ PatchDockyardsNodePool
  \/ FailPool \/ FailPatch

Next ==
  \/ \E c \in Clusters : ChangeCluster(c)
  \/ \E p \in Pools, t \in Taints : ChangeTaints(p, t)
  \/ ChangeRelease
  \/ Reconcile
  \/ Restart

Spec == Init /\ [][Next]_vars
-----------------------------------------------------------------------------
\* The conditions that concern the pool's role, of those that were ever set.
SummaryConditions(p) ==
  {c \in {"template"} \cup (IF p \in ControlPools THEN {"controlPlane"}
                            ELSE {"config", "deployment"}) : conditions[p][c] # "unknown"}

\* The Ready condition is their summary; one that was never set is not missed.
Ready(p) ==
  /\ SummaryConditions(p) # {}
  /\ \A c \in SummaryConditions(p) : conditions[p][c] = "reconciled"

AtRest == queue = {} /\ step = "idle"

\* A machine template never boots from a data source that has yet to be
\* written, nor from one that names a volume not written: the source is
\* looked up several calls before the template, and the two calls that write
\* the cluster's own can fail in between.
TemplateBoots ==
  \A p \in Pools : templates[p] # None =>
    IF templates[p].source = "release" THEN sourced
    ELSE installerSource # None /\ installerVolumes[installerSource] # None

\* A Ready pool that has no reconciliation ahead of it has the objects of its
\* role, made from the cluster and the pool as they are now, and a template if
\* it ever reported one: without a default release it is Ready with none.  An
\* error that is not tried again has to show in the conditions, and a change of
\* the cluster in the middle of a reconciliation has to lead to another one.
ReadyIsCurrent ==
  \A p \in Pools : AtRest /\ Ready(p) =>
    /\ conditions[p]["template"] = "unknown" \/ templates[p] # None
    /\ LET current == Content(cluster, taints[p]) IN
       IF p \in ControlPools THEN controlPlanes[p] = current
       ELSE configs[p] = current /\ p \in deployments

\* At rest the cluster's data source names the image the cluster asks for,
\* although several pools write it, each for the image it read.
SourceFollowsInstaller ==
  AtRest /\ cluster.installer \in Installers => installerSource = cluster.installer

\* "KubeVirt machine templates for that cluster consume the override
\* `DataSource` automatically", says the README of a cluster with an installer
\* of its own: at rest the templates of its Ready pools name the cluster's data
\* source.
OverrideConsumed ==
  \A p \in Pools :
    AtRest /\ Ready(p) /\ cluster.installer \in Installers /\ templates[p] # None =>
      templates[p].source = "cluster"
=============================================================================
