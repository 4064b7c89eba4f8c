--------------------------- MODULE NodePoolProofs ---------------------------
(***************************************************************************)
(* What the node pool reconciler keeps for any pools, clusters and taints, *)
(* and however often they change and calls fail.                           *)
(*                                                                         *)
(* NodePoolInv says what holds between two calls of the worker.  Each call *)
(* reads what the last one left: a template is written from a source found *)
(* several calls before, a condition is set long before it is written, and *)
(* the cluster may change in between, which puts every pool in the queue.  *)
(* So what is said of a pool's objects and of the installer is said of the *)
(* pools outside the queue alone; the others will be reconciled again.     *)
(***************************************************************************)
EXTENDS NodePool, TLAPS

\* What the next call needs of the worker's state.
StepOK ==
  /\ step \in {"volume", "source"} => work.installer \in Installers
  /\ step \in {"settings", "template"} => work.source \in {"release", "cluster"}
  /\ step = "template" => work.storage \in Storage
  /\ step = "controlPlane" => work.pool \in ControlPools
  /\ step \in {"config", "deployment"} => work.pool \notin ControlPools

\* A source that machines can boot from.
Bootable(source) == IF source = "release" THEN sourced ELSE installerSource # None

\* A data source names a volume that is there, and whoever has found a source
\* can count on it.
SourcesOK ==
  /\ installerSource # None => installerVolumes[installerSource] # None
  /\ step = "source" => installerVolumes[work.installer] # None
  /\ step \in {"settings", "template"} => Bootable(work.source)
  /\ \A p \in Pools : templates[p] # None => Bootable(templates[p].source)

\* Of conditions, written or not yet: what they say is there is there.
Claims(p, conds) ==
  /\ conds["template"] = "reconciled" => templates[p] # None
  /\ conds["deployment"] = "reconciled" => p \in deployments

\* Neither objects nor templates are taken away again, so old reports hold.
ReportsOK ==
  /\ \A p \in Pools : Claims(p, conditions[p])
  /\ work # None => Claims(work.pool, work.conds)

\* What the objects of a pool would be made of now.
Current(p) == Content(cluster, taints[p])

\* Of conditions: those of the pool's role are set, and what they say is
\* reconciled is made from the cluster and the pool as they are.  A condition
\* not set would not count against the pool.  A config is reported by an
\* earlier call than the deployment; only both make a worker pool Ready.
Made(p, conds) ==
  IF p \in ControlPools
  THEN /\ conds["controlPlane"] # "unknown"
       /\ conds["controlPlane"] = "reconciled" => controlPlanes[p] = Current(p)
  ELSE /\ conds["config"] # "unknown" /\ conds["deployment"] # "unknown"
       /\ conds["config"] = "reconciled" /\ conds["deployment"] = "reconciled"
            => configs[p] = Current(p)

\* The worker has the pool in hand.
InWork(p) == work # None /\ work.pool = p

\* Outside the queue a pool is as its conditions say, or the worker has it in
\* hand with the cluster as it is.  An error queues the pool again.
CurrentOK ==
  /\ \A p \in Pools \ queue : ~InWork(p) => Made(p, conditions[p])
  /\ work # None /\ work.pool \notin queue =>
       /\ work.cluster = cluster /\ work.taints = taints[work.pool]
       /\ step = "deployment" =>
            configs[work.pool] = Current(work.pool) /\ work.conds["config"] # "unknown"
       /\ step = "status" /\ ~work.failed => Made(work.pool, work.conds)

\* The cluster's data source names the image the cluster asks for.
Followed == cluster.installer \in Installers => installerSource = cluster.installer

\* As soon as one pool is out of the queue, the worker writes no image but the
\* one the cluster asks for.
InstallerOK ==
  /\ \A p \in Pools \ queue :
       /\ step \in {"volume", "source"} => work.installer = cluster.installer
       /\ ~InWork(p) => Followed
  /\ step \notin {"idle", "installer", "volume", "source"} /\ ~work.failed
     /\ work.pool \notin queue => Followed

\* The inductive invariant.
NodePoolInv == TypeOK /\ StepOK /\ SourcesOK /\ ReportsOK /\ CurrentOK /\ InstallerOK
-----------------------------------------------------------------------------
\* All steps of the worker.
Steps == {"idle", "installer", "volume", "source", "default", "settings", "template",
          "controlPlane", "config", "deployment", "status"}

\* At work the worker has a pool in hand.
LEMMA Working ==
  ASSUME TypeOK, step # "idle"
  PROVE  /\ work \in PoolWork /\ work # None
         /\ work.pool \in Pools /\ work.taints \in Taints /\ work.cluster \in Clusters
         /\ work.conds \in [Conditions -> Reasons]
         /\ work.installer \in {None} \cup Installers
         /\ work.source \in {None, "release", "cluster"}
         /\ work.storage \in {None} \cup Storage /\ work.failed \in BOOLEAN
<1>1. work \in PoolWork /\ work # None
  BY NoneAssumption DEF TypeOK
<1>2. QED
  BY <1>1 DEF PoolWork

\* A marked condition is all that changes.
LEMMA Marking ==
  ASSUME work \in PoolWork, NEW c \in Conditions, NEW r \in Reasons
  PROVE  /\ Marked(c, r) \in PoolWork
         /\ Marked(c, r).conds = [work.conds EXCEPT ![c] = r]
         /\ Marked(c, r).pool = work.pool /\ Marked(c, r).taints = work.taints
         /\ Marked(c, r).cluster = work.cluster /\ Marked(c, r).failed = work.failed
  BY DEF Marked, PoolWork

\* No condition claims anything at first.
LEMMA Initially ==
  ASSUME Init
  PROVE  NodePoolInv
<1>1. 0 \in 0 .. MaxChanges /\ 0 \in 0 .. MaxFaults
  BY PoolsAssumption
<1>2. "unknown" \in Reasons
  BY DEF Reasons
<1>3. TypeOK
  BY <1>1, <1>2 DEF Init, TypeOK, FeedInit
<1>4. \A p \in Pools : \A c \in Conditions : conditions[p][c] # "reconciled"
  BY DEF Init
<1>5. \A p \in Pools : Claims(p, conditions[p])
  BY <1>4 DEF Claims, Conditions
<1>6. QED
  BY <1>3, <1>5 DEF Init, NodePoolInv, StepOK, SourcesOK, ReportsOK, CurrentOK, InstallerOK, InWork

\* The part of TypeOK about what the worker writes.
ObjectsTyped ==
  /\ installerVolumes \in [Installers -> {None} \cup [storage : Storage]]
  /\ installerSource \in {None} \cup Installers
  /\ templates \in [Pools -> {None} \cup Template]
  /\ controlPlanes \in [ControlPools -> {None} \cup Contents]
  /\ configs \in [Pools \ ControlPools -> {None} \cup Contents]
  /\ deployments \subseteq Pools \ ControlPools

\* The calls of a reconciliation write objects of the pool it is for, and what
\* the pools of the cluster share.
OwnObjectsOnly ==
  /\ \A p \in Pools \ {work.pool} : templates'[p] = templates[p]
  /\ \A p \in ControlPools \ {work.pool} : controlPlanes'[p] = controlPlanes[p]
  /\ \A p \in Pools \ ControlPools : p # work.pool => configs'[p] = configs[p]
  /\ deployments \subseteq deployments' /\ deployments' \subseteq deployments \cup {work.pool}
  /\ templates[work.pool] # None => templates'[work.pool] # None

\* The worker goes on with the same pool.
Goes(s, w) ==
  /\ w \in PoolWork /\ w.pool = work.pool /\ w.taints = work.taints /\ w.cluster = work.cluster
  /\ s \in Steps \ {"idle", "installer"}
  /\ GoTo(s, w)

\* What a call has to see to for the invariant to hold after it.
LEMMA CallKeeps ==
  ASSUME NodePoolInv, step # "idle",
         UNCHANGED <<cluster, taints, conditions, queue, feed>>,
         changes' \in 0 .. MaxChanges, faults' \in 0 .. MaxFaults,
         ObjectsTyped', OwnObjectsOnly, StepOK', SourcesOK',
         NEW s, NEW w, Goes(s, w),
         Claims(w.pool, w.conds)',
         s \in {"volume", "source"} /\ queue # Pools => w.installer = cluster.installer,
         s = "deployment" /\ w.pool \notin queue =>
           configs'[w.pool] = Current(w.pool) /\ w.conds["config"] # "unknown",
         s = "status" /\ ~w.failed /\ w.pool \notin queue => Made(w.pool, w.conds)',
         queue # Pools /\ Followed => Followed',
         s \notin {"volume", "source"} /\ ~w.failed /\ w.pool \notin queue => Followed'
  PROVE  NodePoolInv'
<1> USE DEF Goes
<1>1. work \in PoolWork /\ work # None /\ w # None /\ work.pool \in Pools
  BY Working, NoneAssumption DEF NodePoolInv
<1>2. step' = s /\ work' = w
  BY DEF GoTo
<1>3. TypeOK'
  BY <1>1, <1>2 DEF NodePoolInv, TypeOK, ObjectsTyped, feed, Steps
<1>4. ReportsOK'
  <2>1. \A p \in Pools : Claims(p, conditions[p])'
    BY DEF NodePoolInv, ReportsOK, Claims, OwnObjectsOnly
  <2>2. QED
    BY <1>2, <2>1 DEF ReportsOK
<1>5. \A p \in Pools : InWork(p)' = InWork(p)
  BY <1>1, <1>2 DEF InWork
<1>6. CurrentOK'
  <2>1. \A p \in Pools \ queue' : ~InWork(p)' => Made(p, conditions[p])'
    <3> SUFFICES ASSUME NEW p \in Pools, p \notin queue, ~InWork(p)
                 PROVE  Made(p, conditions[p])'
      BY <1>5
    <3>1. Made(p, conditions[p]) /\ p # work.pool
      BY <1>1 DEF NodePoolInv, CurrentOK, InWork
    <3>2. QED
      BY <3>1 DEF Made, Current, OwnObjectsOnly
  <2>2. work.pool \notin queue => work.cluster = cluster /\ work.taints = taints[work.pool]
    BY <1>1 DEF NodePoolInv, CurrentOK
  <2>3. Current(w.pool)' = Current(w.pool)
    BY DEF Current
  <2>4. QED
    BY <1>1, <1>2, <2>1, <2>2, <2>3 DEF CurrentOK
<1>7. InstallerOK'
  <2>1. \A p \in Pools \ queue' : ~InWork(p)' => Followed'
    BY <1>5 DEF NodePoolInv, InstallerOK
  <2>2. QED
    BY <1>2, <2>1 DEF InstallerOK
<1>8. QED
  BY <1>3, <1>4, <1>6, <1>7 DEF NodePoolInv

\* A call that writes nothing.
LEMMA MoveKeeps ==
  ASSUME NodePoolInv, step # "idle",
         UNCHANGED <<cluster, taints, poolObjects, conditions, queue, feed>>,
         changes' \in 0 .. MaxChanges, faults' \in 0 .. MaxFaults,
         NEW s \in Steps \ {"source", "deployment"}, NEW w, Goes(s, w),
         Claims(w.pool, w.conds),
         s = "volume" => w.installer = cluster.installer /\ w.installer \in Installers,
         s \in {"settings", "template"} =>
           w.source \in {"release", "cluster"} /\ Bootable(w.source),
         s = "template" => w.storage \in Storage,
         s = "controlPlane" => w.pool \in ControlPools,
         s = "config" => w.pool \notin ControlPools,
         s = "status" /\ ~w.failed /\ w.pool \notin queue => Made(w.pool, w.conds),
         s # "volume" /\ ~w.failed /\ w.pool \notin queue => Followed
  PROVE  NodePoolInv'
<1>1. step' = s /\ work' = w
  BY DEF Goes, GoTo
<1>2. StepOK'
  BY <1>1 DEF StepOK, Steps
<1>3. SourcesOK'
  BY <1>1 DEF NodePoolInv, SourcesOK, Bootable, poolObjects, feed
<1>4. ObjectsTyped' /\ OwnObjectsOnly
  BY DEF NodePoolInv, TypeOK, ObjectsTyped, OwnObjectsOnly, poolObjects
<1>5. Claims(w.pool, w.conds)'
  BY DEF Claims, poolObjects
<1>6. Made(w.pool, w.conds)' = Made(w.pool, w.conds)
  BY DEF Made, Current, poolObjects
<1>7. Followed' = Followed
  BY DEF Followed, poolObjects
<1>8. QED
  BY <1>2, <1>3, <1>4, <1>5, <1>6, <1>7, CallKeeps

\* What the worker knows between its calls.
LEMMA WorkerKnows ==
  ASSUME NodePoolInv, step # "idle"
  PROVE  /\ Claims(work.pool, work.conds)
         /\ work.pool \notin queue =>
              work.cluster = cluster /\ work.taints = taints[work.pool]
         /\ step \notin {"installer", "volume", "source"} /\ ~work.failed
            /\ work.pool \notin queue => Followed
         /\ RoleStep \in {"controlPlane", "config"}
         /\ RoleStep = "controlPlane" => work.pool \in ControlPools
         /\ RoleStep = "config" => work.pool \notin ControlPools
<1>1. work # None
  BY Working DEF NodePoolInv
<1>2. QED
  BY <1>1 DEF NodePoolInv, ReportsOK, CurrentOK, InstallerOK, RoleStep

\* The bounds on changes and faults.
LEMMA BoundsKept ==
  ASSUME NodePoolInv
  PROVE  /\ changes \in 0 .. MaxChanges /\ faults \in 0 .. MaxFaults
         /\ changes < MaxChanges => changes + 1 \in 0 .. MaxChanges
         /\ faults < MaxFaults => faults + 1 \in 0 .. MaxFaults
<1>1. MaxChanges \in Nat /\ MaxFaults \in Nat
  BY PoolsAssumption
<1>2. changes \in 0 .. MaxChanges /\ faults \in 0 .. MaxFaults
  BY DEF NodePoolInv, TypeOK
<1>3. QED
  BY <1>1, <1>2

\* A reason other than reconciled claims nothing.
LEMMA MarkingClaims ==
  ASSUME NodePoolInv, step # "idle", NEW c \in Conditions, NEW r \in Reasons, r # "reconciled"
  PROVE  Claims(work.pool, Marked(c, r).conds)
<1>1. work \in PoolWork /\ work.conds \in [Conditions -> Reasons]
  BY Working DEF NodePoolInv
<1>2. Marked(c, r).conds = [work.conds EXCEPT ![c] = r]
  BY <1>1, Marking
<1>3. QED
  BY <1>1, <1>2, WorkerKnows DEF Claims, Conditions

\* An error: the pool will be tried again.
LEMMA ErrorKeeps ==
  ASSUME NodePoolInv, step # "idle",
         UNCHANGED <<cluster, taints, poolObjects, conditions, queue, feed>>,
         changes' \in 0 .. MaxChanges, faults' \in 0 .. MaxFaults,
         NEW w \in PoolWork, w.pool = work.pool, w.taints = work.taints,
         w.cluster = work.cluster, Claims(w.pool, w.conds), Error(w)
  PROVE  NodePoolInv'
<1> DEFINE e == [w EXCEPT !.failed = TRUE]
<1>1. /\ e \in PoolWork /\ e.pool = work.pool /\ e.taints = work.taints
      /\ e.cluster = work.cluster /\ e.conds = w.conds /\ e.failed
  BY DEF PoolWork
<1>2. GoTo("status", e)
  BY DEF Error
<1> HIDE DEF e
<1>3. Goes("status", e) /\ "status" \in Steps
  BY <1>1, <1>2 DEF Goes, Steps
<1>4. Claims(e.pool, e.conds)
  BY <1>1
<1>5. QED
  BY <1>1, <1>3, <1>4, MoveKeeps

\* The installer override is read from the cluster of this moment.
LEMMA ResolveKeeps ==
  ASSUME NodePoolInv, ResolveTalosInstallerOverride
  PROVE  NodePoolInv'
<1> USE DEF ResolveTalosInstallerOverride
<1>1. /\ UNCHANGED <<cluster, taints, poolObjects, conditions, queue, feed>>
      /\ changes' \in 0 .. MaxChanges /\ faults' \in 0 .. MaxFaults
      /\ step # "idle" /\ step = "installer"
  BY BoundsKept DEF Reading, Writing, boundVars
<1>2. work \in PoolWork /\ Claims(work.pool, work.conds)
  BY <1>1, Working, WorkerKnows DEF NodePoolInv
<1>3. CASE Error(work)
  BY <1>1, <1>2, <1>3, ErrorKeeps
<1>4. CASE cluster.installer = None /\ GoTo("default", work)
  <2>1. Goes("default", work) /\ "default" \in Steps
    BY <1>2, <1>4 DEF Goes, Steps
  <2>2. Followed
    BY <1>4 DEF Followed, Installers
  <2>3. QED
    BY <1>1, <1>2, <2>1, <2>2, MoveKeeps
<1>5. CASE /\ cluster.installer \in Installers
           /\ GoTo("volume", [work EXCEPT !.installer = cluster.installer])
  <2> DEFINE w == [work EXCEPT !.installer = cluster.installer]
  <2>1. /\ w \in PoolWork /\ w.pool = work.pool /\ w.taints = work.taints
        /\ w.cluster = work.cluster /\ w.conds = work.conds
        /\ w.installer = cluster.installer /\ GoTo("volume", w)
    BY <1>2, <1>5 DEF PoolWork
  <2> HIDE DEF w
  <2>2. Goes("volume", w) /\ "volume" \in Steps /\ Claims(w.pool, w.conds)
    BY <1>2, <2>1 DEF Goes, Steps
  <2>3. QED
    BY <1>1, <1>5, <2>1, <2>2, MoveKeeps
<1>6. QED
  BY <1>3, <1>4, <1>5

\* A template that has to wait for its source keeps the condition it had, or
\* is marked as waiting.
LEMMA FindDefaultKeeps ==
  ASSUME NodePoolInv, FindDefaultSource
  PROVE  NodePoolInv'
<1> USE DEF FindDefaultSource
<1>1. /\ UNCHANGED <<cluster, taints, poolObjects, conditions, queue, feed>>
      /\ changes' \in 0 .. MaxChanges /\ faults' \in 0 .. MaxFaults
      /\ step # "idle" /\ step = "default"
  BY BoundsKept DEF Reading, Writing, boundVars
<1>2. work \in PoolWork /\ Claims(work.pool, work.conds)
  BY <1>1, Working, WorkerKnows DEF NodePoolInv
<1>3. ~work.failed /\ work.pool \notin queue => Followed
  BY <1>1, WorkerKnows
<1>4. /\ RoleStep \in Steps \ {"idle", "installer", "source", "deployment"}
      /\ RoleStep \in {"controlPlane", "config"}
      /\ RoleStep = "controlPlane" => work.pool \in ControlPools
      /\ RoleStep = "config" => work.pool \notin ControlPools
  BY <1>1, WorkerKnows DEF Steps
<1>5. CASE GoTo(RoleStep, work)
  <2>1. Goes(RoleStep, work)
    BY <1>2, <1>4, <1>5 DEF Goes
  <2>2. QED
    BY <1>1, <1>2, <1>3, <1>4, <2>1, MoveKeeps
<1>6. CASE GoTo(RoleStep, Marked("template", "waitingForDataSource"))
  <2> DEFINE w == Marked("template", "waitingForDataSource")
  <2>1. "template" \in Conditions /\ "waitingForDataSource" \in Reasons
    BY DEF Conditions, Reasons
  <2>2. /\ w \in PoolWork /\ w.pool = work.pool /\ w.taints = work.taints
        /\ w.cluster = work.cluster /\ w.failed = work.failed
    BY <1>2, <2>1, Marking
  <2>3. Claims(w.pool, w.conds)
    BY <1>1, <2>1, <2>2, MarkingClaims
  <2> HIDE DEF w
  <2>4. Goes(RoleStep, w)
    BY <1>4, <1>6, <2>2 DEF Goes, w
  <2>5. QED
    BY <1>1, <1>3, <1>4, <2>2, <2>3, <2>4, MoveKeeps
<1>7. CASE released /\ sourced /\ GoTo("settings", [work EXCEPT !.source = "release"])
  <2> DEFINE w == [work EXCEPT !.source = "release"]
  <2>1. /\ w \in PoolWork /\ w.pool = work.pool /\ w.taints = work.taints
        /\ w.cluster = work.cluster /\ w.conds = work.conds /\ w.failed = work.failed
        /\ w.source = "release" /\ GoTo("settings", w)
    BY <1>2, <1>7 DEF PoolWork
  <2> HIDE DEF w
  <2>2. Goes("settings", w) /\ "settings" \in Steps /\ Claims(w.pool, w.conds)
    BY <1>2, <2>1 DEF Goes, Steps
  <2>3. Bootable(w.source)
    BY <1>7, <2>1 DEF Bootable
  <2>4. QED
    BY <1>1, <1>3, <2>1, <2>2, <2>3, MoveKeeps
<1>8. QED
  BY <1>5, <1>6, <1>7

\* The storage is the one of the cluster as it is now.
LEMMA ResolveSettingsKeeps ==
  ASSUME NodePoolInv, ResolveSettings
  PROVE  NodePoolInv'
<1> USE DEF ResolveSettings
<1>1. /\ UNCHANGED <<cluster, taints, poolObjects, conditions, queue, feed>>
      /\ changes' \in 0 .. MaxChanges /\ faults' \in 0 .. MaxFaults
      /\ step # "idle" /\ step = "settings"
  BY BoundsKept DEF Reading, Writing, boundVars
<1>2. work \in PoolWork /\ Claims(work.pool, work.conds)
  BY <1>1, Working, WorkerKnows DEF NodePoolInv
<1>3. ~work.failed /\ work.pool \notin queue => Followed
  BY <1>1, WorkerKnows
<1> DEFINE w == [work EXCEPT !.storage = cluster.storage]
<1>4. cluster.storage \in Storage
  BY DEF NodePoolInv, TypeOK, Storage
<1>5. /\ w \in PoolWork /\ w.pool = work.pool /\ w.taints = work.taints
      /\ w.cluster = work.cluster /\ w.conds = work.conds /\ w.failed = work.failed
      /\ w.source = work.source /\ w.storage = cluster.storage /\ GoTo("template", w)
  BY <1>2, <1>4 DEF PoolWork
<1> HIDE DEF w
<1>6. Goes("template", w) /\ "template" \in Steps /\ Claims(w.pool, w.conds)
  BY <1>2, <1>5 DEF Goes, Steps
<1>7. w.source \in {"release", "cluster"} /\ Bootable(w.source)
  BY <1>1, <1>5 DEF NodePoolInv, StepOK, SourcesOK
<1>8. QED
  BY <1>1, <1>3, <1>4, <1>5, <1>6, <1>7, MoveKeeps

\* The calls of the control plane that fail or wait.
LEMMA ControlPlaneWaits ==
  ASSUME NodePoolInv, step = "controlPlane",
         UNCHANGED <<cluster, taints, poolObjects, conditions, queue, feed>>,
         changes' \in 0 .. MaxChanges, faults' \in 0 .. MaxFaults,
         NEW r \in Reasons, r \notin {"unknown", "reconciled"},
         \/ Return(Marked("controlPlane", r))
         \/ Error(Marked("controlPlane", r))
         \/ Error(work)
  PROVE  NodePoolInv'
<1> DEFINE w == Marked("controlPlane", r)
<1>1. work \in PoolWork /\ Claims(work.pool, work.conds) /\ work.conds \in [Conditions -> Reasons]
  BY Working, WorkerKnows DEF NodePoolInv
<1>2. "controlPlane" \in Conditions
  BY DEF Conditions
<1>3. /\ w \in PoolWork /\ w.pool = work.pool /\ w.taints = work.taints
      /\ w.cluster = work.cluster /\ w.failed = work.failed
      /\ w.conds["controlPlane"] = r
  BY <1>1, <1>2, Marking
<1>4. Claims(w.pool, w.conds)
  BY <1>2, <1>3, MarkingClaims
<1> HIDE DEF w
<1>5. CASE Return(w)
  <2>1. Goes("status", w) /\ "status" \in Steps
    BY <1>3, <1>5 DEF Goes, Steps, Return
  <2>2. w.pool \in ControlPools
    BY <1>3 DEF NodePoolInv, StepOK
  <2>3. Made(w.pool, w.conds)
    BY <1>3, <2>2 DEF Made
  <2>4. ~w.failed /\ w.pool \notin queue => Followed
    BY <1>3, WorkerKnows
  <2>5. QED
    BY <1>4, <2>1, <2>3, <2>4, MoveKeeps
<1>6. CASE Error(w)
  BY <1>3, <1>4, <1>6, ErrorKeeps
<1>7. CASE Error(work)
  BY <1>1, <1>7, ErrorKeeps
<1>8. QED
  BY <1>5, <1>6, <1>7 DEF w

\* Workers without an endpoint get no machine deployment.
LEMMA DeploymentWaits ==
  ASSUME NodePoolInv, step = "deployment",
         UNCHANGED <<cluster, taints, poolObjects, conditions, queue, feed>>,
         changes' \in 0 .. MaxChanges, faults' \in 0 .. MaxFaults,
         Return(Marked("deployment", "waitingForClusterEndpoint"))
  PROVE  NodePoolInv'
<1> DEFINE w == Marked("deployment", "waitingForClusterEndpoint")
<1>1. work \in PoolWork /\ work.conds \in [Conditions -> Reasons]
  BY Working DEF NodePoolInv
<1>2. "deployment" \in Conditions /\ "waitingForClusterEndpoint" \in Reasons
  BY DEF Conditions, Reasons
<1>3. /\ w \in PoolWork /\ w.pool = work.pool /\ w.taints = work.taints
      /\ w.cluster = work.cluster /\ w.failed = work.failed
      /\ w.conds["deployment"] = "waitingForClusterEndpoint"
      /\ w.conds["config"] = work.conds["config"]
  BY <1>1, <1>2, Marking DEF Conditions
<1>4. Claims(w.pool, w.conds)
  BY <1>2, <1>3, MarkingClaims
<1>5. Return(w)
  OBVIOUS
<1> HIDE DEF w
<1>6. Goes("status", w) /\ "status" \in Steps
  BY <1>3, <1>5 DEF Goes, Steps, Return
<1>7. w.pool \notin ControlPools
  BY <1>3 DEF NodePoolInv, StepOK
<1>8. w.pool \notin queue => Made(w.pool, w.conds)
  BY <1>1, <1>3, <1>7, Working DEF Made, NodePoolInv, CurrentOK
<1>9. ~w.failed /\ w.pool \notin queue => Followed
  BY <1>3, WorkerKnows
<1>10. QED
  BY <1>4, <1>6, <1>8, <1>9, MoveKeeps

\* A failed call is reported, forgotten or tried again, but never taken for done.
LEMMA FailPoolKeeps ==
  ASSUME NodePoolInv, FailPool
  PROVE  NodePoolInv'
<1>1. /\ UNCHANGED <<cluster, taints, poolObjects, conditions, queue, feed>>
      /\ changes' \in 0 .. MaxChanges /\ faults' \in 0 .. MaxFaults
  BY BoundsKept DEF FailPool
<1>2. step # "idle"
  BY DEF FailPool, Calls
<1>3. work \in PoolWork /\ Claims(work.pool, work.conds)
  BY <1>2, Working, WorkerKnows DEF NodePoolInv
<1>4. CASE step = "controlPlane" /\ Return(Marked("controlPlane", "errorReconciling"))
  BY <1>1, <1>4, ControlPlaneWaits DEF Reasons
<1>5. CASE step = "default" /\ GoTo(RoleStep, work)
  <2>1. /\ RoleStep \in Steps \ {"idle", "installer", "source", "deployment"}
        /\ RoleStep \in {"controlPlane", "config"}
        /\ RoleStep = "controlPlane" => work.pool \in ControlPools
        /\ RoleStep = "config" => work.pool \notin ControlPools
    BY <1>2, WorkerKnows DEF Steps
  <2>2. Goes(RoleStep, work)
    BY <1>3, <1>5, <2>1 DEF Goes
  <2>3. ~work.failed /\ work.pool \notin queue => Followed
    BY <1>2, <1>5, WorkerKnows
  <2>4. QED
    BY <1>1, <1>2, <1>3, <2>1, <2>2, <2>3, MoveKeeps
<1>6. CASE Error(work)
  BY <1>1, <1>2, <1>3, <1>6, ErrorKeeps
<1>7. QED
  BY <1>4, <1>5, <1>6 DEF FailPool, Failed, FailedSearch, FailedOtherwise

\* The volume of an image comes before the data source that names it.
LEMMA InstallerKeeps ==
  ASSUME NodePoolInv, ReconcileCustomTalosInstallerDataSource
  PROVE  NodePoolInv'
<1>1. /\ UNCHANGED <<cluster, taints, conditions, queue, feed>>
      /\ changes' \in 0 .. MaxChanges /\ faults' \in 0 .. MaxFaults
      /\ step # "idle" /\ step \in {"volume", "source"}
  BY BoundsKept DEF ReconcileCustomTalosInstallerDataSource, Writing, boundVars
<1>2. /\ work \in PoolWork /\ Claims(work.pool, work.conds) /\ work.pool \in Pools
      /\ work.installer \in Installers
  BY <1>1, Working, WorkerKnows DEF NodePoolInv, StepOK
<1>3. queue # Pools => work.installer = cluster.installer
  <2>1. queue \subseteq Pools
    BY DEF NodePoolInv, TypeOK
  <2>2. queue # Pools => \E p \in Pools \ queue : TRUE
    BY <2>1
  <2>3. QED
    BY <1>1, <2>2 DEF NodePoolInv, InstallerOK
<1>4. /\ installerVolumes \in [Installers -> {None} \cup [storage : Storage]]
      /\ installerSource \in {None} \cup Installers
  BY DEF NodePoolInv, TypeOK
<1>5. CASE step = "volume" /\ WriteInstallerVolume /\ GoTo("source", work)
  <2>1. [storage |-> cluster.storage] \in [storage : Storage]
    BY DEF NodePoolInv, TypeOK, Storage
  <2>2. [storage |-> cluster.storage] # None
    BY <2>1, NoneAssumption
  <2>3. /\ installerVolumes' \in [Installers -> {None} \cup [storage : Storage]]
        /\ installerVolumes'[work.installer] # None
        /\ \A i \in Installers : installerVolumes[i] # None => installerVolumes'[i] # None
    BY <1>2, <1>4, <1>5, <2>1, <2>2 DEF WriteInstallerVolume
  <2>4. UNCHANGED <<installerSource, templates, controlPlanes, configs, deployments>>
    BY <1>5 DEF WriteInstallerVolume
  <2>5. ObjectsTyped' /\ OwnObjectsOnly
    BY <2>3, <2>4 DEF NodePoolInv, TypeOK, ObjectsTyped, OwnObjectsOnly
  <2>6. step' = "source" /\ work' = work
    BY <1>5 DEF GoTo
  <2>7. StepOK'
    BY <1>2, <2>6 DEF StepOK
  <2>8. SourcesOK'
    BY <1>1, <1>4, <2>3, <2>4, <2>6 DEF NodePoolInv, SourcesOK, Bootable, feed
  <2>9. Goes("source", work)
    BY <1>2, <1>5 DEF Goes, Steps
  <2>10. Claims(work.pool, work.conds)' /\ (Followed => Followed')
    BY <1>1, <1>2, <2>4, <2>6 DEF Claims, Followed
  <2>11. QED
    BY <1>1, <1>3, <2>5, <2>6, <2>7, <2>8, <2>9, <2>10, CallKeeps
<1>6. CASE /\ step = "source" /\ WriteInstallerSource
           /\ GoTo("settings", [work EXCEPT !.source = "cluster"])
  <2> DEFINE w == [work EXCEPT !.source = "cluster"]
  <2>1. /\ w \in PoolWork /\ w.pool = work.pool /\ w.taints = work.taints
        /\ w.cluster = work.cluster /\ w.conds = work.conds /\ w.failed = work.failed
        /\ w.source = "cluster" /\ GoTo("settings", w)
    BY <1>2, <1>6 DEF PoolWork
  <2>2. UNCHANGED <<installerVolumes, templates, controlPlanes, configs, deployments>>
        /\ installerSource' = work.installer
    BY <1>6 DEF WriteInstallerSource
  <2> HIDE DEF w
  <2>3. ObjectsTyped' /\ OwnObjectsOnly
    BY <1>2, <2>2 DEF NodePoolInv, TypeOK, ObjectsTyped, OwnObjectsOnly
  <2>4. step' = "settings" /\ work' = w
    BY <2>1 DEF GoTo
  <2>5. StepOK'
    BY <2>1, <2>4 DEF StepOK
  <2>6. SourcesOK'
    <3>1. installerSource' # None /\ installerVolumes'[installerSource'] # None
      BY <1>2, <1>6, <2>2 DEF NodePoolInv, SourcesOK, Installers
    <3>2. \A s : Bootable(s) => Bootable(s)'
      BY <1>1, <3>1 DEF Bootable, feed
    <3>3. QED
      BY <2>1, <2>2, <2>4, <3>1, <3>2 DEF NodePoolInv, SourcesOK, Bootable
  <2>7. Goes("settings", w)
    BY <2>1 DEF Goes, Steps
  <2>8. PICK x : x = w
    OBVIOUS
  <2>9. Claims(x.pool, x.conds)'
    BY <1>2, <2>1, <2>2, <2>8 DEF Claims
  <2>10. queue # Pools => Followed'
    BY <1>1, <1>3, <2>2 DEF Followed
  <2>11. w.pool \notin queue => queue # Pools
    BY <1>2, <2>1
  <2>12. QED
    BY <1>1, <2>3, <2>5, <2>6, <2>7, <2>8, <2>9, <2>10, <2>11, CallKeeps
<1>7. QED
  BY <1>5, <1>6 DEF ReconcileCustomTalosInstallerDataSource

\* The template is written from a source the worker has found.
LEMMA TemplateKeeps ==
  ASSUME NodePoolInv, ReconcileMachineTemplate
  PROVE  NodePoolInv'
<1> USE DEF ReconcileMachineTemplate
<1>1. /\ UNCHANGED <<cluster, taints, conditions, queue, feed>>
      /\ UNCHANGED <<installerVolumes, installerSource, controlPlanes, configs, deployments>>
      /\ changes' \in 0 .. MaxChanges /\ faults' \in 0 .. MaxFaults
      /\ step # "idle" /\ step = "template"
  BY BoundsKept DEF Writing, boundVars
<1>2. /\ work \in PoolWork /\ Claims(work.pool, work.conds) /\ work.pool \in Pools
      /\ work.conds \in [Conditions -> Reasons]
  BY <1>1, Working, WorkerKnows DEF NodePoolInv
<1>3. NewTemplate \in Template /\ NewTemplate # None /\ Bootable(NewTemplate.source)
  <2>1. /\ work.source \in {"release", "cluster"} /\ work.storage \in Storage
        /\ Bootable(work.source)
    BY <1>1 DEF NodePoolInv, StepOK, SourcesOK
  <2>2. NewTemplate \in Template
    BY <2>1 DEF NewTemplate, Template
  <2>3. QED
    BY <2>1, <2>2, NoneAssumption DEF NewTemplate
<1>4. templates \in [Pools -> {None} \cup Template]
  BY DEF NodePoolInv, TypeOK
<1>5. /\ templates' \in [Pools -> {None} \cup Template]
      /\ templates'[work.pool] = TemplateFor(templates[work.pool])
      /\ \A p \in Pools \ {work.pool} : templates'[p] = templates[p]
  BY <1>2, <1>3, <1>4 DEF TemplateFor
<1>6. templates'[work.pool] # None /\ Bootable(templates'[work.pool].source)
  BY <1>2, <1>3, <1>5 DEF TemplateFor, NodePoolInv, SourcesOK
<1>7. ObjectsTyped' /\ OwnObjectsOnly
  BY <1>1, <1>5, <1>6 DEF NodePoolInv, TypeOK, ObjectsTyped, OwnObjectsOnly
<1> DEFINE w == Marked("template", "reconciled")
<1>8. "template" \in Conditions /\ "reconciled" \in Reasons
  BY DEF Conditions, Reasons
<1>9. /\ w \in PoolWork /\ w.pool = work.pool /\ w.taints = work.taints
      /\ w.cluster = work.cluster /\ w.failed = work.failed
      /\ w.conds = [work.conds EXCEPT !["template"] = "reconciled"]
  BY <1>2, <1>8, Marking
<1>10. GoTo(RoleStep, w)
  OBVIOUS
<1> HIDE DEF w
<1>11. step' = RoleStep /\ work' = w
  BY <1>10 DEF GoTo
<1>12. /\ RoleStep \in {"controlPlane", "config"}
       /\ RoleStep = "controlPlane" => work.pool \in ControlPools
       /\ RoleStep = "config" => work.pool \notin ControlPools
  BY <1>1, WorkerKnows
<1>13. StepOK'
  BY <1>9, <1>11, <1>12 DEF StepOK
<1>14. SourcesOK'
  <2>1. \A s : Bootable(s)' = Bootable(s)
    BY <1>1 DEF Bootable, feed
  <2>2. \A p \in Pools : templates'[p] # None => Bootable(templates'[p].source)
    BY <1>5, <1>6 DEF NodePoolInv, SourcesOK
  <2>3. QED
    BY <1>1, <1>11, <1>12, <2>1, <2>2 DEF NodePoolInv, SourcesOK, Bootable
<1>15. Goes(RoleStep, w)
  BY <1>9, <1>10, <1>12 DEF Goes, Steps
<1>16. PICK x : x = w
  OBVIOUS
<1>17. Claims(x.pool, x.conds)'
  BY <1>1, <1>2, <1>6, <1>9, <1>16 DEF Claims, Conditions
<1>18. ~w.failed /\ w.pool \notin queue => Followed
  BY <1>1, <1>9, WorkerKnows
<1>19. Followed' = Followed
  BY <1>1 DEF Followed
<1>20. QED
  BY <1>1, <1>7, <1>12, <1>13, <1>14, <1>15, <1>16, <1>17, <1>18, <1>19, CallKeeps

\* What the control plane and the workers' configs are made of is current,
\* unless the pool is in the queue again.
LEMMA ContentMade ==
  ASSUME NodePoolInv, step # "idle"
  PROVE  /\ WorkContent \in Contents /\ WorkContent # None
         /\ work.pool \notin queue => WorkContent = Current(work.pool)
<1>1. WorkContent \in Contents
  BY Working DEF NodePoolInv, WorkContent, Contents
<1>2. QED
  BY <1>1, NoneAssumption, WorkerKnows DEF WorkContent, Current

\* The control plane is made from what the worker read.
LEMMA ControlPlaneKeeps ==
  ASSUME NodePoolInv, ReconcileTalosControlPlane
  PROVE  NodePoolInv'
<1>1. /\ UNCHANGED <<cluster, taints, conditions, queue, feed>>
      /\ UNCHANGED <<installerVolumes, installerSource, templates, configs, deployments>>
      /\ changes' \in 0 .. MaxChanges /\ faults' \in 0 .. MaxFaults
      /\ step # "idle" /\ step = "controlPlane"
  BY BoundsKept DEF ReconcileTalosControlPlane, Writing, boundVars
<1>2. /\ work \in PoolWork /\ Claims(work.pool, work.conds) /\ work.pool \in ControlPools
      /\ work.conds \in [Conditions -> Reasons]
  BY <1>1, Working, WorkerKnows DEF NodePoolInv, StepOK
<1>3. CASE UNCHANGED controlPlanes
           /\ (Return(Marked("controlPlane", "waitingForClusterEndpoint")) \/ ControlPlaneErrors)
  BY <1>1, <1>3, ControlPlaneWaits DEF ControlPlaneErrors, Reasons, poolObjects
<1>4. CASE /\ controlPlanes' = [controlPlanes EXCEPT ![work.pool] = WorkContent]
           /\ Return(Marked("controlPlane", "reconciled"))
  <2> DEFINE w == Marked("controlPlane", "reconciled")
  <2>1. "controlPlane" \in Conditions /\ "reconciled" \in Reasons
    BY DEF Conditions, Reasons
  <2>2. /\ w \in PoolWork /\ w.pool = work.pool /\ w.taints = work.taints
        /\ w.cluster = work.cluster /\ w.failed = work.failed
        /\ w.conds = [work.conds EXCEPT !["controlPlane"] = "reconciled"]
    BY <1>2, <2>1, Marking
  <2>3. GoTo("status", w)
    BY <1>4 DEF Return
  <2> HIDE DEF w
  <2>4. step' = "status" /\ work' = w
    BY <2>3 DEF GoTo
  <2>5. controlPlanes \in [ControlPools -> {None} \cup Contents]
    BY DEF NodePoolInv, TypeOK
  <2>6. /\ controlPlanes' \in [ControlPools -> {None} \cup Contents]
        /\ controlPlanes'[work.pool] = WorkContent
        /\ \A p \in ControlPools \ {work.pool} : controlPlanes'[p] = controlPlanes[p]
    BY <1>1, <1>2, <1>4, <2>5, ContentMade
  <2>7. ObjectsTyped' /\ OwnObjectsOnly
    BY <1>1, <2>6 DEF NodePoolInv, TypeOK, ObjectsTyped, OwnObjectsOnly
  <2>8. StepOK' /\ SourcesOK'
    BY <1>1, <2>4 DEF NodePoolInv, StepOK, SourcesOK, Bootable, feed
  <2>9. Goes("status", w)
    BY <2>2, <2>3 DEF Goes, Steps
  <2>10. PICK x : x = w
    OBVIOUS
  <2>11. Claims(x.pool, x.conds)'
    BY <1>1, <1>2, <2>2, <2>10 DEF Claims, Conditions
  <2>12. x.pool \notin queue => Made(x.pool, x.conds)'
    <3>1. Current(x.pool)' = Current(x.pool)
      BY <1>1 DEF Current
    <3>2. x.conds["controlPlane"] = "reconciled"
      BY <1>2, <2>1, <2>2, <2>10
    <3>3. QED
      BY <1>1, <1>2, <2>2, <2>6, <2>10, <3>1, <3>2, ContentMade DEF Made
  <2>13. ~w.failed /\ w.pool \notin queue => Followed
    BY <1>1, <2>2, WorkerKnows
  <2>14. Followed' = Followed
    BY <1>1 DEF Followed
  <2>15. QED
    BY <1>1, <2>7, <2>8, <2>9, <2>10, <2>11, <2>12, <2>13, <2>14, CallKeeps
<1>5. QED
  BY <1>3, <1>4 DEF ReconcileTalosControlPlane

\* A config that parses is made from what the worker read.
LEMMA ConfigKeeps ==
  ASSUME NodePoolInv, ReconcileTalosConfigTemplate
  PROVE  NodePoolInv'
<1>1. /\ UNCHANGED <<cluster, taints, conditions, queue, feed>>
      /\ UNCHANGED <<installerVolumes, installerSource, templates, controlPlanes, deployments>>
      /\ changes' \in 0 .. MaxChanges /\ faults' \in 0 .. MaxFaults
      /\ step # "idle" /\ step = "config"
  BY BoundsKept DEF ReconcileTalosConfigTemplate, Writing, boundVars
<1>2. /\ work \in PoolWork /\ Claims(work.pool, work.conds)
      /\ work.pool \in Pools \ ControlPools
      /\ work.conds \in [Conditions -> Reasons]
  BY <1>1, Working, WorkerKnows DEF NodePoolInv, StepOK
<1>3. CASE UNCHANGED configs /\ Error(work)
  BY <1>1, <1>2, <1>3, ErrorKeeps DEF poolObjects
<1>4. CASE /\ configs' = [configs EXCEPT ![work.pool] = WorkContent]
           /\ GoTo("deployment", Marked("config", "reconciled"))
  <2> DEFINE w == Marked("config", "reconciled")
  <2>1. "config" \in Conditions /\ "reconciled" \in Reasons
    BY DEF Conditions, Reasons
  <2>2. /\ w \in PoolWork /\ w.pool = work.pool /\ w.taints = work.taints
        /\ w.cluster = work.cluster /\ w.failed = work.failed
        /\ w.conds = [work.conds EXCEPT !["config"] = "reconciled"]
    BY <1>2, <2>1, Marking
  <2>3. GoTo("deployment", w)
    BY <1>4
  <2> HIDE DEF w
  <2>4. step' = "deployment" /\ work' = w
    BY <2>3 DEF GoTo
  <2>5. configs \in [Pools \ ControlPools -> {None} \cup Contents]
    BY DEF NodePoolInv, TypeOK
  <2>6. /\ configs' \in [Pools \ ControlPools -> {None} \cup Contents]
        /\ configs'[work.pool] = WorkContent
        /\ \A p \in Pools \ ControlPools : p # work.pool => configs'[p] = configs[p]
    BY <1>1, <1>2, <1>4, <2>5, ContentMade
  <2>7. ObjectsTyped' /\ OwnObjectsOnly
    BY <1>1, <2>6 DEF NodePoolInv, TypeOK, ObjectsTyped, OwnObjectsOnly
  <2>8. StepOK' /\ SourcesOK'
    BY <1>1, <1>2, <2>2, <2>4 DEF NodePoolInv, StepOK, SourcesOK, Bootable, feed
  <2>9. Goes("deployment", w)
    BY <2>2, <2>3 DEF Goes, Steps
  <2>10. PICK x : x = w
    OBVIOUS
  <2>11. Claims(x.pool, x.conds)'
    BY <1>1, <1>2, <2>2, <2>10 DEF Claims, Conditions
  <2>12. w.pool \notin queue =>
           configs'[w.pool] = Current(w.pool) /\ w.conds["config"] # "unknown"
    BY <1>1, <1>2, <2>1, <2>2, <2>6, ContentMade
  <2>13. ~w.failed /\ w.pool \notin queue => Followed
    BY <1>1, <2>2, WorkerKnows
  <2>14. Followed' = Followed
    BY <1>1 DEF Followed
  <2>15. QED
    BY <1>1, <2>7, <2>8, <2>9, <2>10, <2>11, <2>12, <2>13, <2>14, CallKeeps
<1>5. QED
  BY <1>3, <1>4 DEF ReconcileTalosConfigTemplate

\* The deployment comes after the config it refers to.
LEMMA DeploymentKeeps ==
  ASSUME NodePoolInv, ReconcileMachineDeployment
  PROVE  NodePoolInv'
<1>1. /\ UNCHANGED <<cluster, taints, conditions, queue, feed>>
      /\ UNCHANGED <<installerVolumes, installerSource, templates, controlPlanes, configs>>
      /\ changes' \in 0 .. MaxChanges /\ faults' \in 0 .. MaxFaults
      /\ step # "idle" /\ step = "deployment"
  BY BoundsKept DEF ReconcileMachineDeployment, Writing, boundVars
<1>2. /\ work \in PoolWork /\ work # None /\ Claims(work.pool, work.conds)
      /\ work.pool \in Pools \ ControlPools
      /\ work.conds \in [Conditions -> Reasons]
  BY <1>1, Working, WorkerKnows DEF NodePoolInv, StepOK
<1>3. CASE UNCHANGED deployments /\ Return(Marked("deployment", "waitingForClusterEndpoint"))
  BY <1>1, <1>3, DeploymentWaits DEF poolObjects
<1>4. CASE /\ deployments' = deployments \cup {work.pool}
           /\ Return(Marked("deployment", "reconciled"))
  <2> DEFINE w == Marked("deployment", "reconciled")
  <2>1. "deployment" \in Conditions /\ "reconciled" \in Reasons
    BY DEF Conditions, Reasons
  <2>2. /\ w \in PoolWork /\ w.pool = work.pool /\ w.taints = work.taints
        /\ w.cluster = work.cluster /\ w.failed = work.failed
        /\ w.conds = [work.conds EXCEPT !["deployment"] = "reconciled"]
    BY <1>2, <2>1, Marking
  <2>3. GoTo("status", w)
    BY <1>4 DEF Return
  <2> HIDE DEF w
  <2>4. step' = "status" /\ work' = w
    BY <2>3 DEF GoTo
  <2>5. ObjectsTyped' /\ OwnObjectsOnly
    BY <1>1, <1>2, <1>4 DEF NodePoolInv, TypeOK, ObjectsTyped, OwnObjectsOnly
  <2>6. StepOK' /\ SourcesOK'
    BY <1>1, <2>4 DEF NodePoolInv, StepOK, SourcesOK, Bootable, feed
  <2>7. Goes("status", w)
    BY <2>2, <2>3 DEF Goes, Steps
  <2>8. PICK x : x = w
    OBVIOUS
  <2>9. Claims(x.pool, x.conds)'
    BY <1>1, <1>2, <1>4, <2>2, <2>8 DEF Claims, Conditions
  <2>10. x.pool \notin queue => Made(x.pool, x.conds)'
    <3>1. Current(x.pool)' = Current(x.pool)
      BY <1>1 DEF Current
    <3>2. x.pool \notin queue =>
            configs[x.pool] = Current(x.pool) /\ work.conds["config"] # "unknown"
      BY <1>1, <1>2, <2>2, <2>8 DEF NodePoolInv, CurrentOK
    <3>3. x.conds["config"] = work.conds["config"] /\ x.conds["deployment"] = "reconciled"
      BY <1>2, <2>1, <2>2, <2>8 DEF Conditions
    <3>4. QED
      BY <1>1, <1>2, <2>2, <2>8, <3>1, <3>2, <3>3 DEF Made
  <2>11. ~w.failed /\ w.pool \notin queue => Followed
    BY <1>1, <2>2, WorkerKnows
  <2>12. Followed' = Followed
    BY <1>1 DEF Followed
  <2>13. QED
    BY <1>1, <2>5, <2>6, <2>7, <2>8, <2>9, <2>10, <2>11, <2>12, CallKeeps
<1>5. QED
  BY <1>3, <1>4 DEF ReconcileMachineDeployment
-----------------------------------------------------------------------------
(* What others do between the worker's calls, and how it begins and ends.  *)

\* A changed cluster puts every pool in the queue.
LEMMA ChangeClusterKeeps ==
  ASSUME NodePoolInv, NEW c \in Clusters, ChangeCluster(c)
  PROVE  NodePoolInv'
<1> USE DEF ChangeCluster, DockyardsClusterToDockyardsNodePools
<1>1. changes' \in 0 .. MaxChanges
  BY BoundsKept
<1>2. queue' = Pools
  BY DEF NodePoolInv, TypeOK
<1>3. TypeOK'
  BY <1>1, <1>2 DEF NodePoolInv, TypeOK, poolObjects, feed
<1>4. StepOK' /\ SourcesOK' /\ ReportsOK'
  BY DEF NodePoolInv, StepOK, SourcesOK, Bootable, ReportsOK, Claims, poolObjects, feed
<1>5. work # None => work.pool \in Pools
  BY Working DEF NodePoolInv, TypeOK
<1>6. step # "idle" => work # None
  BY DEF NodePoolInv, TypeOK
<1>7. CurrentOK' /\ InstallerOK'
  BY <1>2, <1>5, <1>6 DEF CurrentOK, InstallerOK
<1>8. QED
  BY <1>3, <1>4, <1>7 DEF NodePoolInv

\* Changed taints put their pool in the queue and concern no other.
LEMMA ChangeTaintsKeeps ==
  ASSUME NodePoolInv, NEW p \in Pools, NEW t \in Taints, ChangeTaints(p, t)
  PROVE  NodePoolInv'
<1> USE DEF ChangeTaints
<1>1. changes' \in 0 .. MaxChanges
  BY BoundsKept
<1>2. taints \in [Pools -> Taints]
  BY DEF NodePoolInv, TypeOK
<1>3. TypeOK'
  BY <1>1, <1>2 DEF NodePoolInv, TypeOK, poolObjects, feed
<1>4. StepOK' /\ SourcesOK' /\ ReportsOK'
  BY DEF NodePoolInv, StepOK, SourcesOK, Bootable, ReportsOK, Claims, poolObjects, feed
<1>5. work # None => work.pool \in Pools
  BY Working DEF NodePoolInv, TypeOK
<1>6. \A q \in Pools \ queue' :
         q \in Pools \ queue /\ taints'[q] = taints[q] /\ Current(q)' = Current(q)
  BY <1>2 DEF Current
<1>7. \A q \in Pools \ queue' : \A conds : Made(q, conds)' = Made(q, conds)
  BY <1>6 DEF Made, poolObjects
<1>8. CurrentOK'
  BY <1>5, <1>6, <1>7 DEF NodePoolInv, CurrentOK, InWork, poolObjects
<1>9. InstallerOK'
  BY <1>5 DEF NodePoolInv, InstallerOK, InWork, Followed, poolObjects
<1>10. QED
  BY <1>3, <1>4, <1>8, <1>9 DEF NodePoolInv

\* A release may go, a data source stays.
LEMMA ChangeReleaseKeeps ==
  ASSUME NodePoolInv, ChangeRelease
  PROVE  NodePoolInv'
<1> USE DEF ChangeRelease
<1>1. released' \in BOOLEAN /\ sourced' \in BOOLEAN /\ (sourced => sourced')
  <2>1. released \in BOOLEAN /\ sourced \in BOOLEAN
    BY DEF NodePoolInv, TypeOK
  <2>2. CASE Appear
    BY <2>1, <2>2, Zenon DEF Appear
  <2>3. CASE Vanish
    BY <2>1, <2>3, Zenon DEF Vanish
  <2>4. CASE Provide
    BY <2>1, <2>4, Zenon DEF Provide
  <2>5. QED
    BY <2>2, <2>3, <2>4 DEF FeedNext
<1>2. TypeOK'
  BY <1>1 DEF NodePoolInv, TypeOK, poolObjects, workerVars, boundVars
<1>3. \A s : Bootable(s) => Bootable(s)'
  BY <1>1 DEF Bootable, poolObjects
<1>4. SourcesOK'
  BY <1>3 DEF NodePoolInv, SourcesOK, poolObjects, workerVars
<1>5. StepOK' /\ ReportsOK'
  BY DEF NodePoolInv, StepOK, ReportsOK, Claims, poolObjects, workerVars
<1>6. CurrentOK' /\ InstallerOK'
  BY DEF NodePoolInv, CurrentOK, InstallerOK, Made, Current, InWork, Followed,
         poolObjects, workerVars
<1>7. QED
  BY <1>2, <1>4, <1>5, <1>6 DEF NodePoolInv

\* The worker takes the pool out of the queue and reads it and the cluster as
\* they are.
LEMMA BeginKeeps ==
  ASSUME NodePoolInv, NEW p \in Pools, BeginPool(p)
  PROVE  NodePoolInv'
<1> DEFINE w == [pool |-> p, taints |-> taints[p], cluster |-> cluster, conds |-> conditions[p],
                 installer |-> None, source |-> None, storage |-> None, failed |-> FALSE]
<1>1. /\ step' = "installer" /\ work' = w /\ step = "idle"
      /\ queue' = queue \ {p}
      /\ UNCHANGED <<cluster, taints, poolObjects, conditions, boundVars, feed>>
  BY DEF BeginPool, GoTo
<1>2. w \in PoolWork
  BY DEF PoolWork, NodePoolInv, TypeOK
<1>3. w # None
  BY <1>2, NoneAssumption
<1>4. w.pool = p /\ w.taints = taints[p] /\ w.cluster = cluster /\ w.conds = conditions[p]
  OBVIOUS
<1> HIDE DEF w
<1>5. TypeOK'
  BY <1>1, <1>2, <1>3 DEF NodePoolInv, TypeOK, poolObjects, boundVars, feed
<1>6. StepOK' /\ SourcesOK'
  BY <1>1 DEF NodePoolInv, StepOK, SourcesOK, Bootable, poolObjects, feed
<1>7. ReportsOK'
  BY <1>1, <1>4 DEF NodePoolInv, ReportsOK, Claims, poolObjects
<1>8. work = None
  BY <1>1 DEF NodePoolInv, TypeOK
<1>9. \A q \in Pools : InWork(q)' = (q = p)
  BY <1>1, <1>3, <1>4 DEF InWork
<1>10. \A q \in Pools : ~InWork(q)
  BY <1>8 DEF InWork
<1>11. \A q \in Pools \ queue' : ~InWork(q)' => q \in Pools \ queue
  BY <1>1, <1>9
<1>12. \A q \in Pools : \A conds : Made(q, conds)' = Made(q, conds)
  BY <1>1 DEF Made, Current, poolObjects
<1>13. CurrentOK'
  BY <1>1, <1>4, <1>10, <1>11, <1>12 DEF NodePoolInv, CurrentOK
<1>14. InstallerOK'
  BY <1>1, <1>10, <1>11 DEF NodePoolInv, InstallerOK, Followed, poolObjects
<1>15. QED
  BY <1>5, <1>6, <1>7, <1>13, <1>14 DEF NodePoolInv

\* The worker stops: a pool it does not queue again has to be as it reports.
LEMMA StopKeeps ==
  ASSUME NodePoolInv, Stop,
         UNCHANGED <<cluster, taints, poolObjects, changes, feed>>,
         faults' \in 0 .. MaxFaults,
         queue \subseteq queue', queue' \subseteq Pools,
         conditions' \in [Pools -> [Conditions -> Reasons]],
         \A p \in Pools : Claims(p, conditions'[p]),
         \A p \in Pools \ queue' : ~InWork(p) => conditions'[p] = conditions[p],
         \A p \in Pools \ queue' : InWork(p) =>
           step = "status" /\ ~work.failed /\ conditions'[p] = work.conds
  PROVE  NodePoolInv'
<1>1. step' = "idle" /\ work' = None
  BY DEF Stop
<1>2. TypeOK'
  BY <1>1 DEF NodePoolInv, TypeOK, poolObjects, feed
<1>3. StepOK' /\ SourcesOK'
  BY <1>1 DEF NodePoolInv, StepOK, SourcesOK, Bootable, poolObjects, feed
<1>4. ReportsOK'
  BY <1>1 DEF ReportsOK, Claims, poolObjects
<1>5. \A p \in Pools : \A conds : Made(p, conds)' = Made(p, conds)
  BY DEF Made, Current, poolObjects
<1>6. \A p \in Pools \ queue' : Made(p, conditions'[p]) /\ Followed
  <2> SUFFICES ASSUME NEW p \in Pools \ queue'
               PROVE  Made(p, conditions'[p]) /\ Followed
    OBVIOUS
  <2>1. CASE InWork(p)
    BY <2>1 DEF InWork, NodePoolInv, CurrentOK, InstallerOK
  <2>2. CASE ~InWork(p)
    BY <2>2 DEF NodePoolInv, CurrentOK, InstallerOK
  <2>3. QED
    BY <2>1, <2>2
<1>7. CurrentOK'
  BY <1>1, <1>5, <1>6 DEF CurrentOK
<1>8. InstallerOK'
  BY <1>1, <1>6 DEF InstallerOK, Followed, poolObjects
<1>9. QED
  BY <1>2, <1>3, <1>4, <1>7, <1>8 DEF NodePoolInv

\* A reconciliation without an error, whose conditions were written before, is
\* the last one until something changes.
LEMMA PatchKeeps ==
  ASSUME NodePoolInv, PatchDockyardsNodePool
  PROVE  NodePoolInv'
<1> USE DEF PatchDockyardsNodePool
<1>1. /\ work.pool \in Pools /\ work.conds \in [Conditions -> Reasons]
      /\ Claims(work.pool, work.conds)
  BY Working, WorkerKnows DEF NodePoolInv
<1>2. conditions \in [Pools -> [Conditions -> Reasons]] /\ queue \subseteq Pools
  BY DEF NodePoolInv, TypeOK
<1>3. conditions' \in [Pools -> [Conditions -> Reasons]] /\ conditions'[work.pool] = work.conds
  BY <1>1, <1>2
<1>4. \A p \in Pools : p # work.pool => conditions'[p] = conditions[p]
  BY <1>2
<1>5. queue \subseteq queue' /\ queue' \subseteq Pools
      /\ (work.pool \notin queue' => ~work.failed)
  BY <1>1, <1>2
<1>6. \A p \in Pools : Claims(p, conditions'[p])
  BY <1>1, <1>3, <1>4 DEF NodePoolInv, ReportsOK
<1>7. faults' \in 0 .. MaxFaults
  BY BoundsKept DEF boundVars
<1>8. work # None
  BY Working DEF NodePoolInv
<1>9. UNCHANGED changes
  BY DEF boundVars
<1>10. \A p \in Pools : InWork(p) = (p = work.pool)
  BY <1>8 DEF InWork
<1>11. QED
  BY <1>3, <1>4, <1>5, <1>6, <1>7, <1>9, <1>10, StopKeeps

\* Conditions that are not written are worked out again.
LEMMA FailPatchKeeps ==
  ASSUME NodePoolInv, FailPatch
  PROVE  NodePoolInv'
<1> USE DEF FailPatch
<1>1. work.pool \in Pools /\ faults' \in 0 .. MaxFaults
  BY Working, BoundsKept DEF NodePoolInv
<1>2. conditions \in [Pools -> [Conditions -> Reasons]] /\ queue \subseteq Pools
      /\ \A p \in Pools : Claims(p, conditions[p])
  BY DEF NodePoolInv, TypeOK, ReportsOK
<1>3. queue \subseteq queue' /\ queue' \subseteq Pools
  BY <1>1, <1>2
<1>4. \A p \in Pools \ queue' : ~InWork(p)
  BY DEF InWork
<1>5. QED
  BY <1>1, <1>2, <1>3, <1>4, StopKeeps

\* A restart forgets the worker's pool and queues every one.
LEMMA RestartKeeps ==
  ASSUME NodePoolInv, Restart
  PROVE  NodePoolInv'
<1> USE DEF Restart
<1>1. faults' \in 0 .. MaxFaults
  BY BoundsKept
<1>2. conditions \in [Pools -> [Conditions -> Reasons]] /\ queue \subseteq Pools
      /\ \A p \in Pools : Claims(p, conditions[p])
  BY DEF NodePoolInv, TypeOK, ReportsOK
<1>3. QED
  BY <1>1, <1>2, StopKeeps

\* Nothing happens.
LEMMA StutterKeeps ==
  ASSUME NodePoolInv, UNCHANGED vars
  PROVE  NodePoolInv'
<1> USE DEF vars, poolObjects, workerVars, boundVars, feed
<1>1. TypeOK' /\ StepOK' /\ SourcesOK' /\ ReportsOK'
  BY DEF NodePoolInv, TypeOK, StepOK, SourcesOK, Bootable, ReportsOK, Claims
<1>2. CurrentOK' /\ InstallerOK'
  BY DEF NodePoolInv, CurrentOK, InstallerOK, Made, Current, InWork, Followed
<1>3. QED
  BY <1>1, <1>2 DEF NodePoolInv
-----------------------------------------------------------------------------
\* Whatever the pools, clusters and taints, and however often they change.
THEOREM NodePoolInvariant ==
  Spec => []NodePoolInv
<1>1. Init => NodePoolInv
  BY Initially
<1>2. NodePoolInv /\ [Next]_vars => NodePoolInv'
  <2> SUFFICES ASSUME NodePoolInv, [Next]_vars
               PROVE  NodePoolInv'
    OBVIOUS
  <2>1. CASE \E c \in Clusters : ChangeCluster(c)
    BY <2>1, ChangeClusterKeeps
  <2>2. CASE \E p \in Pools, t \in Taints : ChangeTaints(p, t)
    BY <2>2, ChangeTaintsKeeps
  <2>3. CASE ChangeRelease
    BY <2>3, ChangeReleaseKeeps
  <2>4. CASE Reconcile
    <3>1. CASE \E p \in Pools : BeginPool(p)
      BY <3>1, BeginKeeps
    <3>2. CASE ResolveTalosInstallerOverride \/ ReconcileCustomTalosInstallerDataSource
      BY <3>2, ResolveKeeps, InstallerKeeps
    <3>3. CASE FindDefaultSource \/ ResolveSettings \/ ReconcileMachineTemplate
      BY <3>3, FindDefaultKeeps, ResolveSettingsKeeps, TemplateKeeps
    <3>4. CASE \/ ReconcileTalosControlPlane \/ ReconcileTalosConfigTemplate
               \/ ReconcileMachineDeployment
      BY <3>4, ControlPlaneKeeps, ConfigKeeps, DeploymentKeeps
    <3>5. CASE PatchDockyardsNodePool \/ FailPool \/ FailPatch
      BY <3>5, PatchKeeps, FailPoolKeeps, FailPatchKeeps
    <3>6. QED
      BY <2>4, <3>1, <3>2, <3>3, <3>4, <3>5 DEF Reconcile
  <2>5. CASE Restart
    BY <2>5, RestartKeeps
  <2>6. CASE UNCHANGED vars
    BY <2>6, StutterKeeps
  <2>7. QED
    BY <2>1, <2>2, <2>3, <2>4, <2>5, <2>6 DEF Next
<1>3. QED
  BY <1>1, <1>2, PTL DEF Spec

\* Every variable keeps its type.
THEOREM NodePoolTypeOK ==
  Spec => []TypeOK
<1>1. NodePoolInv => TypeOK
  BY DEF NodePoolInv
<1>2. QED
  BY <1>1, NodePoolInvariant, PTL

\* A machine template never boots from a data source that has yet to be
\* written: what the worker found stays true until it writes the template.
THEOREM TemplatesBoot ==
  Spec => []TemplateBoots
<1>1. NodePoolInv => TemplateBoots
  BY DEF NodePoolInv, SourcesOK, Bootable, TemplateBoots
<1>2. QED
  BY <1>1, NodePoolInvariant, PTL

\* A Ready pool with no reconciliation ahead of it is made from the cluster
\* and the pool as they are now, also though a condition that was never set
\* does not keep it from being Ready: its role's conditions are set by then.
THEOREM ReadyPoolsAreCurrent ==
  Spec => []ReadyIsCurrent
<1>1. NodePoolInv => ReadyIsCurrent
  <2> SUFFICES ASSUME NodePoolInv, NEW p \in Pools, AtRest, Ready(p)
               PROVE  /\ conditions[p]["template"] = "unknown" \/ templates[p] # None
                      /\ IF p \in ControlPools THEN controlPlanes[p] = Current(p)
                         ELSE configs[p] = Current(p) /\ p \in deployments
    BY DEF ReadyIsCurrent, Current
  <2>1. Claims(p, conditions[p])
    BY DEF NodePoolInv, ReportsOK
  <2>2. work = None /\ queue = {}
    BY DEF NodePoolInv, TypeOK, AtRest
  <2>3. Made(p, conditions[p])
    BY <2>2 DEF NodePoolInv, CurrentOK, InWork
  <2>4. \A c \in SummaryConditions(p) : conditions[p][c] = "reconciled"
    BY DEF Ready
  <2>5. conditions[p]["template"] \in {"unknown", "reconciled"}
    BY <2>4 DEF SummaryConditions
  <2>6. CASE p \in ControlPools
    BY <2>1, <2>3, <2>4, <2>5, <2>6 DEF Claims, Made, SummaryConditions
  <2>7. CASE p \notin ControlPools
    BY <2>1, <2>3, <2>4, <2>5, <2>7 DEF Claims, Made, SummaryConditions
  <2>8. QED
    BY <2>6, <2>7
<1>2. QED
  BY <1>1, NodePoolInvariant, PTL

\* At rest a cluster with a pool has a data source of its own that names the
\* image it asks for; without pools nobody writes one.
THEOREM SourcesFollowInstallers ==
  ASSUME Pools # {}
  PROVE  Spec => []SourceFollowsInstaller
<1>1. NodePoolInv => SourceFollowsInstaller
  <2> SUFFICES ASSUME NodePoolInv, AtRest
               PROVE  Followed
    BY DEF SourceFollowsInstaller, Followed
  <2>1. work = None /\ queue = {}
    BY DEF NodePoolInv, TypeOK, AtRest
  <2>2. QED
    BY <2>1 DEF NodePoolInv, InstallerOK, InWork
<1>2. QED
  BY <1>1, NodePoolInvariant, PTL
=============================================================================
