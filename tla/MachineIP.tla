------------------------------ MODULE MachineIP ------------------------------
(***************************************************************************)
(* The machine IP reconciler: for every machine of a cluster with an       *)
(* external subnet it keeps an IPAM claim, gives the claim an address,     *)
(* reports the address in the claim's status, writes it into the machine's *)
(* bootstrap secret, and deletes a machine whose node joined before that.  *)
(*                                                                         *)
(* One worker runs Reconcile, one API call per step; pc is the next call.  *)
(* Reads come from informer caches.  The API objects of a kind are one     *)
(* variable, and next to it a log keeps the older snapshots, oldest first, *)
(* that the cache has still to move through; while the log is not empty    *)
(* the cache shows its head.  A constant bounds how many writes a cache    *)
(* may be behind; with bound 0 every read is current.                      *)
(*                                                                         *)
(* A definition introduced by "Fault" is a wrong version of the one below  *)
(* it, which no specification uses.                                        *)
(***************************************************************************)
EXTENDS IPv4Range, Sequences

CONSTANTS
  Machines,      \* names of the cluster's machines
  ControlPlane,  \* those that carry the control-plane label
  Configs,       \* external subnet (or None) and control-plane replicas
  MaxUID,        \* how often a machine name is created
  MaxReconfigs,  \* how often the configuration changes
  MaxFaults,     \* how often a call fails or the operator restarts
  ClaimLag, MachineLag, SecretLag  \* how many writes a cache may be behind

Config == [subnet : SubnetType \cup {None}, replicas : Nat]

ASSUME ConfigsAssumption == Configs \subseteq Config

ASSUME MachinesAssumption == ControlPlane \subseteq Machines

ASSUME BoundsAssumption == /\ MaxUID \in Nat
                           /\ MaxReconfigs \in Nat
                           /\ MaxFaults \in Nat
                           /\ {ClaimLag, MachineLag, SecretLag} \subseteq Nat

VARIABLES
  machines, machineLog,
  claims, claimLog,
  secrets, secretLog,  \* the addresses in each machine's bootstrap secret
  config,
  queue,               \* machines waiting for Reconcile, requeues included
  pc, work,            \* the worker's next call and its local variables
  created, reconfigs, faults

machineVars == <<machines, machineLog>>
claimVars   == <<claims, claimLog>>
secretVars  == <<secrets, secretLog>>
workerVars  == <<queue, pc, work>>
boundVars   == <<created, reconfigs, faults>>
vars == <<machineVars, claimVars, secretVars, config, workerVars, boundVars>>

Address == IPv4 \cup {None}

\* An address as the LinkConfig of the bootstrap data holds it.
Prefix == [addr : IPv4, size : 1 .. Space]

\* deletion tells why the deletion timestamp is set; vm is the bootstrap data
\* the machine booted with, joined whether its node has registered (NodeRef).
Machine == [uid : Nat, deletion : {"no", "external", "latePatch"},
            vm : {None} \cup SUBSET Prefix, joined : BOOLEAN]

\* told is the address in the status message; the reason follows the phase.
Claim == [subnet : SubnetType, addr : Address, owner : Nat, gen : Nat,
          phase : {"", "Pending", "Ready", "Failed"}, told : Address, observed : Nat]

Work == [m : Machines, machine : Machine, cfg : Config,
         claim : Claim \cup {None}, ip : Address]

NoObjects == [m \in Machines |-> None]

ASSUME NoObjectAssumption == /\ None \notin Machine
                             /\ None \notin Claim
                             /\ None \notin Work
                             /\ None \notin SubnetType

MachinesType == [Machines -> Machine \cup {None}]
ClaimsType   == [Machines -> Claim \cup {None}]
SecretsType  == [Machines -> {None} \cup SUBSET Prefix]

Steps == {"idle", "claim", "pending", "allocate", "failed", "ready",
          "bootstrap", "late", "delete"}

\* The cluster has an external subnet and a control plane, and the subnet has
\* room for the control plane, its surge and a worker.
ClusterRange(cfg) == NewIPv4Range(cfg.subnet, cfg.replicas + 1)

Usable(cfg) == /\ cfg.subnet # None
               /\ cfg.replicas >= 1
               /\ ClusterRange(cfg) # None

MachinesOK == /\ machines \in MachinesType /\ machineLog \in Seq(MachinesType)
              /\ Len(machineLog) <= MachineLag

ClaimsOK == /\ claims \in ClaimsType /\ claimLog \in Seq(ClaimsType)
            /\ Len(claimLog) <= ClaimLag

SecretsOK == /\ secrets \in SecretsType /\ secretLog \in Seq(SecretsType)
             /\ Len(secretLog) <= SecretLag

\* The worker has a claim once it has read or created one, and an address
\* once it has allocated or found one.
WorkerOK == /\ queue \subseteq Machines
            /\ pc \in Steps
            /\ work \in Work \cup {None}
            /\ (pc = "idle") = (work = None)
            /\ pc \notin {"idle", "claim"} => work.claim # None
            /\ pc \in {"ready", "bootstrap", "late", "delete"} => work.ip # None
            /\ pc # "idle" => Usable(work.cfg)

BoundsOK == /\ config \in Config
            /\ created \in [Machines -> Nat]
            /\ reconfigs \in Nat /\ faults \in Nat

\* Every variable has its type, and no cache is further behind than its bound.
TypeOK == MachinesOK /\ ClaimsOK /\ SecretsOK /\ WorkerOK /\ BoundsOK

Init == /\ machines = NoObjects /\ machineLog = <<>>
        /\ claims = NoObjects   /\ claimLog = <<>>
        /\ secrets = NoObjects  /\ secretLog = <<>>
        /\ config \in Configs
        /\ queue = {}
        /\ pc = "idle" /\ work = None
        /\ created = [m \in Machines |-> 0]
        /\ reconfigs = 0 /\ faults = 0
-----------------------------------------------------------------------------
(* The informer caches and the API server.                                 *)

Seen(truth, log) == IF log = <<>> THEN truth ELSE Head(log)

Bounded(log, lag) == IF Len(log) > lag THEN Tail(log) ELSE log

Logged(log, lag, old, new) == IF old = new THEN log ELSE Bounded(Append(log, old), lag)

UpdateMachine(m, x) ==
  /\ machines' = [machines EXCEPT ![m] = x]
  /\ machineLog' = Logged(machineLog, MachineLag, machines, machines')

SetClaim(m, c) ==
  /\ claims' = [claims EXCEPT ![m] = c]
  /\ claimLog' = Logged(claimLog, ClaimLag, claims, claims')

SetSecret(m, s) ==
  /\ secrets' = [secrets EXCEPT ![m] = s]
  /\ secretLog' = Logged(secretLog, SecretLag, secrets, secrets')

\* The machines whose cached object this step changes: their events.
Events == {m \in Machines : Seen(machines, machineLog)[m] # Seen(machines', machineLog')[m]}

SetMachine(m, x) == UpdateMachine(m, x) /\ queue' = queue \cup Events

\* A merge patch carries the fields in which desired differs from base and
\* leaves the others as they are on the server.
MergePatch(base, desired, target) ==
  [f \in DOMAIN target |-> IF base[f] = desired[f] THEN target[f] ELSE desired[f]]

\* The server increments the generation when the spec changes.
Patched(base, desired, target) ==
  LET merged == MergePatch(base, desired, target) IN
  IF merged.subnet = target.subnet /\ merged.addr = target.addr
  THEN merged
  ELSE [merged EXCEPT !.gen = target.gen + 1]

\* A cache moves on by one snapshot.
DeliverMachines ==
  /\ machineLog # <<>>
  /\ machineLog' = Tail(machineLog)
  /\ UNCHANGED machines
  /\ queue' = queue \cup Events
  /\ UNCHANGED <<claimVars, secretVars, config, pc, work, boundVars>>

DeliverClaims ==
  /\ claimLog # <<>>
  /\ claimLog' = Tail(claimLog)
  /\ UNCHANGED <<machineVars, claims, secretVars, config, workerVars, boundVars>>

DeliverSecrets ==
  /\ secretLog # <<>>
  /\ secretLog' = Tail(secretLog)
  /\ UNCHANGED <<machineVars, claimVars, secrets, config, workerVars, boundVars>>
-----------------------------------------------------------------------------
(* The environment: Cluster API, the bootstrap provider, the garbage       *)
(* collector, users, and restarts of the operator.                         *)

Exists(m) == machines[m] # None

CreateMachine(m) ==
  /\ ~Exists(m) /\ created[m] < MaxUID
  /\ created' = [created EXCEPT ![m] = @ + 1]
  /\ SetMachine(m, [uid |-> created'[m], deletion |-> "no", vm |-> None, joined |-> FALSE])
  /\ UNCHANGED <<claimVars, secretVars, config, pc, work, reconfigs, faults>>

\* The bootstrap provider writes the secret and names it in the TalosConfig.
PublishSecret(m) ==
  /\ Exists(m) /\ secrets[m] = None
  /\ SetSecret(m, {})
  /\ UNCHANGED <<machineVars, claimVars, config, workerVars, boundVars>>

\* The virtual machine starts with the bootstrap data of this moment.
Boot(m) ==
  /\ Exists(m) /\ machines[m].vm = None /\ machines[m].deletion = "no"
  /\ secrets[m] # None
  /\ SetMachine(m, [machines[m] EXCEPT !.vm = secrets[m]])
  /\ UNCHANGED <<claimVars, secretVars, config, pc, work, boundVars>>

Join(m) ==
  /\ Exists(m) /\ machines[m].vm # None /\ ~machines[m].joined
  /\ SetMachine(m, [machines[m] EXCEPT !.joined = TRUE])
  /\ UNCHANGED <<claimVars, secretVars, config, pc, work, boundVars>>

DeleteMachine(m) ==
  /\ Exists(m) /\ machines[m].deletion = "no"
  /\ SetMachine(m, [machines[m] EXCEPT !.deletion = "external"])
  /\ UNCHANGED <<claimVars, secretVars, config, pc, work, boundVars>>

MachineGone(m) ==
  /\ Exists(m) /\ machines[m].deletion # "no"
  /\ SetMachine(m, None)
  /\ SetSecret(m, None)
  /\ UNCHANGED <<claimVars, config, pc, work, boundVars>>

\* The machine the claim's owner reference names exists.
Owned(m) == /\ claims[m] # None
            /\ Exists(m) /\ machines[m].uid = claims[m].owner

CollectClaim(m) ==
  /\ claims[m] # None /\ ~Owned(m)
  /\ SetClaim(m, None)
  /\ UNCHANGED <<machineVars, secretVars, config, workerVars, boundVars>>

\* Fault: the Dockyards cluster is not watched.
UnwatchedCluster(c) == {}

\* Only the Dockyards cluster, which holds the subnet, is watched; replicas
\* come from the TalosControlPlane.
DockyardsClusterToMachines(c) ==
  IF c.subnet = config.subnet THEN {}
  ELSE {m \in Machines : Seen(machines, machineLog)[m] # None}

Reconfigure(c) ==
  /\ reconfigs < MaxReconfigs /\ c # config
  /\ config' = c
  /\ reconfigs' = reconfigs + 1
  /\ queue' = queue \cup DockyardsClusterToMachines(c)
  /\ UNCHANGED <<machineVars, claimVars, secretVars, pc, work, created, faults>>

\* A restarted operator lists every object and reconciles every machine.
Restart ==
  /\ faults < MaxFaults
  /\ faults' = faults + 1
  /\ machineLog' = <<>> /\ claimLog' = <<>> /\ secretLog' = <<>>
  /\ queue' = {m \in Machines : Exists(m)}
  /\ pc' = "idle" /\ work' = None
  /\ UNCHANGED <<machines, claims, secrets, config, created, reconfigs>>
-----------------------------------------------------------------------------
(* Reconcile.                                                              *)

\* Fault: local variables outlive the reconciliation.
FinishLeaking == pc' = "idle" /\ UNCHANGED <<work, queue>>

Finish == pc' = "idle" /\ work' = None /\ UNCHANGED queue

\* Fault: the machine is not tried again.
Forget == pc' = "idle" /\ work' = None /\ UNCHANGED queue

Requeue == pc' = "idle" /\ work' = None /\ queue' = queue \cup {work.m}

GoTo(step, w) == pc' = step /\ work' = w /\ UNCHANGED queue

\* Nothing to do: no machine, no external subnet, or a machine on its way out.
Ignores(seen) == \/ seen = None
                 \/ config.subnet = None
                 \/ seen # None /\ Usable(config) /\ seen.deletion # "no"

\* Without a usable range the machine is tried again, which changes nothing.
Begin(m) ==
  /\ pc = "idle" /\ m \in queue
  /\ LET seen == Seen(machines, machineLog)[m] IN
     \/ /\ Ignores(seen)
        /\ queue' = queue \ {m}
        /\ UNCHANGED <<pc, work>>
     \/ /\ ~Ignores(seen) /\ Usable(config)
        /\ queue' = queue \ {m}
        /\ pc' = "claim"
        /\ work' = [m |-> m, machine |-> seen, cfg |-> config, claim |-> None, ip |-> None]
  /\ UNCHANGED <<machineVars, claimVars, secretVars, config, boundVars>>

SeenClaim == Seen(claims, claimLog)[work.m]

\* r.Patch of the claim: an error if it is gone, else the worker goes on with
\* the server's version of it.
PatchClaim(base, desired, step, ip) ==
  \/ /\ claims[work.m] = None
     /\ Requeue
     /\ UNCHANGED claimVars
  \/ /\ claims[work.m] # None
     /\ LET served == Patched(base, desired, claims[work.m]) IN
          /\ SetClaim(work.m, served)
          /\ GoTo(step, [work EXCEPT !.claim = served, !.ip = ip])

EnsureRest == /\ pc = "claim"
              /\ UNCHANGED <<machineVars, secretVars, config, boundVars>>

NewClaim == [subnet |-> work.cfg.subnet, addr |-> None, owner |-> work.machine.uid,
             gen |-> 1, phase |-> "", told |-> None, observed |-> 0]

CreateClaim ==
  /\ EnsureRest
  /\ SeenClaim = None /\ claims[work.m] = None
  /\ SetClaim(work.m, NewClaim)
  /\ GoTo("pending", [work EXCEPT !.claim = NewClaim])

\* Create finds a claim the cache does not show yet.
CreateConflict ==
  /\ EnsureRest
  /\ SeenClaim = None /\ claims[work.m] # None
  /\ Requeue
  /\ UNCHANGED claimVars

\* Fault: the spec is written anew, without the address.
WantedClaimRebuilt ==
  [SeenClaim EXCEPT !.subnet = work.cfg.subnet, !.owner = work.machine.uid, !.addr = None]

WantedClaim == [SeenClaim EXCEPT !.subnet = work.cfg.subnet, !.owner = work.machine.uid]

KeepClaim ==
  /\ EnsureRest
  /\ SeenClaim # None /\ SeenClaim = WantedClaim
  /\ GoTo("pending", [work EXCEPT !.claim = SeenClaim])
  /\ UNCHANGED claimVars

AlignClaim ==
  /\ EnsureRest
  /\ SeenClaim # None /\ SeenClaim # WantedClaim
  /\ PatchClaim(SeenClaim, WantedClaim, "pending", None)

StatusRest == UNCHANGED <<machineVars, secretVars, config, boundVars>>

\* Fault: the message is written only when the phase changes.
ReportedOnChange(phase, told) ==
  [work.claim EXCEPT !.phase = phase, !.observed = work.claim.gen,
                     !.told = IF work.claim.phase = phase THEN work.claim.told ELSE told]

Reported(phase, told) ==
  [work.claim EXCEPT !.phase = phase, !.told = told, !.observed = work.claim.gen]

\* setClaimStatus skips the call when the worker's copy already says so.
SetClaimStatus(phase, told, step) ==
  \/ /\ work.claim = Reported(phase, told)
     /\ GoTo(step, work)
     /\ UNCHANGED claimVars
  \/ /\ work.claim # Reported(phase, told)
     /\ PatchClaim(work.claim, Reported(phase, told), step, work.ip)

MarkPending ==
  /\ pc = "pending" /\ work.claim.addr = None
  /\ SetClaimStatus("Pending", None, "allocate")
  /\ StatusRest

\* The claim has its address already.
UseAddress ==
  /\ pc \in {"pending", "allocate"} /\ work.claim.addr # None
  /\ GoTo("ready", [work EXCEPT !.ip = work.claim.addr])
  /\ UNCHANGED claimVars
  /\ StatusRest

\* Fault: only claims already reported Ready count.
InUseReady == {Seen(claims, claimLog)[n].addr :
  n \in {n \in Machines \ {work.m} : /\ Seen(claims, claimLog)[n] # None
                                    /\ Seen(claims, claimLog)[n].phase = "Ready"}} \ {None}

\* The addresses the claims in the cache hold, other than the machine's own.
InUse == {Seen(claims, claimLog)[n].addr :
            n \in {n \in Machines \ {work.m} : Seen(claims, claimLog)[n] # None}} \ {None}

Free == NextAvailableIP(work.m \in ControlPlane, InUse, ClusterRange(work.cfg))

Allocate ==
  /\ pc = "allocate" /\ work.claim.addr = None
  /\ \E ip \in {Free} \ {None} :
       PatchClaim(work.claim, [work.claim EXCEPT !.addr = ip], "ready", ip)
  /\ StatusRest

Exhaust ==
  /\ pc = "allocate" /\ work.claim.addr = None
  /\ Free = None
  /\ GoTo("failed", work)
  /\ UNCHANGED claimVars
  /\ StatusRest

\* The failure is reported and the machine tried again later.
MarkFailed ==
  /\ pc = "failed"
  /\ Requeue
  /\ IF claims[work.m] = None \/ work.claim = Reported("Failed", None)
     THEN UNCHANGED claimVars
     ELSE SetClaim(work.m, Patched(work.claim, Reported("Failed", None), claims[work.m]))
  /\ StatusRest

MarkReady ==
  /\ pc = "ready"
  /\ SetClaimStatus("Ready", work.ip, "bootstrap")
  /\ StatusRest

SeenSecret == Seen(secrets, secretLog)[work.m]

\* upsertLinkConfigInBootstrapData, by what it does to the prefixes of the
\* interface; the documents they are in are those of LinkConfig.
Wanted == Upsert(SeenSecret, [addr |-> work.ip, size |-> work.cfg.subnet.size])

SecretRest == /\ pc = "bootstrap"
              /\ UNCHANGED <<machineVars, claimVars, config, boundVars>>

\* No data secret in the TalosConfig: try again.  A secret the TalosConfig
\* names and the cache does not show yet ends the reconciliation for good.
AwaitSecret ==
  /\ SecretRest
  /\ SeenSecret = None
  /\ \/ Requeue
     \/ secrets[work.m] # None /\ Finish
  /\ UNCHANGED secretVars

\* Fault: a joined machine is replaced even when its data was right.
KeepSecretReplacing ==
  /\ SecretRest
  /\ SeenSecret # None /\ SeenSecret = Wanted
  /\ IF work.machine.joined THEN GoTo("late", work) ELSE Finish
  /\ UNCHANGED secretVars

KeepSecret ==
  /\ SecretRest
  /\ SeenSecret # None /\ SeenSecret = Wanted
  /\ Finish
  /\ UNCHANGED secretVars

PatchSecret ==
  /\ SecretRest
  /\ SeenSecret # None /\ SeenSecret # Wanted
  /\ \/ /\ secrets[work.m] = None
        /\ Requeue
        /\ UNCHANGED secretVars
     \/ /\ secrets[work.m] # None
        /\ SetSecret(work.m, Wanted)
        /\ IF work.machine.joined THEN GoTo("late", work) ELSE Finish

HasDeletingMachineInRole ==
  \E n \in Machines \ {work.m} :
    LET seen == Seen(machines, machineLog)[n] IN
    /\ seen # None /\ seen.deletion # "no"
    /\ (n \in ControlPlane) = (work.m \in ControlPlane)

\* The node joined without its address, so the machine is replaced, unless
\* another machine of its role is already on its way out.
LateCheck ==
  /\ pc = "late"
  /\ IF HasDeletingMachineInRole THEN Requeue ELSE GoTo("delete", work)
  /\ UNCHANGED <<machineVars, claimVars, secretVars, config, boundVars>>

LateDelete ==
  /\ pc = "delete"
  /\ IF Exists(work.m) /\ machines[work.m].deletion = "no"
     THEN UpdateMachine(work.m, [machines[work.m] EXCEPT !.deletion = "latePatch"])
     ELSE UNCHANGED machineVars
  /\ pc' = "idle" /\ work' = None
  /\ queue' = queue \cup {work.m} \cup Events
  /\ UNCHANGED <<claimVars, secretVars, config, boundVars>>

\* The list of the claims fails, or the patch of the claim does, or that is done
\* and its answer lost: the failure is reported first.
FailAllocate ==
  /\ pc = "allocate" /\ work.claim.addr = None /\ faults < MaxFaults
  /\ faults' = faults + 1
  /\ GoTo("failed", work)
  /\ \/ UNCHANGED claimVars
     \/ /\ claims[work.m] # None
        /\ \E ip \in {Free} \ {None} :
             SetClaim(work.m, Patched(work.claim, [work.claim EXCEPT !.addr = ip], claims[work.m]))
  /\ UNCHANGED <<machineVars, secretVars, config, created, reconfigs>>

\* Any other call fails, or is done and its answer lost: the machine is tried
\* again.  At "allocate" that is the report of Pending whose answer is lost.
FailCall ==
  /\ pc # "idle" /\ faults < MaxFaults
  /\ faults' = faults + 1
  /\ Requeue
  /\ UNCHANGED <<machineVars, claimVars, secretVars, config, created, reconfigs>>

Ensure == CreateClaim \/ CreateConflict \/ KeepClaim \/ AlignClaim

Assign == MarkPending \/ UseAddress \/ Allocate \/ Exhaust \/ MarkFailed \/ MarkReady

Bootstrap == AwaitSecret \/ KeepSecret \/ PatchSecret \/ LateCheck \/ LateDelete

Continue == Ensure \/ Assign \/ Bootstrap

Deliver == DeliverMachines \/ DeliverClaims \/ DeliverSecrets

Environment(m) == \/ CreateMachine(m) \/ PublishSecret(m) \/ Boot(m) \/ Join(m)
                  \/ DeleteMachine(m) \/ MachineGone(m) \/ CollectClaim(m)

Next == \/ \E m \in Machines : Begin(m) \/ Environment(m)
        \/ Continue
        \/ Deliver
        \/ \E c \in Configs : Reconfigure(c)
        \/ FailCall \/ FailAllocate
        \/ Restart

Spec == Init /\ [][Next]_vars
Fairness ==
  /\ WF_vars(Continue)
  /\ \A m \in Machines : SF_vars(Begin(m))
  /\ WF_vars(DeliverMachines) /\ WF_vars(DeliverClaims) /\ WF_vars(DeliverSecrets)

\* The worker goes on, the queue is served in turn, and caches catch up.
FairSpec == Spec /\ Fairness
-----------------------------------------------------------------------------
Leased(m) == claims[m] # None /\ claims[m].addr # None

Live(m) == Exists(m) /\ machines[m].deletion = "no"

\* No two claims of the cluster hold the same address.  That is so while the
\* worker is well informed (see PoolUnlessStale), and not in general.
UniqueAddress ==
  \A m, n \in Machines :
    m # n /\ Leased(m) /\ Leased(n) => claims[m].addr # claims[n].addr

\* Every address a machine booted with is the one its claim holds, so that
\* with UniqueAddress no two machines of the cluster run with one address:
\* the claim is neither collected nor given another address while the machine
\* is there, whatever the worker was about to write.
NodesUseLeases ==
  \A m \in Machines :
    Exists(m) /\ machines[m].vm # None =>
      \A p \in machines[m].vm : claims[m] # None /\ claims[m].addr = p.addr

\* A Ready status of the current generation reports the address of the spec,
\* also after a status patch from a stale copy.
ReadyIsTrue ==
  \A m \in Machines :
    claims[m] # None /\ claims[m].phase = "Ready" /\ claims[m].observed = claims[m].gen
      => claims[m].told = claims[m].addr

\* A joined machine that is sent to be replaced runs without its address,
\* unless the cache of the secrets is behind or the machine is another by now:
\* no failed call, no late boot and no claim patched meanwhile is a reason to
\* replace a node that has its address (upsertLinkConfigInBootstrapData, and
\* the late check after it).
ReplacedUnlessStale ==
  [][pc = "bootstrap" /\ pc' = "late" /\ secretLog = <<>>
       /\ Exists(work.m) /\ machines[work.m].uid = work.machine.uid
     => \A p \in machines[work.m].vm : p.addr # work.ip]_vars

\* "Subnet identifies the subnet pool used to allocate the address", as the
\* type says: the address of a claim is in its subnet.
AddressFromSubnet ==
  \A m \in Machines :
    Leased(m) => claims[m].addr \div claims[m].subnet.size =
                 claims[m].subnet.network \div claims[m].subnet.size

PoolLease == [m \in Machines |-> IF claims[m] = None THEN None ELSE claims[m].addr]

Lease == INSTANCE AddressPool WITH
  Addresses <- IPv4, lease <- PoolLease, owned <- {m \in Machines : Owned(m)}

\* The claims are an address pool: a lease starts on a free address, does not
\* change, and ends only when the machine that owns the claim is gone.
ImplementsPool == Lease!Spec

\* The worker is about to choose an address, and its copy of the claim is not
\* the server's, or the cache lacks an address another claim holds.
Misinformed ==
  \/ claims[work.m] # None /\ claims[work.m].addr # work.claim.addr
  \/ \E n \in Machines \ {work.m} : Leased(n) /\ claims[n].addr \notin InUse

\* However far the cache of the claims is behind, whichever calls fail and
\* whatever else has been done from stale copies, only the choice of an address
\* can break the pool, and only while the worker is misinformed: the
\* patches of owner, subnet and status take no address from a claim.
PoolUnlessStale ==
  [][(pc = "allocate" /\ Misinformed) \/ Lease!Next \/ UNCHANGED Lease!vars]_vars

\* A machine that stays, in a cluster whose subnet stays usable, is in the end
\* told an address.
EventuallyReady ==
  \A m \in Machines :
    Live(m) /\ Usable(config) ~>
      \/ ~Live(m) \/ ~Usable(config)
      \/ Leased(m) /\ claims[m].phase = "Ready"

InSecret(m) == IF secrets[m] = None THEN {} ELSE {p.addr : p \in secrets[m]}

\* Its bootstrap secret, once there is one, in the end holds that address.
EventuallyInSecret ==
  \A m \in Machines :
    Live(m) /\ Usable(config) /\ secrets[m] # None ~>
      \/ ~Live(m) \/ ~Usable(config)
      \/ Leased(m) /\ claims[m].addr \in InSecret(m)
=============================================================================
