-------------------------- MODULE MachineIPProofs --------------------------
(***************************************************************************)
(* Type correctness of the machine IP reconciler for every number of       *)
(* machines, every lag of the caches and any number of restarts; and how   *)
(* many machines of a role it replaces at a time, for every lag.           *)
(*                                                                         *)
(* FewReplaced is not inductive: LateDelete looks at nobody but its own    *)
(* machine.  FewOthers adds what LateCheck has found out before it, and    *)
(* FewUnseen what it may have missed in a cache that is behind.            *)
(***************************************************************************)
EXTENDS MachineIP, IPv4RangeProofs, SequenceTheorems, FiniteSetTheorems

-----------------------------------------------------------------------------
(* Caches and merge patches.                                               *)

\* A log keeps to its bound whatever is appended.
LEMMA LoggedTyping ==
  ASSUME NEW S, NEW log \in Seq(S), NEW lag \in Nat, Len(log) <= lag,
         NEW old \in S, NEW new \in S
  PROVE  /\ Logged(log, lag, old, new) \in Seq(S)
         /\ Len(Logged(log, lag, old, new)) <= lag
<1>1. Append(log, old) \in Seq(S) /\ Len(Append(log, old)) = Len(log) + 1
  BY AppendProperties
<1>2. Len(log) \in Nat
  BY LenProperties
<1>3. ASSUME NEW l \in Seq(S), l # <<>>
      PROVE  Tail(l) \in Seq(S) /\ Len(Tail(l)) = Len(l) - 1
  BY <1>3, HeadTailProperties
<1>4. Append(log, old) # <<>>
  BY <1>1, <1>2, EmptySeq
<1>5. QED
  BY <1>1, <1>2, <1>3, <1>4 DEF Logged, Bounded

\* A cache shows an object of the right type.
LEMMA SeenTyping ==
  ASSUME NEW S, NEW truth \in S, NEW log \in Seq(S)
  PROVE  Seen(truth, log) \in S
  BY HeadTailProperties DEF Seen

\* A delivery keeps the bound.
LEMMA TailTyping ==
  ASSUME NEW S, NEW log \in Seq(S), log # <<>>, NEW lag \in Nat, Len(log) <= lag
  PROVE  Tail(log) \in Seq(S) /\ Len(Tail(log)) <= lag
  BY HeadTailProperties, LenProperties

\* The server's answer to a merge patch of a claim is a claim.
LEMMA PatchedTyping ==
  ASSUME NEW base \in Claim, NEW desired \in Claim, NEW target \in Claim
  PROVE  Patched(base, desired, target) \in Claim
<1>1. MergePatch(base, desired, target) \in Claim
  BY DEF MergePatch, Claim
<1>2. target.gen \in Nat
  BY DEF Claim
<1>3. ASSUME NEW c \in Claim, NEW n \in Nat
      PROVE  [c EXCEPT !.gen = n] \in Claim
  BY DEF Claim
<1>4. [MergePatch(base, desired, target) EXCEPT !.gen = target.gen + 1] \in Claim
  BY <1>1, <1>2, <1>3
<1>5. QED
  BY <1>1, <1>4 DEF Patched

\* A patch that does not change the address leaves the server's address.
LEMMA PatchedAddress ==
  ASSUME NEW base \in Claim, NEW desired \in Claim, NEW target \in Claim
  PROVE  Patched(base, desired, target).addr =
           IF base.addr = desired.addr THEN target.addr ELSE desired.addr
  BY DEF Patched, MergePatch, Claim

-----------------------------------------------------------------------------
(* What the helpers of the actions do to the typed state.                  *)

\* The bounds on lags are numbers.
LEMMA Lags == ClaimLag \in Nat /\ MachineLag \in Nat /\ SecretLag \in Nat
  BY BoundsAssumption

\* Writing an object keeps truth and log typed.
LEMMA SetClaimTyping ==
  ASSUME ClaimsOK, NEW m \in Machines, NEW c \in Claim \cup {None}, SetClaim(m, c)
  PROVE  ClaimsOK'
<1>1. claims' \in ClaimsType
  BY DEF SetClaim, ClaimsOK, ClaimsType
<1>2. QED
  BY <1>1, LoggedTyping, Lags DEF SetClaim, ClaimsOK

\* The same of secrets.
LEMMA SetSecretTyping ==
  ASSUME SecretsOK, NEW m \in Machines, NEW x \in {None} \cup SUBSET Prefix, SetSecret(m, x)
  PROVE  SecretsOK'
<1>1. secrets' \in SecretsType
  BY DEF SetSecret, SecretsOK, SecretsType
<1>2. QED
  BY <1>1, LoggedTyping, Lags DEF SetSecret, SecretsOK

\* The same of machines.
LEMMA UpdateMachineTyping ==
  ASSUME MachinesOK, NEW m \in Machines, NEW x \in Machine \cup {None}, UpdateMachine(m, x)
  PROVE  MachinesOK'
<1>1. machines' \in MachinesType
  BY DEF UpdateMachine, MachinesOK, MachinesType
<1>2. QED
  BY <1>1, LoggedTyping, Lags DEF UpdateMachine, MachinesOK

\* What is read from a cache has its type.
LEMMA SeenMachine ==
  ASSUME MachinesOK, NEW m \in Machines
  PROVE  Seen(machines, machineLog)[m] \in Machine \cup {None}
<1>1. machines \in MachinesType /\ machineLog \in Seq(MachinesType)
  BY DEF MachinesOK
<1>2. Seen(machines, machineLog) \in MachinesType
  BY <1>1, SeenTyping
<1>3. QED
  BY <1>2 DEF MachinesType

\* So has a claim.
LEMMA SeenClaims ==
  ASSUME ClaimsOK, NEW m \in Machines
  PROVE  Seen(claims, claimLog)[m] \in Claim \cup {None}
<1>1. claims \in ClaimsType /\ claimLog \in Seq(ClaimsType)
  BY DEF ClaimsOK
<1>2. Seen(claims, claimLog) \in ClaimsType
  BY <1>1, SeenTyping
<1>3. QED
  BY <1>2 DEF ClaimsType

\* So has a secret.
LEMMA SeenSecrets ==
  ASSUME SecretsOK, NEW m \in Machines
  PROVE  Seen(secrets, secretLog)[m] \in {None} \cup SUBSET Prefix
<1>1. secrets \in SecretsType /\ secretLog \in Seq(SecretsType)
  BY DEF SecretsOK
<1>2. Seen(secrets, secretLog) \in SecretsType
  BY <1>1, SeenTyping
<1>3. QED
  BY <1>2 DEF SecretsType

\* The local variables of the worker while it reconciles.
LEMMA WorkTyping ==
  ASSUME WorkerOK, pc # "idle"
  PROVE  /\ work \in Work /\ work # None
         /\ work.m \in Machines /\ work.machine \in Machine
         /\ work.cfg \in Config /\ work.cfg.subnet \in SubnetType
         /\ work.claim \in Claim \cup {None} /\ work.ip \in Address
         /\ Usable(work.cfg)
<1>1. work \in Work /\ work # None /\ Usable(work.cfg)
  BY DEF WorkerOK
<1>2. work.cfg \in Config /\ work.cfg.subnet # None
  BY <1>1 DEF Work, Usable
<1>3. QED
  BY <1>1, <1>2 DEF Work, Config

\* Both ways to leave Reconcile.
LEMMA IdleTyping ==
  ASSUME WorkerOK, pc' = "idle", work' = None, queue' \subseteq Machines
  PROVE  WorkerOK'
  BY DEF WorkerOK, Steps

\* Requeue and Finish are ways to leave it.
LEMMA RequeueTyping ==
  ASSUME WorkerOK, pc # "idle", Requeue \/ Finish
  PROVE  WorkerOK'
<1>1. queue' \subseteq Machines /\ pc' = "idle" /\ work' = None
  BY WorkTyping DEF Requeue, Finish, WorkerOK
<1>2. QED
  BY <1>1, IdleTyping

\* Going on to a step whose local variables are ready.
LEMMA GoToTyping ==
  ASSUME WorkerOK, NEW step \in Steps \ {"idle"}, NEW w \in Work, GoTo(step, w),
         Usable(w.cfg),
         step # "claim" => w.claim # None,
         step \in {"ready", "bootstrap", "late", "delete"} => w.ip # None
  PROVE  WorkerOK'
<1>1. w # None
  BY NoObjectAssumption
<1>2. pc' = step /\ work' = w /\ queue' = queue
  BY DEF GoTo
<1>3. Usable(work.cfg)'
  BY <1>2 DEF Usable, ClusterRange
<1>4. QED
  BY <1>1, <1>2, <1>3 DEF WorkerOK, Steps

\* A patch of the worker's claim, whatever the server holds.
LEMMA PatchClaimTyping ==
  ASSUME ClaimsOK, WorkerOK, pc # "idle",
         NEW base \in Claim, NEW desired \in Claim,
         NEW step \in Steps \ {"idle", "claim"}, NEW ip \in Address,
         step \in {"ready", "bootstrap", "late", "delete"} => ip # None,
         PatchClaim(base, desired, step, ip)
  PROVE  ClaimsOK' /\ WorkerOK'
<1>1. CASE claims[work.m] = None /\ Requeue /\ UNCHANGED claimVars
  BY <1>1, RequeueTyping DEF ClaimsOK, claimVars
<1>2. ASSUME NEW served, served = Patched(base, desired, claims[work.m]),
             claims[work.m] # None,
             SetClaim(work.m, served),
             GoTo(step, [work EXCEPT !.claim = served, !.ip = ip])
      PROVE  ClaimsOK' /\ WorkerOK'
  <2>1. work \in Work /\ work.m \in Machines /\ Usable(work.cfg)
    BY WorkTyping
  <2>2. claims[work.m] \in Claim
    BY <1>2, <2>1 DEF ClaimsOK, ClaimsType
  <2>3. served \in Claim /\ served # None
    BY <1>2, <2>2, PatchedTyping, NoObjectAssumption
  <2>4. ClaimsOK'
    BY <1>2, <2>1, <2>3, SetClaimTyping
  <2> DEFINE w == [work EXCEPT !.claim = served, !.ip = ip]
  <2>5. w \in Work /\ w.cfg = work.cfg /\ w.claim = served /\ w.ip = ip
    BY <2>1, <2>3 DEF Work
  <2> HIDE DEF w
  <2>6. GoTo(step, w)
    BY <1>2 DEF w
  <2>7. WorkerOK'
    BY <2>1, <2>3, <2>5, <2>6, GoToTyping
  <2>8. QED
    BY <2>4, <2>7
<1>3. QED
  BY <1>1, <1>2 DEF PatchClaim

\* The address allocated is an address.
LEMMA FreeTyping ==
  ASSUME WorkerOK, pc # "idle"
  PROVE  /\ ClusterRange(work.cfg) \in RangeType
         /\ Free \in Address
         /\ Free # None => Free \notin InUse
<1>1. work.cfg.subnet \in SubnetType /\ work.cfg.replicas + 1 \in Int /\ ClusterRange(work.cfg) # None
  BY WorkTyping DEF Config, Usable
<1>2. ClusterRange(work.cfg) \in RangeType
  BY <1>1, RangeTyping DEF ClusterRange
<1>3. (work.m \in ControlPlane) \in BOOLEAN
  OBVIOUS
<1>4. ASSUME Free # None
      PROVE  Free \in Pool(ClusterRange(work.cfg), work.m \in ControlPlane) \ InUse
  BY <1>2, <1>3, <1>4, NextAvailableIPIsFree DEF Free
<1>5. Pool(ClusterRange(work.cfg), work.m \in ControlPlane) \subseteq IPv4
  BY <1>2, SpaceAssumption DEF Pool, RangeType, IPv4
<1>6. QED
  BY <1>2, <1>4, <1>5 DEF Address
-----------------------------------------------------------------------------
(* Type correctness.                                                       *)

\* The initial state is typed.
LEMMA TypeInit == Init => TypeOK
<1> SUFFICES ASSUME Init PROVE TypeOK
  OBVIOUS
<1>1. NoObjects \in MachinesType /\ NoObjects \in ClaimsType /\ NoObjects \in SecretsType
  BY DEF NoObjects, MachinesType, ClaimsType, SecretsType
<1>2. \A S : <<>> \in Seq(S) /\ Len(<<>>) = 0
  BY EmptySeq
<1>3. config \in Config
  BY ConfigsAssumption DEF Init
<1>4. created \in [Machines -> Nat]
  BY DEF Init
<1>5. MachinesOK /\ ClaimsOK /\ SecretsOK
  BY <1>1, <1>2, Lags DEF Init, MachinesOK, ClaimsOK, SecretsOK
<1>6. QED
  BY <1>3, <1>4, <1>5 DEF Init, TypeOK, WorkerOK, BoundsOK, Steps

\* Events are of machines.
LEMMA EventsTyping == Events \subseteq Machines
  BY DEF Events

\* Environment steps leave the worker alone and keep objects typed.
LEMMA TypeEnvironment ==
  ASSUME TypeOK, NEW m \in Machines, Environment(m)
  PROVE  TypeOK'
<1> USE DEF TypeOK
<1> DEFINE workerKept == pc' = pc /\ work' = work /\ queue' \subseteq Machines
<1>1. ASSUME workerKept PROVE WorkerOK'
  BY <1>1 DEF WorkerOK, Usable, ClusterRange
<1>2. ASSUME NEW x, SetMachine(m, x), UNCHANGED <<pc, work>> PROVE workerKept
  BY <1>2, EventsTyping DEF SetMachine, WorkerOK
<1>3. ASSUME UNCHANGED workerVars PROVE WorkerOK'
  BY <1>3 DEF workerVars, WorkerOK, Usable, ClusterRange
<1> HIDE DEF workerKept
<1>4. CASE CreateMachine(m)
  <2> DEFINE x == [uid |-> created'[m], deletion |-> "no", vm |-> None, joined |-> FALSE]
  <2>1. created' \in [Machines -> Nat]
    BY <1>4 DEF CreateMachine, BoundsOK
  <2>2. x \in Machine
    BY <2>1 DEF Machine
  <2> HIDE DEF x
  <2>3. SetMachine(m, x) /\ UNCHANGED <<pc, work>>
    BY <1>4 DEF CreateMachine, x
  <2>4. MachinesOK'
    BY <2>2, <2>3, UpdateMachineTyping DEF SetMachine
  <2>5. ClaimsOK' /\ SecretsOK'
    BY <1>4 DEF CreateMachine, claimVars, secretVars, ClaimsOK, SecretsOK
  <2>6. BoundsOK'
    BY <1>4, <2>1 DEF CreateMachine, BoundsOK
  <2>7. WorkerOK'
    BY <1>1, <1>2, <2>3
  <2>8. QED
    BY <2>4, <2>5, <2>6, <2>7
<1>5. CASE PublishSecret(m)
  <2>1. SecretsOK'
    BY <1>5, SetSecretTyping DEF PublishSecret
  <2>2. MachinesOK' /\ ClaimsOK' /\ BoundsOK'
    BY <1>5 DEF PublishSecret, machineVars, claimVars, boundVars, MachinesOK, ClaimsOK, BoundsOK
  <2>3. WorkerOK'
    BY <1>3, <1>5 DEF PublishSecret
  <2>4. QED
    BY <2>1, <2>2, <2>3
<1>6. ASSUME NEW x \in Machine \cup {None}, SetMachine(m, x),
             UNCHANGED <<claimVars, config, pc, work, boundVars>>,
             SecretsOK'
      PROVE  TypeOK'
  <2>1. MachinesOK'
    BY <1>6, UpdateMachineTyping DEF SetMachine
  <2>2. ClaimsOK' /\ BoundsOK'
    BY <1>6 DEF claimVars, boundVars, ClaimsOK, BoundsOK
  <2>3. WorkerOK'
    BY <1>1, <1>2, <1>6
  <2>4. QED
    BY <1>6, <2>1, <2>2, <2>3
<1>7. ASSUME UNCHANGED secretVars PROVE SecretsOK'
  BY <1>7 DEF secretVars, SecretsOK
<1>8. ASSUME Exists(m) PROVE machines[m] \in Machine
  BY <1>8 DEF Exists, MachinesOK, MachinesType
<1>9. secrets[m] \in {None} \cup SUBSET Prefix
  BY DEF SecretsOK, SecretsType
<1>10. CASE Boot(m)
  <2>1. [machines[m] EXCEPT !.vm = secrets[m]] \in Machine
    BY <1>8, <1>9, <1>10 DEF Boot, Machine
  <2>2. QED
    BY <1>6, <1>7, <1>10, <2>1 DEF Boot
<1>11. CASE Join(m)
  <2>1. [machines[m] EXCEPT !.joined = TRUE] \in Machine
    BY <1>8, <1>11 DEF Join, Machine
  <2>2. QED
    BY <1>6, <1>7, <1>11, <2>1 DEF Join
<1>12. CASE DeleteMachine(m)
  <2>1. [machines[m] EXCEPT !.deletion = "external"] \in Machine
    BY <1>8, <1>12 DEF DeleteMachine, Machine
  <2>2. QED
    BY <1>6, <1>7, <1>12, <2>1 DEF DeleteMachine
<1>13. CASE MachineGone(m)
  <2>1. SecretsOK'
    BY <1>13, SetSecretTyping DEF MachineGone
  <2>2. QED
    BY <1>6, <1>13, <2>1 DEF MachineGone
<1>14. CASE CollectClaim(m)
  <2>1. ClaimsOK'
    BY <1>14, SetClaimTyping DEF CollectClaim
  <2>2. MachinesOK' /\ SecretsOK' /\ BoundsOK'
    BY <1>14 DEF CollectClaim, machineVars, secretVars, boundVars, MachinesOK, SecretsOK, BoundsOK
  <2>3. WorkerOK'
    BY <1>3, <1>14 DEF CollectClaim
  <2>4. QED
    BY <2>1, <2>2, <2>3
<1>15. QED
  BY <1>4, <1>5, <1>10, <1>11, <1>12, <1>13, <1>14 DEF Environment

\* Deliveries, reconfigurations, failed calls and restarts.
LEMMA TypeSurroundings ==
  ASSUME TypeOK, Deliver \/ (\E c \in Configs : Reconfigure(c)) \/ FailCall \/ FailAllocate \/ Restart
  PROVE  TypeOK'
<1> USE DEF TypeOK
<1>1. ASSUME UNCHANGED workerVars PROVE WorkerOK'
  BY <1>1 DEF workerVars, WorkerOK, Usable, ClusterRange
<1>2. ASSUME UNCHANGED <<pc, work>>, queue' \subseteq Machines PROVE WorkerOK'
  BY <1>2 DEF WorkerOK, Usable, ClusterRange
<1>3. CASE DeliverMachines
  <2>1. MachinesOK'
    BY <1>3, TailTyping, Lags DEF DeliverMachines, MachinesOK
  <2>2. queue' \subseteq Machines /\ UNCHANGED <<pc, work>>
    BY <1>3, EventsTyping DEF DeliverMachines, WorkerOK
  <2>3. ClaimsOK' /\ SecretsOK' /\ BoundsOK'
    BY <1>3 DEF DeliverMachines, claimVars, secretVars, boundVars, ClaimsOK, SecretsOK, BoundsOK
  <2>4. QED
    BY <1>2, <2>1, <2>2, <2>3
<1>4. CASE DeliverClaims
  <2>1. ClaimsOK'
    BY <1>4, TailTyping, Lags DEF DeliverClaims, ClaimsOK
  <2>2. MachinesOK' /\ SecretsOK' /\ BoundsOK'
    BY <1>4 DEF DeliverClaims, machineVars, secretVars, boundVars, MachinesOK, SecretsOK, BoundsOK
  <2>3. QED
    BY <1>1, <1>4, <2>1, <2>2 DEF DeliverClaims
<1>5. CASE DeliverSecrets
  <2>1. SecretsOK'
    BY <1>5, TailTyping, Lags DEF DeliverSecrets, SecretsOK
  <2>2. MachinesOK' /\ ClaimsOK' /\ BoundsOK'
    BY <1>5 DEF DeliverSecrets, machineVars, claimVars, boundVars, MachinesOK, ClaimsOK, BoundsOK
  <2>3. QED
    BY <1>1, <1>5, <2>1, <2>2 DEF DeliverSecrets
<1>6. ASSUME NEW c \in Configs, Reconfigure(c) PROVE TypeOK'
  <2>1. MachinesOK' /\ ClaimsOK' /\ SecretsOK'
    BY <1>6 DEF Reconfigure, machineVars, claimVars, secretVars, MachinesOK, ClaimsOK, SecretsOK
  <2>2. BoundsOK'
    BY <1>6, ConfigsAssumption DEF Reconfigure, BoundsOK
  <2>3. queue' \subseteq Machines
    BY <1>6 DEF Reconfigure, DockyardsClusterToMachines, WorkerOK
  <2>4. QED
    BY <1>2, <1>6, <2>1, <2>2, <2>3 DEF Reconfigure
<1>7. CASE Restart
  <2>1. \A S : <<>> \in Seq(S) /\ Len(<<>>) = 0
    BY EmptySeq
  <2>2. MachinesOK' /\ ClaimsOK' /\ SecretsOK'
    BY <1>7, <2>1, Lags DEF Restart, MachinesOK, ClaimsOK, SecretsOK
  <2>3. BoundsOK'
    BY <1>7 DEF Restart, BoundsOK
  <2>4. queue' \subseteq Machines /\ pc' = "idle" /\ work' = None
    BY <1>7 DEF Restart
  <2>5. QED
    BY <2>2, <2>3, <2>4, IdleTyping
<1>8. CASE FailCall
  <2>1. MachinesOK' /\ ClaimsOK' /\ SecretsOK' /\ BoundsOK'
    BY <1>8 DEF FailCall, machineVars, claimVars, secretVars,
                MachinesOK, ClaimsOK, SecretsOK, BoundsOK
  <2>2. WorkerOK'
    BY <1>8, RequeueTyping DEF FailCall
  <2>3. QED
    BY <2>1, <2>2
<1>9. CASE FailAllocate
  <2>1. /\ work \in Work /\ work.m \in Machines /\ work.claim \in Claim /\ work.claim # None
        /\ Usable(work.cfg)
    BY <1>9, WorkTyping DEF FailAllocate, WorkerOK
  <2>2. MachinesOK' /\ SecretsOK' /\ BoundsOK'
    BY <1>9 DEF FailAllocate, machineVars, secretVars, MachinesOK, SecretsOK, BoundsOK
  <2>3. WorkerOK'
    BY <1>9, <2>1, GoToTyping DEF FailAllocate, Steps
  <2>4. CASE UNCHANGED claimVars
    BY <2>2, <2>3, <2>4 DEF claimVars, ClaimsOK
  <2>5. ASSUME claims[work.m] # None, NEW ip \in {Free} \ {None},
               SetClaim(work.m, Patched(work.claim, [work.claim EXCEPT !.addr = ip],
                                        claims[work.m]))
        PROVE  TypeOK'
    <3>1. ip \in Address
      BY <1>9, <2>5, FreeTyping DEF FailAllocate
    <3>2. [work.claim EXCEPT !.addr = ip] \in Claim /\ claims[work.m] \in Claim
      BY <2>1, <2>5, <3>1 DEF Claim, ClaimsOK, ClaimsType
    <3>3. ClaimsOK'
      BY <2>1, <2>5, <3>2, PatchedTyping, SetClaimTyping
    <3>4. QED
      BY <2>2, <2>3, <3>3
  <2>6. QED
    BY <1>9, <2>4, <2>5 DEF FailAllocate
<1>10. QED
  BY <1>3, <1>4, <1>5, <1>6, <1>7, <1>8, <1>9 DEF Deliver

\* A reconciliation starts.
LEMMA TypeBegin ==
  ASSUME TypeOK, NEW m \in Machines, Begin(m)
  PROVE  TypeOK'
<1> USE DEF TypeOK
<1> DEFINE seen == Seen(machines, machineLog)[m]
           w == [m |-> m, machine |-> seen, cfg |-> config, claim |-> None, ip |-> None]
<1>1. MachinesOK' /\ ClaimsOK' /\ SecretsOK' /\ BoundsOK'
  BY DEF Begin, machineVars, claimVars, secretVars, boundVars,
         MachinesOK, ClaimsOK, SecretsOK, BoundsOK
<1>2. queue \subseteq Machines
  BY DEF WorkerOK
<1>3. CASE queue' = queue \ {m} /\ UNCHANGED <<pc, work>>
  <2>1. WorkerOK'
    BY <1>2, <1>3 DEF WorkerOK, Usable, ClusterRange
  <2>2. QED
    BY <1>1, <2>1
<1>4. CASE /\ ~Ignores(seen) /\ Usable(config)
           /\ queue' = queue \ {m} /\ pc' = "claim" /\ work' = w
  <2>1. seen \in Machine
    BY <1>4, SeenMachine DEF Ignores
  <2>2. config \in Config
    BY DEF BoundsOK
  <2>3. w \in Work /\ w.cfg = config
    BY <2>1, <2>2 DEF Work, Address
  <2>4. w # None
    BY <2>3, NoObjectAssumption
  <2> HIDE DEF w
  <2>5. Usable(work.cfg)'
    BY <1>4, <2>3 DEF Usable, ClusterRange
  <2>6. WorkerOK'
    BY <1>2, <1>4, <2>3, <2>4, <2>5 DEF WorkerOK, Steps
  <2>7. QED
    BY <1>1, <2>6
<1>5. QED
  BY <1>3, <1>4 DEF Begin

\* The steps that read, create or align the claim.
LEMMA TypeEnsure ==
  ASSUME TypeOK, Ensure
  PROVE  TypeOK'
<1> USE DEF TypeOK
<1>1. pc = "claim" /\ MachinesOK' /\ SecretsOK' /\ BoundsOK'
  BY DEF Ensure, CreateClaim, CreateConflict, KeepClaim, AlignClaim, EnsureRest,
         machineVars, secretVars, boundVars, MachinesOK, SecretsOK, BoundsOK
<1>2. /\ work \in Work /\ work.m \in Machines /\ Usable(work.cfg)
      /\ work.machine.uid \in Nat /\ work.cfg.subnet \in SubnetType
  BY <1>1, WorkTyping DEF Machine
<1>3. SeenClaim \in Claim \cup {None}
  BY <1>2, SeenClaims DEF SeenClaim
<1>4. ASSUME UNCHANGED claimVars PROVE ClaimsOK'
  BY <1>4 DEF claimVars, ClaimsOK
<1>5. ASSUME NEW c \in Claim, GoTo("pending", [work EXCEPT !.claim = c]) PROVE WorkerOK'
  <2> DEFINE w == [work EXCEPT !.claim = c]
  <2>1. w \in Work /\ w.cfg = work.cfg /\ w.claim = c
    BY <1>2 DEF Work
  <2>2. c # None
    BY NoObjectAssumption
  <2> HIDE DEF w
  <2>3. GoTo("pending", w)
    BY <1>5 DEF w
  <2>4. QED
    BY <1>2, <2>1, <2>2, <2>3, GoToTyping DEF Steps
<1>6. CASE CreateClaim
  <2>1. NewClaim \in Claim
    BY <1>2 DEF NewClaim, Claim, Address
  <2>2. ClaimsOK'
    BY <1>2, <1>6, <2>1, SetClaimTyping DEF CreateClaim
  <2>3. QED
    BY <1>1, <1>5, <1>6, <2>1, <2>2 DEF CreateClaim
<1>7. CASE CreateConflict
  BY <1>1, <1>4, <1>7, RequeueTyping DEF CreateConflict
<1>8. CASE KeepClaim
  BY <1>1, <1>3, <1>4, <1>5, <1>8 DEF KeepClaim
<1>9. CASE AlignClaim
  <2>1. SeenClaim \in Claim
    BY <1>3, <1>9 DEF AlignClaim
  <2>2. WantedClaim \in Claim
    BY <1>2, <2>1 DEF WantedClaim, Claim
  <2>3. QED
    BY <1>1, <1>9, <2>1, <2>2, PatchClaimTyping DEF AlignClaim, Steps, Address
<1>10. QED
  BY <1>6, <1>7, <1>8, <1>9 DEF Ensure

\* A status update of the worker's claim.
LEMMA SetClaimStatusTyping ==
  ASSUME ClaimsOK, WorkerOK, pc \notin {"idle", "claim"},
         NEW phase \in {"Pending", "Ready", "Failed"}, NEW told \in Address,
         NEW step \in {"allocate", "bootstrap"},
         step = "bootstrap" => work.ip # None,
         SetClaimStatus(phase, told, step)
  PROVE  ClaimsOK' /\ WorkerOK'
<1>1. /\ work \in Work /\ Usable(work.cfg) /\ work.claim # None
      /\ work.claim \in Claim /\ work.ip \in Address
  BY WorkTyping DEF WorkerOK
<1>2. Reported(phase, told) \in Claim
  BY <1>1 DEF Reported, Claim
<1>3. CASE GoTo(step, work) /\ UNCHANGED claimVars
  <2>1. ClaimsOK'
    BY <1>3 DEF claimVars, ClaimsOK
  <2>2. QED
    BY <1>1, <1>3, <2>1, GoToTyping DEF Steps
<1>4. CASE PatchClaim(work.claim, Reported(phase, told), step, work.ip)
  BY <1>1, <1>2, <1>4, PatchClaimTyping DEF Steps
<1>5. QED
  BY <1>3, <1>4 DEF SetClaimStatus

\* The steps that find the address and report it.
LEMMA TypeAssign ==
  ASSUME TypeOK, Assign
  PROVE  TypeOK'
<1> USE DEF TypeOK
<1>1. /\ pc \in {"pending", "allocate", "failed", "ready"}
      /\ MachinesOK' /\ SecretsOK' /\ BoundsOK'
  BY DEF Assign, MarkPending, UseAddress, Allocate, Exhaust, MarkFailed, MarkReady, StatusRest,
         machineVars, secretVars, boundVars, MachinesOK, SecretsOK, BoundsOK
<1>2. /\ work \in Work /\ work.m \in Machines /\ Usable(work.cfg)
      /\ work.claim \in Claim /\ work.claim # None /\ work.ip \in Address
  BY <1>1, WorkTyping DEF WorkerOK
<1>3. ASSUME UNCHANGED claimVars PROVE ClaimsOK'
  BY <1>3 DEF claimVars, ClaimsOK
<1>4. CASE MarkPending
  BY <1>1, <1>4, SetClaimStatusTyping DEF MarkPending, Address
<1>5. CASE UseAddress
  <2> DEFINE w == [work EXCEPT !.ip = work.claim.addr]
  <2>1. w \in Work /\ w.cfg = work.cfg /\ w.claim = work.claim /\ w.ip = work.claim.addr
    BY <1>2 DEF Work, Claim
  <2> HIDE DEF w
  <2>2. GoTo("ready", w) /\ w.ip # None
    BY <1>5, <2>1 DEF UseAddress, w
  <2>3. WorkerOK'
    BY <1>2, <2>1, <2>2, GoToTyping DEF Steps
  <2>4. QED
    BY <1>1, <1>3, <1>5, <2>3 DEF UseAddress
<1>6. CASE Allocate
  <2>1. PICK ip \in {Free} \ {None} :
          PatchClaim(work.claim, [work.claim EXCEPT !.addr = ip], "ready", ip)
    BY <1>6 DEF Allocate
  <2>2. ip \in Address /\ ip # None
    BY <1>1, <2>1, FreeTyping
  <2>3. [work.claim EXCEPT !.addr = ip] \in Claim
    BY <1>2, <2>2 DEF Claim
  <2>4. QED
    BY <1>1, <1>2, <2>1, <2>2, <2>3, PatchClaimTyping DEF Steps
<1>7. CASE Exhaust
  <2>1. WorkerOK'
    BY <1>2, <1>7, GoToTyping DEF Exhaust, Steps
  <2>2. QED
    BY <1>1, <1>3, <1>7, <2>1 DEF Exhaust
<1>8. CASE MarkFailed
  <2>1. WorkerOK'
    BY <1>1, <1>8, RequeueTyping DEF MarkFailed
  <2>2. Reported("Failed", None) \in Claim
    BY <1>2 DEF Reported, Claim, Address
  <2>3. ASSUME claims[work.m] # None
        PROVE  Patched(work.claim, Reported("Failed", None), claims[work.m]) \in Claim
    BY <1>2, <2>2, <2>3, PatchedTyping DEF ClaimsOK, ClaimsType
  <2>4. ClaimsOK'
    BY <1>2, <1>3, <1>8, <2>3, SetClaimTyping DEF MarkFailed
  <2>5. QED
    BY <1>1, <2>1, <2>4
<1>9. CASE MarkReady
  <2>1. work.ip # None
    BY <1>9 DEF MarkReady, WorkerOK
  <2>2. QED
    BY <1>1, <1>2, <1>9, <2>1, SetClaimStatusTyping DEF MarkReady
<1>10. QED
  BY <1>4, <1>5, <1>6, <1>7, <1>8, <1>9 DEF Assign

\* The steps on the bootstrap secret and the late delete.
LEMMA TypeBootstrap ==
  ASSUME TypeOK, Bootstrap
  PROVE  TypeOK'
<1> USE DEF TypeOK
<1>1. pc \in {"bootstrap", "late", "delete"} /\ ClaimsOK' /\ BoundsOK'
  BY DEF Bootstrap, AwaitSecret, KeepSecret, PatchSecret, LateCheck, LateDelete, SecretRest,
         claimVars, boundVars, ClaimsOK, BoundsOK
<1>2. /\ work \in Work /\ work.m \in Machines /\ Usable(work.cfg)
      /\ work.claim # None /\ work.ip # None
  BY <1>1, WorkTyping DEF WorkerOK
<1>3. ASSUME UNCHANGED machineVars PROVE MachinesOK'
  BY <1>3 DEF machineVars, MachinesOK
<1>4. ASSUME UNCHANGED secretVars PROVE SecretsOK'
  BY <1>4 DEF secretVars, SecretsOK
<1>5. CASE AwaitSecret \/ KeepSecret
  <2>1. WorkerOK'
    BY <1>1, <1>5, RequeueTyping DEF AwaitSecret, KeepSecret
  <2>2. QED
    BY <1>1, <1>3, <1>4, <1>5, <2>1 DEF AwaitSecret, KeepSecret, SecretRest
<1>6. CASE PatchSecret
  <2>1. MachinesOK'
    BY <1>3, <1>6 DEF PatchSecret, SecretRest
  <2>2. CASE Requeue /\ UNCHANGED secretVars
    BY <1>1, <1>4, <2>1, <2>2, RequeueTyping
  <2>3. CASE /\ SeenSecret # None /\ SetSecret(work.m, Wanted)
             /\ IF work.machine.joined THEN GoTo("late", work) ELSE Finish
    <3>1. SeenSecret \in SUBSET Prefix
      BY <1>2, <2>3, SeenSecrets DEF SeenSecret
    <3>2. [addr |-> work.ip, size |-> work.cfg.subnet.size] \in Prefix
      BY <1>1, <1>2, WorkTyping DEF Prefix, Address, SubnetType
    <3>3. Wanted \in SUBSET Prefix
      BY <3>1, <3>2 DEF Wanted, Upsert
    <3>4. SecretsOK'
      BY <1>2, <2>3, <3>3, SetSecretTyping
    <3>5. WorkerOK'
      BY <1>1, <1>2, <2>3, RequeueTyping, GoToTyping DEF Steps
    <3>6. QED
      BY <1>1, <2>1, <3>4, <3>5
  <2>4. QED
    BY <1>6, <2>2, <2>3 DEF PatchSecret
<1>7. CASE LateCheck
  <2>1. WorkerOK'
    BY <1>1, <1>2, <1>7, RequeueTyping, GoToTyping DEF LateCheck, Steps
  <2>2. QED
    BY <1>1, <1>3, <1>4, <1>7, <2>1 DEF LateCheck
<1>8. CASE LateDelete
  <2>1. WorkerOK'
    BY <1>2, <1>8, EventsTyping, IdleTyping DEF LateDelete, WorkerOK
  <2>2. ASSUME Exists(work.m)
        PROVE  [machines[work.m] EXCEPT !.deletion = "latePatch"] \in Machine
    BY <1>2, <2>2 DEF Exists, MachinesOK, MachinesType, Machine
  <2>3. MachinesOK'
    BY <1>2, <1>3, <1>8, <2>2, UpdateMachineTyping DEF LateDelete
  <2>4. QED
    BY <1>1, <1>4, <1>8, <2>1, <2>3 DEF LateDelete
<1>9. QED
  BY <1>5, <1>6, <1>7, <1>8 DEF Bootstrap

\* Every step keeps the types.
LEMMA TypeNext == TypeOK /\ [Next]_vars => TypeOK'
<1> SUFFICES ASSUME TypeOK, [Next]_vars PROVE TypeOK'
  OBVIOUS
<1>1. CASE \E m \in Machines : Begin(m) \/ Environment(m)
  BY <1>1, TypeBegin, TypeEnvironment
<1>2. CASE Continue
  BY <1>2, TypeEnsure, TypeAssign, TypeBootstrap DEF Continue
<1>3. CASE Deliver \/ (\E c \in Configs : Reconfigure(c)) \/ FailCall \/ FailAllocate \/ Restart
  BY <1>3, TypeSurroundings
<1>4. CASE UNCHANGED vars
  BY <1>4 DEF vars, machineVars, claimVars, secretVars, workerVars, boundVars, TypeOK,
              MachinesOK, ClaimsOK, SecretsOK, WorkerOK, BoundsOK, Usable, ClusterRange
<1>5. QED
  BY <1>1, <1>2, <1>3, <1>4 DEF Next

\* Every variable keeps its type, no cache falls behind its bound, and the
\* worker has the claim and the address a step of Reconcile relies on.
THEOREM TypeCorrect == Spec => []TypeOK
  BY TypeInit, TypeNext, PTL DEF Spec
-----------------------------------------------------------------------------
(* Replacing machines.                                                     *)

\* The machines the reconciler has told to go, in a snapshot and now.
LateIn(ms) == {m \in Machines : ms[m] # None /\ ms[m].deletion = "latePatch"}

Late == LateIn(machines)

OfRole(m) == {n \in Machines : (n \in ControlPlane) = (m \in ControlPlane)}

\* Each write tells one machine at most to go, so a snapshot that is k writes
\* old misses at most k of them.
FewUnseen ==
  \A i \in 1 .. Len(machineLog) :
    Cardinality(Late \ LateIn(machineLog[i])) <= Len(machineLog) - i + 1

\* Of the role of the machine that is about to be told to go, only machines
\* the cache did not show have been told: the check has found no other.
FewOthers ==
  pc = "delete" => Cardinality((Late \cap OfRole(work.m)) \ {work.m}) <= MachineLag

\* A bounded number of machines of a role is being replaced.
FewReplaced ==
  \A m \in Machines : Cardinality(Late \cap OfRole(m)) <= MachineLag + 1

\* The inductive invariant of replacement.
LateInv == TypeOK /\ FewUnseen /\ FewOthers /\ FewReplaced

\* Writing a machine that is not to be replaced, or was already.
LEMMA LateWrite ==
  ASSUME MachinesOK, NEW m \in Machines, NEW x, UpdateMachine(m, x),
         x # None /\ x.deletion = "latePatch" => m \in Late
  PROVE  Late' \subseteq Late
  BY DEF UpdateMachine, MachinesOK, MachinesType, Late, LateIn

\* Nobody but LateDelete replaces a machine.
LEMMA LateStays ==
  ASSUME TypeOK, [Next]_vars, ~LateDelete
  PROVE  Late' \subseteq Late
<1>1. MachinesOK /\ machines \in MachinesType
  BY DEF TypeOK, MachinesOK
<1>2. ASSUME UNCHANGED machines PROVE Late' \subseteq Late
  BY <1>2 DEF Late
<1>3. ASSUME NEW m \in Machines, Environment(m) PROVE Late' \subseteq Late
  <2>1. ASSUME NEW x, SetMachine(m, x), x # None /\ x.deletion = "latePatch" => m \in Late
        PROVE  Late' \subseteq Late
    BY <1>1, <2>1, LateWrite DEF SetMachine
  <2>2. Exists(m) => machines[m] \in Machine
    BY <1>1 DEF Exists, MachinesType
  <2>3. CASE CreateMachine(m)
    BY <2>1, <2>3 DEF CreateMachine
  <2>4. CASE Boot(m) \/ Join(m) \/ DeleteMachine(m)
    BY <2>1, <2>2, <2>4 DEF Boot, Join, DeleteMachine, Machine, Late, LateIn, Exists
  <2>5. CASE MachineGone(m)
    BY <2>1, <2>5 DEF MachineGone
  <2>6. CASE PublishSecret(m) \/ CollectClaim(m)
    BY <1>2, <2>6 DEF PublishSecret, CollectClaim, machineVars
  <2>7. QED
    BY <1>3, <2>3, <2>4, <2>5, <2>6 DEF Environment
<1>4. CASE \E m \in Machines : Begin(m)
  BY <1>2, <1>4 DEF Begin, machineVars
<1>5. CASE Ensure \/ Assign
  BY <1>2, <1>5 DEF Ensure, CreateClaim, CreateConflict, KeepClaim, AlignClaim, EnsureRest,
                    Assign, MarkPending, UseAddress, Allocate, Exhaust, MarkFailed, MarkReady,
                    StatusRest, machineVars
<1>6. CASE Bootstrap
  BY <1>2, <1>6 DEF Bootstrap, AwaitSecret, KeepSecret, PatchSecret, LateCheck, SecretRest,
                    machineVars
<1>7. CASE Deliver \/ (\E c \in Configs : Reconfigure(c)) \/ FailCall \/ FailAllocate \/ Restart \/ UNCHANGED vars
  BY <1>2, <1>7 DEF Deliver, DeliverMachines, DeliverClaims, DeliverSecrets, Reconfigure,
                    FailCall, FailAllocate, Restart, vars, machineVars
<1>8. QED
  BY <1>3, <1>4, <1>5, <1>6, <1>7 DEF Next, Continue

\* Only the check leads to the deletion.
LEMMA DeleteFollowsCheck ==
  ASSUME [Next]_vars, pc' = "delete"
  PROVE  LateCheck \/ UNCHANGED <<pc, work>>
<1>1. CASE \E m \in Machines : Begin(m) \/ Environment(m)
  BY <1>1 DEF Begin, Environment, CreateMachine, PublishSecret, Boot, Join, DeleteMachine,
              MachineGone, CollectClaim, workerVars
<1>2. CASE Ensure \/ Assign
  BY <1>2 DEF Ensure, CreateClaim, CreateConflict, KeepClaim, AlignClaim, PatchClaim,
              Assign, MarkPending, UseAddress, Allocate, Exhaust, MarkFailed, MarkReady,
              SetClaimStatus, GoTo, Requeue
<1>3. CASE Bootstrap
  BY <1>3 DEF Bootstrap, AwaitSecret, KeepSecret, PatchSecret, LateDelete, Finish, GoTo, Requeue
<1>4. CASE Deliver \/ (\E c \in Configs : Reconfigure(c)) \/ FailCall \/ FailAllocate \/ Restart \/ UNCHANGED vars
  BY <1>4 DEF Deliver, DeliverMachines, DeliverClaims, DeliverSecrets, Reconfigure,
              FailCall, FailAllocate, GoTo, Requeue, Restart, vars, workerVars
<1>5. QED
  BY <1>1, <1>2, <1>3, <1>4 DEF Next, Continue

\* Sets of machines are counted.
LEMMA Counting ==
  ASSUME IsFiniteSet(Machines), NEW S \in SUBSET Machines, NEW T \in SUBSET Machines
  PROVE  /\ Cardinality(S) \in Nat
         /\ S \subseteq T => Cardinality(S) <= Cardinality(T)
         /\ \A m \in Machines : S \subseteq T \cup {m} => Cardinality(S) <= Cardinality(T) + 1
<1>1. ASSUME NEW U \in SUBSET Machines
      PROVE  IsFiniteSet(U) /\ Cardinality(U) \in Nat
  BY FS_Subset, FS_CardinalityType
<1>2. IsFiniteSet(S) /\ IsFiniteSet(T) /\ Cardinality(S) \in Nat /\ Cardinality(T) \in Nat
  BY <1>1
<1>3. S \subseteq T => Cardinality(S) <= Cardinality(T)
  BY <1>2, FS_Subset
<1>4. ASSUME NEW m \in Machines, S \subseteq T \cup {m}
      PROVE  Cardinality(S) <= Cardinality(T) + 1
  <2>1. /\ IsFiniteSet(T \cup {m})
        /\ Cardinality(T \cup {m}) = Cardinality(T) \/ Cardinality(T \cup {m}) = Cardinality(T) + 1
    BY <1>2, FS_AddElement
  <2>2. Cardinality(S) <= Cardinality(T \cup {m})
    BY <1>4, <2>1, FS_Subset
  <2>3. QED
    BY <1>2, <2>1, <2>2
<1>5. QED
  BY <1>2, <1>3, <1>4

\* Snapshots are of machines.
LEMMA LateTyping == \A ms : LateIn(ms) \subseteq Machines
  BY DEF LateIn

\* An entry of a log that has been written to: one that was there, as far from
\* the end as before and one further, or the state before the write.
LEMMA LoggedEntry ==
  ASSUME NEW S, NEW log \in Seq(S), NEW lag \in Nat, NEW old \in S, NEW new, old # new,
         NEW i \in 1 .. Len(Logged(log, lag, old, new))
  PROVE  LET after == Logged(log, lag, old, new) IN
         \/ \E j \in 1 .. Len(log) : after[i] = log[j] /\ Len(after) - i = Len(log) - j + 1
         \/ after[i] = old /\ Len(after) = i
<1> DEFINE app == Append(log, old)
           after == Logged(log, lag, old, new)
<1>1. /\ app \in Seq(S) /\ Len(app) = Len(log) + 1 /\ Len(log) \in Nat
      /\ \A j \in 1 .. Len(log) : app[j] = log[j]
      /\ app[Len(log) + 1] = old
  BY AppendProperties, LenProperties
<1>2. app # <<>>
  BY <1>1, EmptySeq
<1>3. after = IF Len(app) > lag THEN Tail(app) ELSE app
  BY DEF Logged, Bounded
<1> HIDE DEF app, after
<1>4. CASE after = app
  BY <1>1, <1>4 DEF after
<1>5. CASE after = Tail(app)
  <2>1. Len(after) = Len(log) /\ i \in 1 .. Len(log) /\ after[i] = app[i + 1]
    BY <1>1, <1>2, <1>5, HeadTailProperties DEF after
  <2>2. CASE i < Len(log)
    <3>1. i + 1 \in 1 .. Len(log) /\ after[i] = log[i + 1]
      BY <1>1, <2>1, <2>2
    <3>2. Len(after) - i = Len(log) - (i + 1) + 1
      BY <1>1, <2>1
    <3>3. QED
      BY <3>1, <3>2 DEF after
  <2>3. CASE i = Len(log)
    BY <1>1, <2>1, <2>3 DEF after
  <2>4. QED
    BY <1>1, <2>1, <2>2, <2>3
<1>6. QED
  BY <1>3, <1>4, <1>5

\* A write leaves few machines unseen.
LEMMA UnseenWrite ==
  ASSUME IsFiniteSet(Machines), MachinesOK, FewUnseen,
         NEW m \in Machines, NEW x, UpdateMachine(m, x)
  PROVE  FewUnseen'
<1>1. machines \in MachinesType /\ machineLog \in Seq(MachinesType) /\ MachineLag \in Nat
  BY Lags DEF MachinesOK
<1>2. Late' \subseteq Late \cup {m}
  BY <1>1 DEF UpdateMachine, MachinesType, Late, LateIn
<1>3. CASE machines' = machines
  BY <1>3 DEF UpdateMachine, Logged, FewUnseen, Late
<1>4. ASSUME machines' # machines, NEW i \in 1 .. Len(machineLog')
      PROVE  Cardinality(Late' \ LateIn(machineLog'[i])) <= Len(machineLog') - i + 1
  <2>1. machineLog' = Logged(machineLog, MachineLag, machines, machines')
    BY DEF UpdateMachine
  <2>2. Len(machineLog) \in Nat
    BY <1>1, LenProperties
  <2>3. Late \subseteq Machines /\ Late' \subseteq Machines
    BY LateTyping DEF Late
  <2>4. ASSUME NEW j \in 1 .. Len(machineLog), machineLog'[i] = machineLog[j],
               Len(machineLog') - i = Len(machineLog) - j + 1
        PROVE  Cardinality(Late' \ LateIn(machineLog'[i])) <= Len(machineLog') - i + 1
    <3>1. Late' \ LateIn(machineLog[j]) \subseteq (Late \ LateIn(machineLog[j])) \cup {m}
      BY <1>2
    <3>2. /\ Cardinality(Late \ LateIn(machineLog[j])) \in Nat
          /\ Cardinality(Late' \ LateIn(machineLog[j])) \in Nat
          /\ Cardinality(Late' \ LateIn(machineLog[j]))
               <= Cardinality(Late \ LateIn(machineLog[j])) + 1
      BY <2>3, <3>1, Counting
    <3>3. Cardinality(Late \ LateIn(machineLog[j])) <= Len(machineLog) - j + 1
      BY DEF FewUnseen
    <3>4. QED
      BY <2>2, <2>4, <3>2, <3>3
  <2>5. ASSUME machineLog'[i] = machines, Len(machineLog') = i
        PROVE  Cardinality(Late' \ LateIn(machineLog'[i])) <= Len(machineLog') - i + 1
    <3>1. Late' \ LateIn(machines) \subseteq {} \cup {m}
      BY <1>2 DEF Late
    <3>2. Cardinality(Late' \ LateIn(machines)) <= Cardinality({}) + 1
      BY <2>3, <3>1, Counting
    <3>3. Cardinality({}) = 0
      BY FS_EmptySet
    <3>4. QED
      BY <2>5, <3>2, <3>3
  <2>6. \/ \E j \in 1 .. Len(machineLog) :
             /\ machineLog'[i] = machineLog[j]
             /\ Len(machineLog') - i = Len(machineLog) - j + 1
        \/ machineLog'[i] = machines /\ Len(machineLog') = i
    <3>1. i \in 1 .. Len(Logged(machineLog, MachineLag, machines, machines'))
      BY <2>1
    <3>2. machines # machines'
      BY <1>4
    <3>3. QED
      BY <1>1, <2>1, <3>1, <3>2, LoggedEntry
  <2>7. QED
    BY <2>4, <2>5, <2>6
<1>5. QED
  BY <1>3, <1>4 DEF FewUnseen

\* A step writes one machine, or the cache moves on, or starts anew.
LEMMA MachineWrites ==
  ASSUME TypeOK, [Next]_vars
  PROVE  \/ \E m \in Machines : \E x : UpdateMachine(m, x)
         \/ machines' = machines /\ machineLog' \in {machineLog, <<>>}
         \/ machines' = machines /\ machineLog # <<>> /\ machineLog' = Tail(machineLog)
<1>1. ASSUME NEW m \in Machines, Environment(m)
      PROVE  \/ \E x : UpdateMachine(m, x)
             \/ machines' = machines /\ machineLog' = machineLog
  BY <1>1 DEF Environment, CreateMachine, PublishSecret, Boot, Join, DeleteMachine, MachineGone,
              CollectClaim, SetMachine, machineVars
<1>2. ASSUME NEW m \in Machines, Begin(m) PROVE machines' = machines /\ machineLog' = machineLog
  BY <1>2 DEF Begin, machineVars
<1>3. CASE Ensure \/ Assign \/ FailAllocate
  BY <1>3 DEF Ensure, CreateClaim, CreateConflict, KeepClaim, AlignClaim, EnsureRest, FailAllocate,
              Assign, MarkPending, UseAddress, Allocate, Exhaust, MarkFailed, MarkReady,
              StatusRest, machineVars
<1>4. CASE AwaitSecret \/ KeepSecret \/ PatchSecret \/ LateCheck
  BY <1>4 DEF AwaitSecret, KeepSecret, PatchSecret, LateCheck, SecretRest, machineVars
<1>5. CASE LateDelete
  <2>1. work.m \in Machines
    BY <1>5, WorkTyping DEF LateDelete, TypeOK
  <2>2. QED
    BY <1>5, <2>1 DEF LateDelete, machineVars
<1>6. CASE Deliver \/ (\E c \in Configs : Reconfigure(c)) \/ FailCall \/ Restart \/ UNCHANGED vars
  BY <1>6 DEF Deliver, DeliverMachines, DeliverClaims, DeliverSecrets, Reconfigure,
              FailCall, Restart, vars, machineVars
<1>7. QED
  BY <1>1, <1>2, <1>3, <1>4, <1>5, <1>6 DEF Next, Continue, Bootstrap

\* At first nothing is being replaced.
LEMMA LateInit == Init => LateInv
<1> SUFFICES ASSUME Init PROVE LateInv
  OBVIOUS
<1>1. Late = {} /\ pc = "idle" /\ Len(machineLog) = 0
  BY EmptySeq DEF Init, Late, LateIn, NoObjects
<1>2. FewReplaced
  <2>1. Cardinality({}) = 0
    BY FS_EmptySet
  <2>2. \A m \in Machines : Late \cap OfRole(m) = {}
    BY <1>1
  <2>3. QED
    BY <2>1, <2>2, Lags DEF FewReplaced
<1>3. QED
  BY <1>1, <1>2, TypeInit DEF LateInv, FewUnseen, FewOthers

\* Snapshots stay as near to the machines as they are old.
LEMMA UnseenNext ==
  ASSUME IsFiniteSet(Machines), TypeOK, FewUnseen, [Next]_vars
  PROVE  FewUnseen'
<1>1. MachinesOK /\ machineLog \in Seq(MachinesType) /\ Len(machineLog) \in Nat
  BY LenProperties DEF TypeOK, MachinesOK
<1>2. ASSUME NEW m \in Machines, NEW x, UpdateMachine(m, x) PROVE FewUnseen'
  BY <1>1, <1>2, UnseenWrite
<1>3. CASE machines' = machines /\ machineLog' = machineLog
  BY <1>3 DEF FewUnseen, Late
<1>4. CASE machines' = machines /\ machineLog' = <<>>
  <2>1. Len(<<>>) = 0
    BY EmptySeq
  <2>2. QED
    BY <1>4, <2>1 DEF FewUnseen
<1>5. CASE machines' = machines /\ machineLog # <<>> /\ machineLog' = Tail(machineLog)
  <2>1. /\ Len(machineLog') = Len(machineLog) - 1
        /\ \A i \in 1 .. Len(machineLog') : machineLog'[i] = machineLog[i + 1]
    BY <1>1, <1>5, HeadTailProperties
  <2>2. ASSUME NEW i \in 1 .. Len(machineLog')
        PROVE  Cardinality(Late' \ LateIn(machineLog'[i])) <= Len(machineLog') - i + 1
    <3>1. i + 1 \in 1 .. Len(machineLog) /\ machineLog'[i] = machineLog[i + 1]
      BY <1>1, <2>1
    <3>2. Cardinality(Late \ LateIn(machineLog[i + 1])) <= Len(machineLog) - (i + 1) + 1
      BY <3>1 DEF FewUnseen
    <3>3. Late' = Late
      BY <1>5 DEF Late
    <3>4. Len(machineLog) - (i + 1) + 1 = Len(machineLog') - i + 1
      BY <1>1, <2>1
    <3>5. QED
      BY <3>1, <3>2, <3>3, <3>4
  <2>3. QED
    BY <2>2 DEF FewUnseen
<1>6. QED
  BY <1>2, <1>3, <1>4, <1>5, MachineWrites

\* A machine that passes the check has few others of its role before it.
LEMMA CheckFindsOthers ==
  ASSUME IsFiniteSet(Machines), TypeOK, FewUnseen, pc = "late", ~HasDeletingMachineInRole
  PROVE  Cardinality((Late \cap OfRole(work.m)) \ {work.m}) <= MachineLag
<1> DEFINE seen == Seen(machines, machineLog)
           others == (Late \cap OfRole(work.m)) \ {work.m}
<1>1. \A n \in LateIn(seen) \cap OfRole(work.m) : n = work.m
  BY DEF HasDeletingMachineInRole, LateIn, OfRole
<1>2. others \subseteq Late \ LateIn(seen)
  BY <1>1
<1>3. others \subseteq Machines /\ Late \ LateIn(seen) \subseteq Machines
  BY LateTyping DEF Late
<1>4. /\ Cardinality(others) <= Cardinality(Late \ LateIn(seen))
      /\ Cardinality(others) \in Nat /\ Cardinality(Late \ LateIn(seen)) \in Nat
  BY <1>2, <1>3, Counting
<1>5. machineLog \in Seq(MachinesType) /\ Len(machineLog) <= MachineLag /\ MachineLag \in Nat
  BY Lags DEF TypeOK, MachinesOK
<1>6. CASE machineLog = <<>>
  <2>1. Late \ LateIn(seen) = {}
    BY <1>6 DEF Seen, Late
  <2>2. Cardinality(Late \ LateIn(seen)) = 0
    BY <2>1, FS_EmptySet
  <2>3. QED
    BY <1>4, <1>5, <2>2
<1>7. CASE machineLog # <<>>
  <2>1. Len(machineLog) \in Nat /\ 1 \in 1 .. Len(machineLog) /\ Head(machineLog) = machineLog[1]
    BY <1>5, <1>7, EmptySeq, LenProperties
  <2>2. seen = machineLog[1]
    BY <1>7, <2>1 DEF Seen
  <2>3. Cardinality(Late \ LateIn(seen)) <= Len(machineLog) - 1 + 1
    BY <2>1, <2>2 DEF FewUnseen
  <2>4. QED
    BY <1>4, <1>5, <2>1, <2>3
<1>8. QED
  BY <1>6, <1>7

\* Whatever the step, few machines of a role are being replaced.
LEMMA LateNext ==
  ASSUME IsFiniteSet(Machines), LateInv, [Next]_vars
  PROVE  LateInv'
<1>1. /\ TypeOK /\ FewUnseen /\ FewOthers /\ FewReplaced
      /\ TypeOK' /\ FewUnseen' /\ MachineLag \in Nat
  BY TypeNext, UnseenNext, Lags DEF LateInv
<1>2. Late \subseteq Machines /\ Late' \subseteq Machines
  BY LateTyping DEF Late
<1>3. CASE LateDelete
  <2>1. pc = "delete" /\ pc' = "idle" /\ work.m \in Machines
    BY <1>1, <1>3, WorkTyping DEF LateDelete, TypeOK
  <2>2. Late' \subseteq Late \cup {work.m}
    BY <1>1, <1>3, <2>1 DEF LateDelete, UpdateMachine, machineVars, TypeOK, MachinesOK,
                            MachinesType, Late, LateIn
  <2>3. ASSUME NEW m \in Machines
        PROVE  Cardinality(Late' \cap OfRole(m)) <= MachineLag + 1
    <3>1. CASE work.m \in OfRole(m)
      <4> DEFINE others == (Late \cap OfRole(work.m)) \ {work.m}
      <4>1. OfRole(m) = OfRole(work.m)
        BY <3>1 DEF OfRole
      <4>2. Late' \cap OfRole(m) \subseteq others \cup {work.m}
        BY <2>2, <4>1
      <4>3. /\ Cardinality(Late' \cap OfRole(m)) \in Nat /\ Cardinality(others) \in Nat
            /\ Cardinality(Late' \cap OfRole(m)) <= Cardinality(others) + 1
        BY <1>2, <2>1, <4>2, Counting
      <4>4. Cardinality(others) <= MachineLag
        BY <1>1, <2>1 DEF FewOthers
      <4>5. QED
        BY <1>1, <4>3, <4>4
    <3>2. CASE work.m \notin OfRole(m)
      <4>1. Late' \cap OfRole(m) \subseteq Late \cap OfRole(m)
        BY <2>2, <3>2
      <4>2. /\ Cardinality(Late' \cap OfRole(m)) \in Nat
            /\ Cardinality(Late \cap OfRole(m)) \in Nat
            /\ Cardinality(Late' \cap OfRole(m)) <= Cardinality(Late \cap OfRole(m))
        BY <1>2, <4>1, Counting
      <4>3. QED
        BY <1>1, <4>2 DEF FewReplaced
    <3>3. QED
      BY <3>1, <3>2
  <2>4. FewReplaced'
    BY <2>3 DEF FewReplaced, OfRole
  <2>5. QED
    BY <1>1, <2>1, <2>4 DEF LateInv, FewOthers
<1>4. CASE ~LateDelete
  <2>1. Late' \subseteq Late
    BY <1>1, <1>4, LateStays
  <2>2. FewReplaced'
    <3> SUFFICES ASSUME NEW m \in Machines
                 PROVE  Cardinality(Late' \cap OfRole(m)) <= MachineLag + 1
      BY DEF FewReplaced, OfRole
    <3>1. /\ Cardinality(Late' \cap OfRole(m)) \in Nat
          /\ Cardinality(Late \cap OfRole(m)) \in Nat
          /\ Cardinality(Late' \cap OfRole(m)) <= Cardinality(Late \cap OfRole(m))
      BY <1>2, <2>1, Counting
    <3>2. QED
      BY <1>1, <3>1 DEF FewReplaced
  <2>3. ASSUME pc' = "delete"
        PROVE  Cardinality((Late' \cap OfRole(work'.m)) \ {work'.m}) <= MachineLag
    <3> DEFINE before == (Late \cap OfRole(work.m)) \ {work.m}
               after == (Late' \cap OfRole(work.m)) \ {work.m}
    <3>1. /\ Cardinality(before) \in Nat /\ Cardinality(after) \in Nat
          /\ Cardinality(after) <= Cardinality(before)
      BY <1>2, <2>1, Counting
    <3>2. CASE UNCHANGED <<pc, work>>
      <4>1. Cardinality(before) <= MachineLag
        BY <1>1, <2>3, <3>2 DEF FewOthers
      <4>2. QED
        BY <1>1, <3>1, <3>2, <4>1
    <3>3. CASE LateCheck
      <4>1. pc = "late" /\ ~HasDeletingMachineInRole /\ work' = work
        BY <2>3, <3>3 DEF LateCheck, GoTo, Requeue
      <4>2. Cardinality(before) <= MachineLag
        BY <1>1, <4>1, CheckFindsOthers
      <4>3. QED
        BY <1>1, <3>1, <4>1, <4>2
    <3>4. QED
      BY <2>3, <3>2, <3>3, DeleteFollowsCheck
  <2>4. FewOthers'
    BY <2>3 DEF FewOthers, OfRole
  <2>5. QED
    BY <1>1, <2>2, <2>4 DEF LateInv
<1>5. QED
  BY <1>3, <1>4

\* The reconciler has told at most one machine of a role more to go than its
\* cache of the machines may be writes behind: one at a time with a current
\* cache, and never more in spite of restarts, failed calls, machines created
\* anew and users who delete machines between the check and the deletion.
THEOREM ReplacedPerLag == IsFiniteSet(Machines) => (Spec => []FewReplaced)
<1> SUFFICES ASSUME IsFiniteSet(Machines) PROVE Spec => []FewReplaced
  OBVIOUS
<1>1. LateInv /\ [Next]_vars => LateInv'
  BY LateNext
<1>2. LateInv => FewReplaced
  BY DEF LateInv
<1>3. QED
  BY <1>1, <1>2, LateInit, PTL DEF Spec
=============================================================================
