------------------------ MODULE MachineIPPoolProofs ------------------------
(***************************************************************************)
(* The claims are an address pool, unless the worker chooses an address    *)
(* while it is misinformed: for every number of machines, every lag of the *)
(* caches and any failures, each other step of MachineIP is a step of      *)
(* AddressPool or leaves the leases alone.  A behaviour in which it never  *)
(* is misinformed implements the pool, and leases no address twice; with a *)
(* claim cache that is never behind, every behaviour is one: ClaimExact,   *)
(* the worker's copy is what the server holds, if the claim is there.      *)
(***************************************************************************)
EXTENDS MachineIPProofs

(* The refinement, step by step.                                           *)

\* The machines a lease is kept for.
Owners == {m \in Machines : Owned(m)}

\* A step that leaves the leases alone and touches one machine or its claim
\* is a step of the pool: the lease is owned or is not from now on.
LEMMA OwnStep ==
  ASSUME NEW m \in Machines, PoolLease' = PoolLease,
         \A n \in Machines \ {m} : claims'[n] = claims[n] /\ machines'[n] = machines[n]
  PROVE  [Lease!Next]_(Lease!vars)
<1>1. \A n \in Machines \ {m} : Owned(n)' = Owned(n)
  BY DEF Owned, Exists
<1>2. CASE Owned(m)'
  <2>1. Owners' = Owners \cup {m}
    BY <1>1, <1>2 DEF Owners
  <2>2. QED
    BY <2>1 DEF Owners, Lease!Next, Lease!Own
<1>3. CASE ~Owned(m)'
  <2>1. Owners' = Owners \ {m}
    BY <1>1, <1>3 DEF Owners
  <2>2. QED
    BY <2>1 DEF Owners, Lease!Next, Lease!Disown
<1>4. QED
  BY <1>2, <1>3

\* So is a step of the worker or a cache that touches neither.
LEMMA StutterStep ==
  ASSUME UNCHANGED <<claims, machines>>
  PROVE  [Lease!Next]_(Lease!vars)
  BY DEF Lease!vars, PoolLease, Owned, Exists

\* A write of a machine is a step of the pool.
LEMMA MachineStep ==
  ASSUME TypeOK, NEW m \in Machines, NEW x, UpdateMachine(m, x), claims' = claims
  PROVE  [Lease!Next]_(Lease!vars)
<1>1. machines \in MachinesType
  BY DEF TypeOK, MachinesOK
<1>2. \A n \in Machines \ {m} : machines'[n] = machines[n]
  BY <1>1 DEF UpdateMachine, MachinesType
<1>3. PoolLease' = PoolLease
  BY DEF PoolLease
<1>4. QED
  BY <1>2, <1>3, OwnStep

\* The address a claim holds, if any.
AddrOf(c) == IF c = None THEN None ELSE c.addr

\* So is a write of a claim that keeps the address.
LEMMA ClaimStep ==
  ASSUME TypeOK, NEW m \in Machines, NEW c, SetClaim(m, c), machines' = machines,
         AddrOf(c) = AddrOf(claims[m])
  PROVE  [Lease!Next]_(Lease!vars)
<1>1. claims \in ClaimsType
  BY DEF TypeOK, ClaimsOK
<1>2. claims' = [claims EXCEPT ![m] = c]
  BY DEF SetClaim
<1>3. \A n \in Machines \ {m} : claims'[n] = claims[n]
  BY <1>1, <1>2 DEF ClaimsType
<1>4. claims'[m] = c
  BY <1>1, <1>2 DEF ClaimsType
<1>5. \A n \in Machines : AddrOf(claims'[n]) = AddrOf(claims[n])
  BY <1>3, <1>4
<1>6. PoolLease' = PoolLease
  BY <1>5 DEF PoolLease, AddrOf
<1>7. QED
  BY <1>3, <1>6, OwnStep

\* So is a patch that does not touch the address.
LEMMA PatchStep ==
  ASSUME TypeOK, pc # "idle", NEW base \in Claim, NEW desired \in Claim, NEW step, NEW ip,
         base.addr = desired.addr, machines' = machines,
         PatchClaim(base, desired, step, ip)
  PROVE  [Lease!Next]_(Lease!vars)
<1>1. work.m \in Machines
  BY WorkTyping DEF TypeOK
<1>2. claims[work.m] \in Claim \cup {None}
  BY <1>1 DEF TypeOK, ClaimsOK, ClaimsType
<1>3. CASE UNCHANGED claimVars
  BY <1>3, StutterStep DEF claimVars
<1>4. ASSUME claims[work.m] # None,
             SetClaim(work.m, Patched(base, desired, claims[work.m]))
      PROVE  [Lease!Next]_(Lease!vars)
  <2>1. Patched(base, desired, claims[work.m]) \in Claim
    BY <1>2, <1>4, PatchedTyping
  <2>2. Patched(base, desired, claims[work.m]).addr = claims[work.m].addr
    BY <1>2, <1>4, PatchedAddress
  <2>3. AddrOf(Patched(base, desired, claims[work.m])) = AddrOf(claims[work.m])
    BY <1>4, <2>1, <2>2, NoObjectAssumption DEF AddrOf
  <2>4. QED
    BY <1>1, <1>4, <2>3, ClaimStep
<1>5. QED
  BY <1>3, <1>4 DEF PatchClaim

\* A status report does not touch the address.
LEMMA StatusStep ==
  ASSUME TypeOK, pc \notin {"idle", "claim"},
         NEW phase \in {"Pending", "Ready", "Failed"}, NEW told \in Address, NEW step,
         machines' = machines,
         SetClaimStatus(phase, told, step)
  PROVE  [Lease!Next]_(Lease!vars)
<1>1. work.claim \in Claim
  BY WorkTyping DEF TypeOK, WorkerOK
<1>2. Reported(phase, told) \in Claim /\ Reported(phase, told).addr = work.claim.addr
  BY <1>1 DEF Reported, Claim
<1>3. CASE UNCHANGED claimVars
  BY <1>3, StutterStep DEF claimVars
<1>4. CASE PatchClaim(work.claim, Reported(phase, told), step, work.ip)
  BY <1>1, <1>2, <1>4, PatchStep
<1>5. QED
  BY <1>3, <1>4 DEF SetClaimStatus

\* An address that is patched into a claim nobody misinformed the worker about
\* is acquired: its claim has none, and no other claim holds it.
LEMMA AddressStep ==
  ASSUME TypeOK, pc = "allocate", work.claim.addr = None, ~Misinformed, machines' = machines,
         NEW ip \in {Free} \ {None}, claims[work.m] # None,
         SetClaim(work.m, Patched(work.claim, [work.claim EXCEPT !.addr = ip], claims[work.m]))
  PROVE  [Lease!Next]_(Lease!vars)
<1>1. work.m \in Machines /\ work.claim \in Claim
  BY WorkTyping DEF TypeOK, WorkerOK
<1>2. ip \in IPv4 /\ ip # None /\ ip \notin InUse
  BY FreeTyping DEF TypeOK, Address
<1> DEFINE desired == [work.claim EXCEPT !.addr = ip]
           old == claims[work.m]
           new == Patched(work.claim, desired, old)
<1>3. claims \in ClaimsType /\ old \in Claim
  BY <1>1 DEF TypeOK, ClaimsOK, ClaimsType
<1>4. old.addr = None
  BY DEF Misinformed
<1>5. desired \in Claim /\ desired.addr = ip
  BY <1>1, <1>2 DEF Claim, Address
<1>6. new \in Claim /\ new.addr = ip
  <2> HIDE DEF desired
  <2>1. new \in Claim
    BY <1>1, <1>3, <1>5, PatchedTyping
  <2>2. new.addr = IF work.claim.addr = desired.addr THEN old.addr ELSE desired.addr
    BY <1>1, <1>3, <1>5, PatchedAddress
  <2>3. QED
    BY <1>2, <1>5, <2>1, <2>2
<1>7. new.owner = old.owner
  <2>1. desired.owner = work.claim.owner
    BY <1>1 DEF Claim
  <2>2. QED
    BY <1>1, <1>3, <1>5, <2>1 DEF Patched, MergePatch, Claim
<1>8. claims' = [claims EXCEPT ![work.m] = new]
  BY DEF SetClaim
<1> HIDE DEF new, old
<1>9. /\ claims'[work.m] = new
      /\ \A n \in Machines \ {work.m} : claims'[n] = claims[n]
  BY <1>1, <1>3, <1>8 DEF ClaimsType
<1>10. new # None /\ old # None
  BY <1>3, <1>6, NoObjectAssumption
<1>11. \A n \in Machines : Owned(n)' = Owned(n)
  BY <1>1, <1>7, <1>9, <1>10 DEF Owned, Exists, old
<1>12. Owners' = Owners
  BY <1>11 DEF Owners
<1>13. PoolLease' = [PoolLease EXCEPT ![work.m] = ip]
  BY <1>1, <1>6, <1>9, <1>10 DEF PoolLease
<1>14. PoolLease[work.m] = None
  BY <1>1, <1>4 DEF PoolLease, old
<1>15. \A n \in Machines : PoolLease[n] # ip
  <2> SUFFICES ASSUME NEW n \in Machines, PoolLease[n] = ip PROVE FALSE
    OBVIOUS
  <2>1. n # work.m
    BY <1>2, <1>14
  <2>2. Leased(n) /\ claims[n].addr = ip
    BY <1>2 DEF PoolLease, Leased
  <2>3. ip \in InUse
    BY <2>1, <2>2 DEF Misinformed
  <2>4. QED
    BY <1>2, <2>3
<1>16. Lease!Acquire(work.m, ip)
  BY <1>12, <1>13, <1>14, <1>15 DEF Lease!Acquire, Owners
<1>17. QED
  BY <1>1, <1>2, <1>16 DEF Lease!Next

\* So is the choice of an address of a worker that is not misinformed, whether
\* or not it hears of it.
LEMMA AllocateStep ==
  ASSUME TypeOK, ~Misinformed, Allocate \/ FailAllocate
  PROVE  [Lease!Next]_(Lease!vars)
<1>1. pc = "allocate" /\ work.claim.addr = None /\ machines' = machines
  BY DEF Allocate, FailAllocate, StatusRest, machineVars
<1>2. CASE UNCHANGED claimVars
  BY <1>1, <1>2, StutterStep DEF claimVars
<1>3. ASSUME NEW ip \in {Free} \ {None}, claims[work.m] # None,
             SetClaim(work.m, Patched(work.claim, [work.claim EXCEPT !.addr = ip],
                                      claims[work.m]))
      PROVE  [Lease!Next]_(Lease!vars)
  BY <1>1, <1>3, AddressStep
<1>4. QED
  BY <1>2, <1>3 DEF Allocate, FailAllocate, PatchClaim

\* A collected claim releases its lease: its owner is gone.
LEMMA CollectStep ==
  ASSUME TypeOK, NEW m \in Machines, CollectClaim(m)
  PROVE  [Lease!Next]_(Lease!vars)
<1>1. /\ claims' = [claims EXCEPT ![m] = None]
      /\ machines' = machines /\ ~Owned(m)
  BY DEF CollectClaim, SetClaim, machineVars
<1>2. claims \in ClaimsType
  BY DEF TypeOK, ClaimsOK
<1>3. claims'[m] = None /\ \A n \in Machines \ {m} : claims'[n] = claims[n]
  BY <1>1, <1>2 DEF ClaimsType
<1>4. \A n \in Machines : Owned(n)' = Owned(n)
  BY <1>1, <1>3 DEF Owned, Exists
<1>5. Owners' = Owners /\ m \notin Owners
  BY <1>1, <1>4 DEF Owners
<1>6. PoolLease' = [PoolLease EXCEPT ![m] = None]
  BY <1>3 DEF PoolLease
<1>7. QED
  BY <1>5, <1>6 DEF Lease!Next, Lease!Release, Owners

\* The environment's other steps write machines and secrets.
LEMMA EnvironmentStep ==
  ASSUME TypeOK, NEW m \in Machines, Environment(m)
  PROVE  [Lease!Next]_(Lease!vars)
<1>1. ASSUME NEW x, SetMachine(m, x), claims' = claims
      PROVE  [Lease!Next]_(Lease!vars)
  BY <1>1, MachineStep DEF SetMachine
<1>2. CASE CreateMachine(m)
  BY <1>1, <1>2 DEF CreateMachine, claimVars
<1>3. CASE PublishSecret(m)
  BY <1>3, StutterStep DEF PublishSecret, machineVars, claimVars
<1>4. CASE Boot(m) \/ Join(m) \/ DeleteMachine(m) \/ MachineGone(m)
  BY <1>1, <1>4 DEF Boot, Join, DeleteMachine, MachineGone, claimVars
<1>5. CASE CollectClaim(m)
  BY <1>5, CollectStep
<1>6. QED
  BY <1>2, <1>3, <1>4, <1>5 DEF Environment

\* Creating and aligning a claim leave its address alone.
LEMMA EnsureStep ==
  ASSUME TypeOK, Ensure
  PROVE  [Lease!Next]_(Lease!vars)
<1>1. pc = "claim" /\ machines' = machines
  BY DEF Ensure, CreateClaim, CreateConflict, KeepClaim, AlignClaim, EnsureRest, machineVars
<1>2. work.m \in Machines
  BY <1>1, WorkTyping DEF TypeOK
<1>3. CASE CreateClaim
  <2>1. SetClaim(work.m, NewClaim) /\ claims[work.m] = None
    BY <1>3 DEF CreateClaim
  <2>2. AddrOf(NewClaim) = None
    BY DEF AddrOf, NewClaim
  <2>3. AddrOf(claims[work.m]) = None
    BY <2>1 DEF AddrOf
  <2>4. QED
    BY <1>1, <1>2, <2>1, <2>2, <2>3, ClaimStep
<1>4. CASE CreateConflict \/ KeepClaim
  BY <1>1, <1>4, StutterStep DEF CreateConflict, KeepClaim, claimVars
<1>5. CASE AlignClaim
  <2>1. SeenClaim \in Claim
    BY <1>2, <1>5, SeenClaims DEF AlignClaim, SeenClaim, TypeOK
  <2>2. WantedClaim \in Claim /\ WantedClaim.addr = SeenClaim.addr
    <3>1. work.cfg.subnet \in SubnetType /\ work.machine.uid \in Nat
      BY <1>1, WorkTyping DEF TypeOK, Machine
    <3>2. QED
      BY <2>1, <3>1 DEF WantedClaim, Claim
  <2>3. PatchClaim(SeenClaim, WantedClaim, "pending", None)
    BY <1>5 DEF AlignClaim
  <2>4. QED
    BY <1>1, <2>1, <2>2, <2>3, PatchStep
<1>6. QED
  BY <1>3, <1>4, <1>5 DEF Ensure

\* Of the steps that give a machine its address, only Allocate writes it.
LEMMA AssignStep ==
  ASSUME TypeOK, ~(pc = "allocate" /\ Misinformed), Assign
  PROVE  [Lease!Next]_(Lease!vars)
<1>1. pc \in {"pending", "allocate", "failed", "ready"} /\ machines' = machines
  BY DEF Assign, MarkPending, UseAddress, Allocate, Exhaust, MarkFailed, MarkReady,
         StatusRest, machineVars
<1>2. work.m \in Machines /\ work.claim \in Claim /\ work.ip \in Address
  BY <1>1, WorkTyping DEF TypeOK, WorkerOK
<1>3. None \in Address
  BY DEF Address
<1>4. CASE MarkPending
  BY <1>1, <1>3, <1>4, StatusStep DEF MarkPending
<1>5. CASE UseAddress \/ Exhaust
  BY <1>1, <1>5, StutterStep DEF UseAddress, Exhaust, claimVars
<1>6. CASE Allocate
  BY <1>6, AllocateStep DEF Allocate
<1>7. CASE MarkFailed
  <2>1. Reported("Failed", None) \in Claim /\ Reported("Failed", None).addr = work.claim.addr
    BY <1>2, <1>3 DEF Reported, Claim
  <2>2. CASE UNCHANGED claimVars
    BY <1>1, <2>2, StutterStep DEF claimVars
  <2>3. ASSUME claims[work.m] # None,
               SetClaim(work.m, Patched(work.claim, Reported("Failed", None), claims[work.m]))
        PROVE  [Lease!Next]_(Lease!vars)
    <3>1. claims[work.m] \in Claim
      BY <1>1, <1>2, <2>3 DEF TypeOK, ClaimsOK, ClaimsType
    <3>2. Patched(work.claim, Reported("Failed", None), claims[work.m]) \in Claim
      BY <1>2, <2>1, <3>1, PatchedTyping
    <3>3. Patched(work.claim, Reported("Failed", None), claims[work.m]).addr
            = claims[work.m].addr
      BY <1>2, <2>1, <3>1, PatchedAddress
    <3>4. AddrOf(Patched(work.claim, Reported("Failed", None), claims[work.m]))
            = AddrOf(claims[work.m])
      BY <2>3, <3>2, <3>3, NoObjectAssumption DEF AddrOf
    <3>5. QED
      BY <1>1, <1>2, <2>3, <3>4, ClaimStep
  <2>4. QED
    BY <1>7, <2>2, <2>3 DEF MarkFailed
<1>8. CASE MarkReady
  BY <1>1, <1>2, <1>8, StatusStep DEF MarkReady
<1>9. QED
  BY <1>4, <1>5, <1>6, <1>7, <1>8 DEF Assign

\* The last steps write secrets, or delete the machine.
LEMMA BootstrapStep ==
  ASSUME TypeOK, Bootstrap
  PROVE  [Lease!Next]_(Lease!vars)
<1>1. pc # "idle" /\ claims' = claims
  BY DEF Bootstrap, AwaitSecret, KeepSecret, PatchSecret, LateCheck, LateDelete, SecretRest,
         claimVars
<1>2. work.m \in Machines
  BY <1>1, WorkTyping DEF TypeOK
<1>3. CASE machines' = machines
  BY <1>1, <1>3, StutterStep
<1>4. ASSUME NEW x, UpdateMachine(work.m, x) PROVE [Lease!Next]_(Lease!vars)
  BY <1>1, <1>2, <1>4, MachineStep
<1>5. CASE LateDelete
  BY <1>3, <1>4, <1>5 DEF LateDelete, machineVars
<1>6. CASE AwaitSecret \/ KeepSecret \/ PatchSecret \/ LateCheck
  BY <1>3, <1>6 DEF AwaitSecret, KeepSecret, PatchSecret, LateCheck, SecretRest, machineVars
<1>7. QED
  BY <1>5, <1>6 DEF Bootstrap

\* So every step but a misinformed choice is a step of the pool or leaves the
\* leases alone.
LEMMA PoolStep ==
  ASSUME TypeOK, ~(pc = "allocate" /\ Misinformed), [Next]_vars
  PROVE  [Lease!Next]_(Lease!vars)
<1>1. ASSUME NEW m \in Machines, Begin(m) \/ Environment(m)
      PROVE  [Lease!Next]_(Lease!vars)
  BY <1>1, EnvironmentStep, StutterStep DEF Begin, machineVars, claimVars
<1>2. CASE Continue
  BY <1>2, EnsureStep, AssignStep, BootstrapStep DEF Continue
<1>3. CASE FailAllocate
  BY <1>3, AllocateStep DEF FailAllocate
<1>4. CASE Deliver \/ (\E c \in Configs : Reconfigure(c)) \/ FailCall \/ Restart \/ UNCHANGED vars
  BY <1>4, StutterStep DEF Deliver, DeliverMachines, DeliverClaims, DeliverSecrets,
                           Reconfigure, FailCall, Restart, vars, machineVars, claimVars
<1>5. QED
  BY <1>1, <1>2, <1>3, <1>4 DEF Next

\* At first nothing is leased.
LEMMA PoolInit == Init => Lease!Init
  BY DEF Init, Lease!Init, PoolLease, Owned, NoObjects

\* However the patches, the garbage collector, new machines of the same name,
\* lost answers and restarts interleave, and however old the copies are that
\* patches are computed from, only a misinformed choice breaks the pool.
THEOREM OnlyChoicesBreakThePool == Spec => PoolUnlessStale
<1>1. TypeOK /\ [Next]_vars
        => [(pc = "allocate" /\ Misinformed) \/ Lease!Next \/ UNCHANGED Lease!vars]_vars
  BY PoolStep
<1>2. QED
  BY <1>1, TypeCorrect, PTL DEF Spec, PoolUnlessStale

\* The worker is never misinformed when it chooses.
Informed == pc = "allocate" => ~Misinformed

\* A behaviour in which it never is implements the pool: a lease starts on a
\* free address, does not change, and ends only with its owner.
THEOREM ClaimsArePool == Spec /\ []Informed => ImplementsPool
<1>1. TypeOK /\ Informed /\ [Next]_vars => [Lease!Next]_(Lease!vars)
  BY PoolStep DEF Informed
<1>2. QED
  BY <1>1, TypeCorrect, PoolInit, PTL DEF Spec, ImplementsPool, Lease!Spec

\* An address pool never leases an address twice, whatever its machines,
\* addresses and owners.
THEOREM PoolExclusive == Lease!Spec => [](Lease!TypeOK /\ Lease!Exclusive)
<1> DEFINE Inv == Lease!TypeOK /\ Lease!Exclusive
<1>1. Lease!Init => Inv
  BY DEF Lease!Init, Lease!TypeOK, Lease!Exclusive
<1>2. Inv /\ [Lease!Next]_(Lease!vars) => Inv'
  <2> SUFFICES ASSUME Inv, [Lease!Next]_(Lease!vars) PROVE Inv'
    OBVIOUS
  <2> USE DEF Lease!TypeOK, Lease!Exclusive
  <2> HIDE DEF PoolLease, Owned
  <2>1. ASSUME NEW m \in Machines, Lease!Own(m) \/ Lease!Disown(m) PROVE Inv'
    BY <2>1 DEF Lease!Own, Lease!Disown
  <2>2. ASSUME NEW m \in Machines, Lease!Release(m) PROVE Inv'
    BY <2>2 DEF Lease!Release
  <2>3. ASSUME NEW m \in Machines, NEW a \in IPv4, Lease!Acquire(m, a) PROVE Inv'
    BY <2>3 DEF Lease!Acquire
  <2>4. CASE UNCHANGED Lease!vars
    BY <2>4 DEF Lease!vars
  <2>5. QED
    BY <2>1, <2>2, <2>3, <2>4 DEF Lease!Next
<1>3. QED
  BY <1>1, <1>2, PTL DEF Lease!Spec

\* So then the claims keep what every address pool promises.
THEOREM AddressesAreUnique == Spec /\ []Informed => []UniqueAddress
<1>1. Spec /\ []Informed => Lease!Spec
  BY ClaimsArePool DEF ImplementsPool
<1>2. Lease!Exclusive => UniqueAddress
  BY DEF Lease!Exclusive, UniqueAddress, Leased, PoolLease
<1>3. QED
  BY <1>1, <1>2, PoolExclusive, PTL
-----------------------------------------------------------------------------
(* With a claim cache that is never behind the worker is informed.         *)

\* Such a cache shows the API objects.
LEMMA CurrentClaims ==
  ASSUME TypeOK, ClaimLag = 0
  PROVE  Seen(claims, claimLog) = claims
<1>1. claimLog \in Seq(ClaimsType) /\ Len(claimLog) <= 0
  BY DEF TypeOK, ClaimsOK
<1>2. claimLog = <<>>
  BY <1>1, EmptySeq, LenProperties
<1>3. QED
  BY <1>2 DEF Seen

\* Until it has chosen an address, the worker's copy of its claim is the
\* server's claim, if that is there.
ClaimExact ==
  pc \in {"pending", "allocate"} /\ claims[work.m] # None => claims[work.m] = work.claim

\* After a patch the worker is idle or has the server's claim.
LEMMA PatchCopies ==
  ASSUME TypeOK, pc # "idle", NEW base, NEW desired, NEW step, NEW ip,
         PatchClaim(base, desired, step, ip)
  PROVE  pc' = "idle" \/ (work'.m = work.m /\ claims'[work.m] = work'.claim)
<1>1. work \in Work /\ work.m \in Machines
  BY WorkTyping DEF TypeOK
<1>2. claims \in ClaimsType
  BY DEF TypeOK, ClaimsOK
<1>3. CASE Requeue
  BY <1>3 DEF Requeue
<1>4. ASSUME NEW served, SetClaim(work.m, served),
             GoTo(step, [work EXCEPT !.claim = served, !.ip = ip])
      PROVE  work'.m = work.m /\ claims'[work.m] = work'.claim
  BY <1>1, <1>2, <1>4 DEF SetClaim, GoTo, Work, ClaimsType
<1>5. QED
  BY <1>3, <1>4 DEF PatchClaim

\* The environment leaves the worker and its claim as they are, or collects the
\* claim.
LEMMA CopyOutside ==
  ASSUME TypeOK, NEW m \in Machines, Environment(m)
  PROVE  /\ UNCHANGED <<pc, work>>
         /\ pc # "idle" => claims'[work.m] \in {None, claims[work.m]}
<1>1. CASE CollectClaim(m)
  <2>1. claims' = [claims EXCEPT ![m] = None] /\ claims \in ClaimsType /\ UNCHANGED <<pc, work>>
    BY <1>1 DEF CollectClaim, SetClaim, workerVars, TypeOK, ClaimsOK
  <2>2. pc # "idle" => work.m \in Machines
    BY WorkTyping DEF TypeOK
  <2>3. QED
    BY <2>1, <2>2 DEF ClaimsType
<1>2. CASE ~CollectClaim(m)
  BY <1>2 DEF Environment, CreateMachine, PublishSecret, Boot, Join,
              DeleteMachine, MachineGone, claimVars, workerVars
<1>3. QED
  BY <1>1, <1>2

\* The copy stays exact: it is read from a current cache, or is what the server
\* has answered.
LEMMA CopyNext ==
  ASSUME TypeOK, ClaimExact, ClaimLag = 0, [Next]_vars
  PROVE  ClaimExact'
<1> USE DEF ClaimExact
<1>1. claims \in ClaimsType
  BY DEF TypeOK, ClaimsOK
<1>2. ASSUME pc' \notin {"pending", "allocate"} PROVE ClaimExact'
  BY <1>2
<1>3. ASSUME UNCHANGED <<claims, pc, work>> PROVE ClaimExact'
  BY <1>3
<1>4. ASSUME work'.m = work.m, claims'[work.m] = work'.claim PROVE ClaimExact'
  BY <1>4
<1>5. ASSUME NEW m \in Machines, Begin(m) PROVE ClaimExact'
  BY <1>2, <1>3, <1>5 DEF Begin, claimVars
<1>6. ASSUME NEW m \in Machines, Environment(m) PROVE ClaimExact'
  BY <1>6, CopyOutside
<1>7. CASE Deliver \/ (\E c \in Configs : Reconfigure(c)) \/ FailCall \/ FailAllocate \/ Restart
  BY <1>2, <1>3, <1>7 DEF Deliver, DeliverMachines, DeliverClaims, DeliverSecrets, Reconfigure,
                          FailCall, FailAllocate, GoTo, Requeue, Restart, claimVars, workerVars
<1>8. CASE Ensure
  <2>1. pc = "claim"
    BY <1>8 DEF Ensure, CreateClaim, CreateConflict, KeepClaim, AlignClaim, EnsureRest
  <2>2. work \in Work /\ work.m \in Machines
    BY <2>1, WorkTyping DEF TypeOK
  <2>3. CASE CreateClaim
    BY <1>1, <1>4, <2>2, <2>3 DEF CreateClaim, SetClaim, GoTo, Work, ClaimsType
  <2>4. CASE CreateConflict
    BY <1>2, <2>4 DEF CreateConflict, Requeue
  <2>5. CASE KeepClaim
    <3>1. SeenClaim = claims[work.m]
      BY CurrentClaims DEF SeenClaim
    <3>2. QED
      BY <1>4, <2>2, <2>5, <3>1 DEF KeepClaim, GoTo, claimVars, Work
  <2>6. CASE AlignClaim
    BY <1>2, <1>4, <2>1, <2>6, PatchCopies DEF AlignClaim
  <2>7. QED
    BY <1>8, <2>3, <2>4, <2>5, <2>6 DEF Ensure
<1>9. CASE MarkPending
  <2>1. CASE GoTo("allocate", work) /\ UNCHANGED claimVars
    BY <1>9, <2>1 DEF GoTo, claimVars, MarkPending
  <2>2. CASE PatchClaim(work.claim, Reported("Pending", None), "allocate", work.ip)
    BY <1>2, <1>4, <1>9, <2>2, PatchCopies DEF MarkPending
  <2>3. QED
    BY <1>9, <2>1, <2>2 DEF MarkPending, SetClaimStatus
<1>10. CASE Assign /\ ~MarkPending
  BY <1>2, <1>10 DEF Assign, UseAddress, Allocate, Exhaust, MarkFailed, MarkReady,
                     SetClaimStatus, PatchClaim, Requeue, GoTo
<1>11. CASE Bootstrap
  BY <1>2, <1>11 DEF Bootstrap, AwaitSecret, KeepSecret, PatchSecret, LateCheck, LateDelete,
                     SecretRest, Requeue, Finish, GoTo, claimVars
<1>12. CASE UNCHANGED vars
  BY <1>3, <1>12 DEF vars, claimVars, workerVars
<1>13. QED
  BY <1>5, <1>6, <1>7, <1>8, <1>9, <1>10, <1>11, <1>12 DEF Next, Continue

\* A claim cache that is never behind informs the worker, which is how the
\* hypothesis of ClaimsArePool can hold.
LEMMA CurrentInforms == ClaimLag = 0 => (Spec => []Informed)
<1> SUFFICES ASSUME ClaimLag = 0 PROVE Spec => []Informed
  OBVIOUS
<1>1. Init => ClaimExact
  BY DEF Init, ClaimExact
<1>2. TypeOK /\ ClaimExact /\ [Next]_vars => ClaimExact'
  BY CopyNext
<1>3. TypeOK /\ ClaimExact => Informed
  <2> SUFFICES ASSUME TypeOK, ClaimExact, pc = "allocate" PROVE ~Misinformed
    BY DEF Informed
  <2>1. Seen(claims, claimLog) = claims
    BY CurrentClaims
  <2>2. claims[work.m] # None => claims[work.m].addr = work.claim.addr
    BY DEF ClaimExact
  <2>3. \A n \in Machines \ {work.m} : Leased(n) => claims[n].addr \in InUse
    BY <2>1 DEF Leased, InUse
  <2>4. QED
    BY <2>2, <2>3 DEF Misinformed
<1>4. QED
  BY <1>1, <1>2, <1>3, TypeCorrect, PTL DEF Spec
=============================================================================
