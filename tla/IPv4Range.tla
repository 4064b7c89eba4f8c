------------------------------ MODULE IPv4Range ------------------------------
(***************************************************************************)
(* The address arithmetic of the machine IP reconciler: how the subnet of  *)
(* a cluster is divided between gateway, control plane and workers, and    *)
(* which address a machine of a role is given.  An address is the uint32   *)
(* the code converts it to, so all arithmetic wraps at Space (2^32 in the  *)
(* program, a small power of two in the runs).  A subnet is a network      *)
(* address and its number of addresses, 2^hostBits.                        *)
(*                                                                         *)
(* A definition introduced by "Fault" is a wrong version of the one below  *)
(* it: no specification uses it, and a property is worth checking when     *)
(* putting the fault in place of the definition violates the property.     *)
(***************************************************************************)
EXTENDS Integers, FiniteSets

CONSTANTS
  Space,  \* how many values an unsigned address has
  None    \* the absence of a value

ASSUME SpaceAssumption == Space \in Nat \ {0}

IPv4 == 0 .. Space - 1

SubnetType == [network : IPv4, size : 1 .. Space]

\* A masked prefix: aligned to its size, and inside the address space.
IsSubnet(subnet) == /\ subnet \in SubnetType
                    /\ subnet.network % subnet.size = 0
                    /\ subnet.network + subnet.size <= Space

\* uint32 arithmetic.
Wrap(n) == n % Space

RangeType == [network : IPv4, broadcast : IPv4, cpStart : IPv4, cpEnd : IPv4,
              workerStart : IPv4, workerEnd : IPv4]

\* The absence of a value is neither a number nor a range.
ASSUME NoneAssumption == None \notin Int /\ None \notin RangeType

\* Fault: the gateway's own address counts as usable.
FirstUsableIsNetwork(subnet) == subnet.network

FirstUsable(subnet) == Wrap(subnet.network + 1)

\* The borders newIPv4Range computes, in the order it computes them.  The
\* first usable address is the gateway's.
Layout(subnet, reserved) ==
  LET broadcast   == Wrap(subnet.network + subnet.size - 1)
      cpStart     == Wrap(FirstUsable(subnet) + 1)
      cpEnd       == Wrap(cpStart + reserved - 1)
  IN  [network     |-> subnet.network,
       broadcast   |-> broadcast,
       cpStart     |-> cpStart,
       cpEnd       |-> cpEnd,
       workerStart |-> Wrap(cpEnd + 1),
       workerEnd   |-> Wrap(broadcast - 1)]

AtLeastOne(n) == IF n < 1 THEN 1 ELSE n

\* None is the error result: no host bits, or no address left for a worker.
NewIPv4Range(subnet, reserved) ==
  LET range == Layout(subnet, AtLeastOne(reserved)) IN
  IF subnet.size = 1 \/ range.workerStart > range.workerEnd THEN None ELSE range

Pool(range, controlPlane) ==
  IF controlPlane THEN range.cpStart .. range.cpEnd
                  ELSE range.workerStart .. range.workerEnd

IsLeast(a, S) == a \in S /\ \A b \in S : a <= b

\* First fit: the least address of the role's pool nobody uses, or None (the
\* two "no IPs available" errors).
NextAvailableIP(controlPlane, inUse, range) ==
  LET free == Pool(range, controlPlane) \ inUse IN
  IF free = {} THEN None ELSE CHOOSE a \in free : IsLeast(a, free)

\* What a machine's prefix is among the prefixes of an interface: it takes the
\* place of the others of its length in its subnet.
Upsert(prefixes, p) ==
  {q \in prefixes : q.size # p.size \/ q.addr \div q.size # p.addr \div p.size} \cup {p}
=============================================================================
