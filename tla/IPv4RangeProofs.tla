-------------------------- MODULE IPv4RangeProofs --------------------------
(***************************************************************************)
(* What the operators of IPv4Range return, for address spaces of any size. *)
(***************************************************************************)
EXTENDS IPv4Range, TLAPS, NaturalsInduction, WellFoundedInduction

\* uint32 arithmetic stays among the addresses.
LEMMA WrapType == \A n \in Int : Wrap(n) \in IPv4
  BY SpaceAssumption DEF Wrap, IPv4

\* Below Space it is ordinary arithmetic.
LEMMA WrapExact == \A n \in IPv4 : Wrap(n) = n
  BY SpaceAssumption DEF Wrap, IPv4

\* A set of addresses that is not empty has a least one.
LEMMA LeastExists ==
  ASSUME NEW S \in SUBSET Nat, S # {}
  PROVE  \E a \in S : IsLeast(a, S)
<1>1. PICK a \in S : \A b \in S : <<b, a>> \notin OpToRel(<, Nat)
  BY NatLessThanWellFounded, WFMin
<1>2. ASSUME NEW b \in S PROVE a <= b
  <2>1. <<b, a>> \in Nat \X Nat
    OBVIOUS
  <2>2. ~(b < a)
    BY <1>1, <2>1 DEF OpToRel
  <2>3. QED
    BY <2>2
<1>3. QED
  BY <1>2 DEF IsLeast

\* newIPv4Range returns the error or a range of addresses.
LEMMA RangeTyping ==
  ASSUME NEW subnet \in SubnetType, NEW reserved \in Int
  PROVE  NewIPv4Range(subnet, reserved) \in RangeType \cup {None}
<1>1. AtLeastOne(reserved) \in Int
  BY DEF AtLeastOne
<1>2. subnet.network \in Int /\ subnet.size \in Int
  BY SpaceAssumption DEF SubnetType, IPv4
<1>3. Layout(subnet, AtLeastOne(reserved)) \in RangeType
  BY <1>1, <1>2, WrapType, SpaceAssumption DEF Layout, FirstUsable, RangeType, SubnetType, IPv4
<1>4. QED
  BY <1>3 DEF NewIPv4Range

\* nextAvailableIP never returns an address in use, nor one outside the pool
\* of the role.
THEOREM NextAvailableIPIsFree ==
  ASSUME NEW cp \in BOOLEAN, NEW inUse, NEW range \in RangeType,
         NextAvailableIP(cp, inUse, range) # None
  PROVE  NextAvailableIP(cp, inUse, range) \in Pool(range, cp) \ inUse
<1> DEFINE free == Pool(range, cp) \ inUse
<1>1. free # {}
  BY DEF NextAvailableIP
<1>2. free \in SUBSET Nat
  BY SpaceAssumption DEF Pool, RangeType, IPv4
<1>3. \E a \in free : IsLeast(a, free)
  BY <1>1, <1>2, LeastExists
<1>4. (CHOOSE a \in free : IsLeast(a, free)) \in free
  BY <1>3
<1>5. QED
  BY <1>1, <1>4 DEF NextAvailableIP

\* It fails only when the pool has no free address.
THEOREM NextAvailableIPFails ==
  ASSUME NEW cp \in BOOLEAN, NEW inUse, NEW range \in RangeType,
         NextAvailableIP(cp, inUse, range) = None
  PROVE  Pool(range, cp) \subseteq inUse
<1> DEFINE free == Pool(range, cp) \ inUse
<1> SUFFICES ASSUME free # {} PROVE FALSE
  OBVIOUS
<1>1. free \in SUBSET Nat
  BY SpaceAssumption DEF Pool, RangeType, IPv4
<1>2. (CHOOSE a \in free : IsLeast(a, free)) \in free
  BY <1>1, LeastExists
<1>3. NextAvailableIP(cp, inUse, range) \in Nat
  BY <1>1, <1>2 DEF NextAvailableIP
<1>4. QED
  BY <1>3, NoneAssumption

\* While they do not wrap, the borders are where they are meant to be.
LEMMA LayoutBorders ==
  ASSUME NEW subnet, IsSubnet(subnet), subnet.size # 1, NEW reserved \in Int,
         subnet.network + AtLeastOne(reserved) + 2 < Space,
         NEW range, range = Layout(subnet, AtLeastOne(reserved))
  PROVE  /\ range.cpStart = subnet.network + 2
         /\ range.cpEnd = subnet.network + AtLeastOne(reserved) + 1
         /\ range.workerStart = subnet.network + AtLeastOne(reserved) + 2
         /\ range.workerEnd = subnet.network + subnet.size - 2
         /\ range \in RangeType
<1> DEFINE r == AtLeastOne(reserved)
<1>1. r \in Nat \ {0}
  BY DEF AtLeastOne
<1>2. /\ subnet.network \in Nat /\ subnet.size \in Nat \ {0}
      /\ subnet.network + subnet.size <= Space
  BY SpaceAssumption DEF IsSubnet, SubnetType, IPv4
<1>3. range = Layout(subnet, r) /\ subnet.network + r + 2 < Space
  OBVIOUS
<1> HIDE DEF r
<1>4. FirstUsable(subnet) = subnet.network + 1
  BY <1>1, <1>2, <1>3, SpaceAssumption, WrapExact DEF FirstUsable, IPv4
<1>5. range.cpStart = subnet.network + 2
  BY <1>1, <1>2, <1>3, <1>4, SpaceAssumption, WrapExact DEF Layout, IPv4
<1>6. range.cpEnd = subnet.network + r + 1
  <2>1. range.cpEnd = Wrap(range.cpStart + r - 1)
    BY <1>3 DEF Layout
  <2>2. QED
    BY <2>1, <1>1, <1>2, <1>3, <1>5, SpaceAssumption, WrapExact DEF IPv4
<1>7. range.workerStart = subnet.network + r + 2
  <2>1. range.workerStart = Wrap(range.cpEnd + 1)
    BY <1>3 DEF Layout
  <2>2. QED
    BY <2>1, <1>1, <1>2, <1>3, <1>6, SpaceAssumption, WrapExact DEF IPv4
<1>8. range.workerEnd = subnet.network + subnet.size - 2
  <2>1. range.broadcast = subnet.network + subnet.size - 1
    BY <1>2, <1>3, SpaceAssumption, WrapExact DEF Layout, IPv4
  <2>2. range.workerEnd = Wrap(range.broadcast - 1)
    BY <1>3 DEF Layout
  <2>3. QED
    BY <2>1, <2>2, <1>2, SpaceAssumption, WrapExact DEF IPv4
<1>9. range \in RangeType
  <2>1. subnet.network \in IPv4 /\ r \in Int /\ subnet.size \in Int
    BY <1>1, <1>2 DEF IsSubnet, SubnetType
  <2>2. subnet.network \in Int
    BY <1>2
  <2>3. QED
    BY <1>3, <2>1, <2>2, WrapType, SpaceAssumption DEF Layout, FirstUsable, RangeType, IPv4
<1>10. QED
  BY <1>5, <1>6, <1>7, <1>8, <1>9 DEF r

\* So a subnet is accepted that can hold network, gateway, reserve, a worker and
\* broadcast, and no smaller one.
LEMMA RangeAccepted ==
  ASSUME NEW subnet, IsSubnet(subnet), NEW reserved \in Int,
         subnet.network + AtLeastOne(reserved) + 2 < Space
  PROVE  /\ NewIPv4Range(subnet, reserved) = None <=> subnet.size < AtLeastOne(reserved) + 4
         /\ NewIPv4Range(subnet, reserved) # None =>
              NewIPv4Range(subnet, reserved) = Layout(subnet, AtLeastOne(reserved))
<1>1. /\ subnet.network \in Int /\ subnet.size \in Int
      /\ AtLeastOne(reserved) \in Int /\ AtLeastOne(reserved) >= 1
  BY SpaceAssumption DEF IsSubnet, SubnetType, IPv4, AtLeastOne
<1>2. CASE subnet.size = 1
  BY <1>1, <1>2 DEF NewIPv4Range
<1>3. CASE subnet.size # 1
  <2> DEFINE L == Layout(subnet, AtLeastOne(reserved))
  <2>1. /\ L.workerStart = subnet.network + AtLeastOne(reserved) + 2
        /\ L.workerEnd = subnet.network + subnet.size - 2
        /\ L # None
    BY <1>3, LayoutBorders, NoneAssumption
  <2>2. NewIPv4Range(subnet, reserved) = IF L.workerStart > L.workerEnd THEN None ELSE L
    BY <1>3 DEF NewIPv4Range
  <2> HIDE DEF L
  <2>3. L.workerStart > L.workerEnd <=> subnet.size < AtLeastOne(reserved) + 4
    BY <1>1, <2>1
  <2>4. QED
    BY <2>1, <2>2, <2>3 DEF L
<1>4. QED
  BY <1>2, <1>3

\* While no border wraps, the ranges newIPv4Range accepts put the network
\* address, the gateway, the control-plane pool, the worker pool and broadcast
\* in this order, and the reserve has the requested number of addresses.
THEOREM RangeOrdered ==
  ASSUME NEW subnet, IsSubnet(subnet), NEW reserved \in Int,
         subnet.network + AtLeastOne(reserved) + 2 < Space,
         NEW range, range = NewIPv4Range(subnet, reserved), range # None
  PROVE  /\ subnet.network + 1 < range.cpStart
         /\ range.cpStart <= range.cpEnd
         /\ range.cpEnd - range.cpStart + 1 = AtLeastOne(reserved)
         /\ range.cpEnd < range.workerStart
         /\ range.workerStart <= range.workerEnd
         /\ range.workerEnd < subnet.network + subnet.size - 1
<1>1. range = Layout(subnet, AtLeastOne(reserved)) /\ subnet.size # 1
      /\ ~(range.workerStart > range.workerEnd)
  BY DEF NewIPv4Range
<1>2. /\ subnet.network \in Int /\ subnet.size \in Int
      /\ AtLeastOne(reserved) \in Int /\ AtLeastOne(reserved) >= 1
  BY SpaceAssumption DEF IsSubnet, SubnetType, IPv4, AtLeastOne
<1>3. QED
  BY <1>1, <1>2, LayoutBorders
=============================================================================
