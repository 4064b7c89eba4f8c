-------------------------- MODULE AddressingProofs --------------------------
(***************************************************************************)
(* The counting loop is first fit, the range of a subnet divides it, and   *)
(* bootstrap data is written once and keeps all that is not the address of *)
(* the machine, for address spaces of any size, any addresses in use and   *)
(* any documents.                                                          *)
(***************************************************************************)
EXTENDS Addressing, IPv4RangeProofs, FiniteSetTheorems

FreeIn(r) == Pool(r, input.controlPlane) \ input.inUse

\* What the loop has established when it looks at v.
LoopInv ==
  /\ input \in Inputs
  /\ pc \in {"parse", "rejected", "scan", "done"}
  /\ v \in IPv4 /\ result \in IPv4 \cup {None}
  /\ pc # "done" => result = None
  /\ pc \in {"scan", "done"} => /\ range # None
                                /\ range = NewIPv4Range(input.subnet, input.reserved)
  /\ pc = "scan" /\ NoWrap => /\ First(range) <= v /\ v <= Last(range) + 1
                              /\ \A a \in FreeIn(range) : v <= a
  /\ LoopIsFirstFit

\* Inputs of the loop are subnets that netip parses, with a reserve and a role.
LEMMA InputFields ==
  ASSUME input \in Inputs
  PROVE  /\ IsSubnet(input.subnet) /\ input.subnet \in SubnetType
         /\ input.reserved \in Int /\ input.controlPlane \in BOOLEAN
<1>1. /\ input \in [subnet : SubnetType, reserved : Reserves,
                    controlPlane : BOOLEAN, inUse : SUBSET IPv4]
      /\ IsSubnet(input.subnet)
  BY DEF Inputs
<1>2. /\ input.subnet \in SubnetType /\ input.reserved \in Reserves
      /\ input.controlPlane \in BOOLEAN
  BY <1>1
<1>3. Reserves \subseteq Int
  BY ReservesAssumption
<1>4. QED
  BY <1>1, <1>2, <1>3

\* The pool of a role is an interval of addresses that ends before the last.
LEMMA PoolBorders ==
  ASSUME input \in Inputs, NoWrap,
         NEW r, r = NewIPv4Range(input.subnet, input.reserved), r # None
  PROVE  /\ First(r) \in IPv4 /\ Last(r) \in IPv4
         /\ First(r) <= Last(r) + 1 /\ Last(r) + 1 < Space
         /\ Pool(r, input.controlPlane) = First(r) .. Last(r)
<1>1. /\ IsSubnet(input.subnet) /\ input.subnet \in SubnetType
      /\ input.reserved \in Int /\ input.controlPlane \in BOOLEAN
  BY InputFields
<1>2. r \in RangeType
  BY <1>1, RangeTyping
<1>3. /\ r.cpStart <= r.cpEnd /\ r.cpEnd < r.workerStart
      /\ r.workerStart <= r.workerEnd
      /\ r.workerEnd < input.subnet.network + input.subnet.size - 1
  BY <1>1, RangeOrdered DEF NoWrap
<1>4. /\ input.subnet.network \in Int /\ input.subnet.size \in Int
      /\ input.subnet.network + input.subnet.size <= Space
  BY <1>1, SpaceAssumption DEF IsSubnet, SubnetType, IPv4
<1>5. /\ r.cpStart \in IPv4 /\ r.cpEnd \in IPv4
      /\ r.workerStart \in IPv4 /\ r.workerEnd \in IPv4
  BY <1>2 DEF RangeType
<1>6. /\ r.cpStart \in Int /\ r.cpEnd \in Int
      /\ r.workerStart \in Int /\ r.workerEnd \in Int
  BY <1>5, SpaceAssumption DEF IPv4
<1>7. r.cpEnd + 1 < Space /\ r.workerEnd + 1 < Space
  BY <1>3, <1>4, <1>6, SpaceAssumption
<1>8. CASE input.controlPlane
  BY <1>3, <1>5, <1>6, <1>7, <1>8 DEF First, Last, Pool
<1>9. CASE ~input.controlPlane
  BY <1>3, <1>5, <1>6, <1>7, <1>9 DEF First, Last, Pool
<1>10. QED
  BY <1>8, <1>9

\* The least free address is what first fit returns.
LEMMA LeastIsFirstFit ==
  ASSUME input \in Inputs, NoWrap,
         NEW r, r = NewIPv4Range(input.subnet, input.reserved), r # None,
         NEW a \in FreeIn(r), \A b \in FreeIn(r) : a <= b
  PROVE  NextAvailableIP(input.controlPlane, input.inUse, r) = a
<1>1. FreeIn(r) \subseteq Int
  BY PoolBorders, SpaceAssumption DEF FreeIn, IPv4
<1>2. IsLeast(a, FreeIn(r))
  BY DEF IsLeast
<1>3. \A b \in FreeIn(r) : IsLeast(b, FreeIn(r)) => b = a
  BY <1>1, <1>2 DEF IsLeast
<1>4. (CHOOSE b \in FreeIn(r) : IsLeast(b, FreeIn(r))) = a
  BY <1>2, <1>3
<1>5. QED
  BY <1>4 DEF NextAvailableIP, FreeIn

\* No step of the loop, nor of the data, undoes what has been established.
LEMMA LoopStep ==
  ASSUME LoopInv, [Next]_vars
  PROVE  LoopInv'
<1> USE DEF LoopInv
<1>1. CASE Reject
  BY <1>1 DEF Reject, Inputs, LoopIsFirstFit, NoWrap
<1>2. CASE Parse
  <2>1. /\ input' = input /\ pc' = "scan" /\ result' = None
        /\ range' = NewIPv4Range(input.subnet, input.reserved) /\ range' # None
        /\ v' = First(range')
    BY <1>2 DEF Parse
  <2>2. range' \in RangeType
    BY <2>1, RangeTyping, InputFields
  <2>3. v' \in IPv4
    BY <2>1, <2>2 DEF First, RangeType
  <2>4. ASSUME NoWrap'
        PROVE  /\ First(range)' <= v' /\ v' <= (Last(range) + 1)'
               /\ \A a \in FreeIn(range)' : v' <= a
    <3>1. NoWrap
      BY <2>1, <2>4 DEF NoWrap
    <3>2. /\ First(range') \in IPv4 /\ Last(range') \in IPv4
          /\ First(range') <= Last(range') + 1
          /\ Pool(range', input.controlPlane) = First(range') .. Last(range')
      BY <2>1, <3>1, PoolBorders
    <3>3. /\ First(range)' = First(range') /\ Last(range)' = Last(range')
          /\ FreeIn(range)' = FreeIn(range')
      BY <2>1 DEF First, Last, FreeIn
    <3>4. IPv4 \subseteq Int
      BY SpaceAssumption DEF IPv4
    <3>5. v' = First(range') /\ First(range') \in Int /\ Last(range') \in Int
      BY <2>1, <3>2, <3>4
    <3>6. \A a \in FreeIn(range') : First(range') <= a
      BY <3>2, <3>5 DEF FreeIn
    <3>7. QED
      BY <3>2, <3>3, <3>5, <3>6
  <2>5. QED
    BY <2>1, <2>3, <2>4 DEF LoopIsFirstFit
<1>3. CASE Skip
  <2>1. /\ UNCHANGED <<input, pc, range, result>> /\ v' = Successor(v)
        /\ pc = "scan" /\ v \in input.inUse /\ ~(v > Last(range))
    BY <1>3 DEF Skip, PastEnd
  <2>2. v \in Int
    BY SpaceAssumption DEF IPv4
  <2>3. v' \in IPv4
    BY <2>1, <2>2, WrapType DEF Successor
  <2>4. ASSUME NoWrap'
        PROVE  /\ First(range)' <= v' /\ v' <= (Last(range) + 1)'
               /\ \A a \in FreeIn(range)' : v' <= a
    <3>1. NoWrap
      BY <2>1, <2>4 DEF NoWrap
    <3>2. /\ Last(range) + 1 < Space /\ First(range) \in Int /\ Last(range) \in Int
          /\ Pool(range, input.controlPlane) = First(range) .. Last(range)
      BY <2>1, <3>1, PoolBorders, SpaceAssumption DEF IPv4
    <3>3. v + 1 \in IPv4
      BY <2>1, <2>2, <3>2, SpaceAssumption DEF IPv4
    <3>4. v' = v + 1
      BY <2>1, <3>3, WrapExact DEF Successor
    <3>5. /\ First(range)' = First(range) /\ Last(range)' = Last(range)
          /\ FreeIn(range)' = FreeIn(range)
      BY <2>1 DEF First, Last, FreeIn
    <3>6. \A a \in FreeIn(range) : a \in Int /\ a # v
      BY <2>1, <3>2 DEF FreeIn
    <3>7. /\ First(range) <= v /\ \A a \in FreeIn(range) : v <= a
      BY <2>1, <3>1
    <3>8. \A a \in FreeIn(range) : v + 1 <= a
      BY <3>6, <3>7, <2>2
    <3>9. QED
      BY <2>1, <2>2, <3>2, <3>4, <3>5, <3>7, <3>8
  <2>5. QED
    BY <2>1, <2>3, <2>4 DEF LoopIsFirstFit
<1>4. CASE Take
  <2>1. /\ UNCHANGED <<input, range, v>> /\ pc' = "done" /\ result' = v
        /\ pc = "scan" /\ v \notin input.inUse /\ ~(v > Last(range))
    BY <1>4 DEF Take, PastEnd
  <2>2. ASSUME NoWrap'
        PROVE  result' = NextAvailableIP(input.controlPlane, input.inUse, range)
    <3>1. NoWrap
      BY <2>1, <2>2 DEF NoWrap
    <3>2. v \in FreeIn(range)
      BY <2>1, <3>1, PoolBorders, SpaceAssumption DEF FreeIn, IPv4
    <3>3. QED
      BY <2>1, <3>1, <3>2, LeastIsFirstFit
  <2>3. QED
    BY <2>1, <2>2 DEF LoopIsFirstFit
<1>5. CASE Exhaust
  <2>1. /\ UNCHANGED <<input, range, v, result>> /\ pc' = "done" /\ result = None
        /\ pc = "scan" /\ v > Last(range)
    BY <1>5 DEF Exhaust, PastEnd
  <2>2. ASSUME NoWrap'
        PROVE  NextAvailableIP(input.controlPlane, input.inUse, range) = None
    <3>1. NoWrap
      BY <2>1, <2>2 DEF NoWrap
    <3>2. /\ Last(range) \in Int /\ v \in Int
          /\ FreeIn(range) \subseteq First(range) .. Last(range) /\ First(range) \in Int
      BY <2>1, <3>1, PoolBorders, SpaceAssumption DEF FreeIn, IPv4
    <3>3. FreeIn(range) = {}
      BY <2>1, <3>1, <3>2
    <3>4. QED
      BY <3>3 DEF NextAvailableIP, FreeIn
  <2>3. QED
    BY <2>1, <2>2 DEF LoopIsFirstFit
<1>6. CASE UNCHANGED vars
  BY <1>6 DEF vars, LoopIsFirstFit, NoWrap, First, Last, FreeIn
<1>7. QED
  BY <1>1, <1>2, <1>3, <1>4, <1>5, <1>6 DEF Next

\* The loop of nextAvailableIP, with its unsigned counter, returns the least
\* address of the pool nobody uses, whatever the size of the address space.
THEOREM CountingIsFirstFit == AddressingSpec => []LoopIsFirstFit
<1>1. AddressingInit => LoopInv
  <2>1. 0 \in IPv4
    BY SpaceAssumption DEF IPv4
  <2>2. QED
    BY <2>1 DEF AddressingInit, Init, LoopInv, LoopIsFirstFit
<1>2. LoopInv /\ [AddressingNext]_addressingVars => LoopInv'
  <2>1. [AddressingNext]_addressingVars => [Next]_vars
    BY DEF AddressingNext, addressingVars, PublishData, WriteData
  <2>2. QED
    BY <2>1, LoopStep
<1>3. LoopInv => LoopIsFirstFit
  BY DEF LoopInv
<1>4. QED
  BY <1>1, <1>2, <1>3, PTL DEF AddressingSpec
\* What is known of the range, whatever the loop does.
RangeKept ==
  IF pc \in {"scan", "done"}
  THEN range = NewIPv4Range(input.subnet, input.reserved) /\ range # None
  ELSE /\ range = None
       /\ pc = "rejected" => NewIPv4Range(input.subnet, input.reserved) = None

\* Adjacent intervals of numbers make one.
LEMMA Adjacent ==
  ASSUME NEW a \in Int, NEW b \in Int, NEW c \in Int, a <= b, b <= c
  PROVE  /\ (a .. b) \cap (b + 1 .. c) = {}
         /\ (a .. b) \cup (b + 1 .. c) = a .. c
         /\ Cardinality(a .. b) = b - a + 1
<1>1. Cardinality(a .. b) = IF a > b THEN 0 ELSE b - a + 1
  BY FS_Interval, Zenon
<1>2. Cardinality(a .. b) = b - a + 1
  BY <1>1
<1>3. (a .. b) \cap (b + 1 .. c) = {}
  OBVIOUS
<1>4. (a .. b) \cup (b + 1 .. c) = a .. c
  <2>1. \A i \in Int : i \in (a .. b) \cup (b + 1 .. c) <=> i \in a .. c
    OBVIOUS
  <2>2. (a .. b) \cup (b + 1 .. c) \subseteq Int /\ a .. c \subseteq Int
    OBVIOUS
  <2>3. QED
    BY <2>1, <2>2
<1>5. QED
  BY <1>2, <1>3, <1>4

\* The pools of a range lie between the gateway and broadcast, and fill what is
\* there.
LEMMA PoolsDivide ==
  ASSUME input \in Inputs, NoWrap,
         NEW r, r = NewIPv4Range(input.subnet, input.reserved), r # None
  PROVE  /\ Pool(r, TRUE) \cap Pool(r, FALSE) = {}
         /\ Cardinality(Pool(r, TRUE)) = AtLeastOne(input.reserved)
         /\ Pool(r, TRUE) \cup Pool(r, FALSE) =
              (input.subnet.network + 2) .. (input.subnet.network + input.subnet.size - 2)
<1> DEFINE network == input.subnet.network
           size == input.subnet.size
           n == AtLeastOne(input.reserved)
<1>1. IsSubnet(input.subnet) /\ input.reserved \in Int
  BY InputFields
<1>2. /\ network \in Int /\ size \in Int /\ n \in Int /\ n >= 1
  BY <1>1, SpaceAssumption DEF IsSubnet, SubnetType, IPv4, AtLeastOne
<1>3. size >= n + 4 /\ size # 1 /\ r = Layout(input.subnet, n)
  BY <1>1, <1>2, RangeAccepted DEF NoWrap
<1>4. /\ r.cpStart = network + 2 /\ r.cpEnd = network + n + 1
      /\ r.workerStart = network + n + 2 /\ r.workerEnd = network + size - 2
  BY <1>1, <1>3, LayoutBorders DEF NoWrap
<1> DEFINE a == network + 2
           b == network + n + 1
           c == network + size - 2
<1> HIDE DEF network, size, n
<1>5. a \in Int /\ b \in Int /\ c \in Int /\ a <= b /\ b <= c
  BY <1>2, <1>3
<1>6. Pool(r, TRUE) = a .. b /\ Pool(r, FALSE) = b + 1 .. c /\ b - a + 1 = n
  <2>1. r.workerStart = b + 1 /\ b - a + 1 = n
    BY <1>2, <1>4
  <2>2. QED
    BY <1>4, <2>1 DEF Pool
<1> HIDE DEF a, b, c
<1>7. /\ Pool(r, TRUE) \cap Pool(r, FALSE) = {}
      /\ Cardinality(Pool(r, TRUE)) = n
      /\ Pool(r, TRUE) \cup Pool(r, FALSE) = a .. c
  BY <1>5, <1>6, Adjacent
<1>8. QED
  BY <1>7 DEF network, size, n, a, c

\* Before the borders wrap, newIPv4Range accepts exactly the subnets that can
\* hold the reserve and a worker, and divides them into disjoint pools that
\* leave the network, gateway and broadcast addresses alone.
THEOREM SubnetIsDivided == AddressingSpec => []SubnetDivided
<1>1. AddressingInit => LoopInv /\ RangeKept
  <2>1. 0 \in IPv4
    BY SpaceAssumption DEF IPv4
  <2>2. QED
    BY <2>1 DEF AddressingInit, Init, LoopInv, LoopIsFirstFit, RangeKept
<1>2. LoopInv /\ RangeKept /\ [AddressingNext]_addressingVars => LoopInv' /\ RangeKept'
  <2> SUFFICES ASSUME LoopInv, RangeKept, [AddressingNext]_addressingVars
               PROVE  LoopInv' /\ RangeKept'
    OBVIOUS
  <2>1. [Next]_vars
    BY DEF AddressingNext, addressingVars, PublishData, WriteData
  <2>2. RangeKept'
    BY <2>1 DEF RangeKept, Next, vars, Reject, Parse, Skip, Take, Exhaust
  <2>3. QED
    BY <2>1, <2>2, LoopStep
<1>3. LoopInv /\ RangeKept => SubnetDivided
  <2> SUFFICES ASSUME LoopInv, RangeKept, NoWrap, pc # "parse"
               PROVE  /\ (pc = "rejected") = (input.subnet.size < Needed)
                      /\ range # None =>
                           /\ Pool(range, TRUE) \cap Pool(range, FALSE) = {}
                           /\ Cardinality(Pool(range, TRUE)) = AtLeastOne(input.reserved)
                           /\ Pool(range, TRUE) \cup Pool(range, FALSE) =
                                (input.subnet.network + 2)
                                  .. (input.subnet.network + input.subnet.size - 2)
    BY DEF SubnetDivided
  <2>1. input \in Inputs /\ pc \in {"rejected", "scan", "done"}
    BY DEF LoopInv
  <2>2. NewIPv4Range(input.subnet, input.reserved) = None <=> input.subnet.size < Needed
    BY <2>1, InputFields, RangeAccepted DEF NoWrap, Needed
  <2>3. pc = "rejected" <=> NewIPv4Range(input.subnet, input.reserved) = None
    BY <2>1 DEF RangeKept
  <2>4. (pc = "rejected") = (input.subnet.size < Needed)
    BY <2>2, <2>3
  <2>5. range # None => range = NewIPv4Range(input.subnet, input.reserved)
    BY DEF RangeKept
  <2>6. QED
    BY <2>1, <2>4, <2>5, PoolsDivide
<1>4. QED
  BY <1>1, <1>2, <1>3, PTL DEF AddressingSpec
-----------------------------------------------------------------------------
\* What has been given an address needs no change for it.
LEMMA SetKeeps ==
  ASSUME NEW d \in Document, NEW p \in Prefix
  PROVE  /\ SetLinkConfigAddress(d, p).link = Interface
         /\ ~Changed(SetLinkConfigAddress(d, p), p)
<1> DEFINE s == SetLinkConfigAddress(d, p)
<1>1. /\ s.link = Interface /\ s.current = TRUE /\ s.up = Up(d.up)
      /\ s.addresses = WithAddress(d.addresses, p)
  BY DEF SetLinkConfigAddress, Document
<1>2. s.up # "unset"
  BY <1>1 DEF Up
<1>3. p \in s.addresses /\ \A e \in s.addresses : ~Replaced(e, p)
  BY <1>1 DEF WithAddress, Replaced
<1>4. QED
  BY <1>1, <1>2, <1>3 DEF Changed

\* Upserted data is a sequence of documents.
LEMMA UpsertType ==
  ASSUME NEW ds \in Seq(Document), NEW p \in Prefix
  PROVE  UpsertLinkConfig(ds, p) \in Seq(Document)
<1>1. \A d \in Document : SetLinkConfigAddress(d, p) \in Document
  BY DEF SetLinkConfigAddress, Document, Up, WithAddress
<1>2. NewDocument \in Document
  BY DEF NewDocument, Document
<1>3. CASE Links(ds) = {}
  BY <1>1, <1>2, <1>3 DEF UpsertLinkConfig
<1>4. CASE Links(ds) # {}
  <2>1. Links(ds) \in SUBSET Nat
    BY DEF Links
  <2>2. \E k \in Links(ds) : \A j \in Links(ds) : k <= j
    BY <1>4, <2>1, LeastExists DEF IsLeast
  <2>3. FirstLink(ds) \in DOMAIN ds
    BY <2>2 DEF FirstLink, Links
  <2>4. QED
    BY <1>1, <1>4, <2>3 DEF UpsertLinkConfig
<1>5. QED
  BY <1>3, <1>4

\* The document the address goes into: the first LinkConfig of the interface,
\* or a new one.
Target(ds) == IF Links(ds) = {} THEN NewDocument ELSE ds[FirstLink(ds)]

\* Written data has the address in the first LinkConfig of the interface, which
\* stays where it was, and the other documents as they were.
LEMMA UpsertShape ==
  ASSUME NEW ds \in Seq(Document), NEW p \in Prefix,
         NEW es, es = UpsertLinkConfig(ds, p)
  PROVE  /\ Links(es) # {} /\ FirstLink(es) \in DOMAIN es
         /\ Target(ds) \in Document
         /\ es[FirstLink(es)] = SetLinkConfigAddress(Target(ds), p)
         /\ Links(ds) # {} => FirstLink(es) = FirstLink(ds)
         /\ \A i \in DOMAIN ds : i \in DOMAIN es
                               /\ (i = FirstLink(es) => Links(ds) # {})
                               /\ (i # FirstLink(es) => es[i] = ds[i])
<1>1. CASE Links(ds) = {}
  <2> DEFINE s == SetLinkConfigAddress(NewDocument, p)
             n == Len(ds) + 1
  <2>1. NewDocument \in Document
    BY DEF NewDocument, Document
  <2>2. s.link = Interface
    BY <2>1, SetKeeps
  <2> HIDE DEF s
  <2>3. es = Append(ds, s)
    BY <1>1 DEF UpsertLinkConfig, s
  <2>4. /\ DOMAIN es = 1 .. n /\ es[n] = s
        /\ \A i \in DOMAIN ds : es[i] = ds[i]
        /\ DOMAIN ds = 1 .. n - 1 /\ n \in Nat
    BY <2>3
  <2>5. \A i \in DOMAIN ds : ds[i].link # Interface
    BY <1>1 DEF Links
  <2>6. Links(es) = {n}
    BY <2>2, <2>4, <2>5 DEF Links
  <2>7. FirstLink(es) = n
    BY <2>4, <2>6 DEF FirstLink
  <2>8. Target(ds) = NewDocument
    BY <1>1 DEF Target
  <2>9. n \in DOMAIN es /\ \A i \in DOMAIN ds : i # n /\ i \in DOMAIN es
    BY <2>4
  <2>10. QED
    BY <1>1, <2>1, <2>4, <2>6, <2>7, <2>8, <2>9 DEF s
<1>2. CASE Links(ds) # {}
  <2> DEFINE i == FirstLink(ds)
             s == SetLinkConfigAddress(ds[i], p)
  <2>1. Links(ds) \in SUBSET Nat
    BY DEF Links
  <2>2. \E k \in Links(ds) : \A j \in Links(ds) : k <= j
    BY <1>2, <2>1, LeastExists DEF IsLeast
  <2>3. i \in Links(ds)
    BY <2>2 DEF FirstLink
  <2>4. i \in DOMAIN ds /\ ds[i] \in Document
    BY <2>3 DEF Links
  <2>5. s.link = Interface
    BY <2>4, SetKeeps
  <2>6. es = [ds EXCEPT ![i] = s]
    BY <1>2 DEF UpsertLinkConfig
  <2>7. Target(ds) = ds[i]
    BY <1>2 DEF Target
  <2> HIDE DEF i, s
  <2>8. /\ DOMAIN es = DOMAIN ds /\ es[i] = s
        /\ \A j \in DOMAIN ds : j # i => es[j] = ds[j]
    BY <2>4, <2>6
  <2>9. Links(es) = Links(ds)
    BY <2>3, <2>5, <2>8 DEF Links
  <2>10. FirstLink(es) = i
    BY <2>9 DEF FirstLink, i
  <2>11. QED
    BY <1>2, <2>4, <2>7, <2>8, <2>9, <2>10 DEF i, s
<1>3. QED
  BY <1>1, <1>2

\* A second reconciliation keeps the data that the first has written.
LEMMA UpsertSettles ==
  ASSUME NEW ds \in Seq(Document), NEW p \in Prefix
  PROVE  UpsertKeeps(UpsertLinkConfig(ds, p), p)
<1> DEFINE es == UpsertLinkConfig(ds, p)
<1>1. /\ Links(es) # {} /\ Target(ds) \in Document
      /\ es[FirstLink(es)] = SetLinkConfigAddress(Target(ds), p)
  BY UpsertShape
<1>2. ~Changed(es[FirstLink(es)], p)
  BY <1>1, SetKeeps
<1> HIDE DEF es
<1>3. QED
  BY <1>1, <1>2 DEF UpsertKeeps, es

\* What goes into the document does so for the prefixes as well; entries that
\* are none stay.
LEMMA AddressesUpserted ==
  ASSUME NEW entries \in SUBSET (Prefix \cup Foreign), NEW p \in Prefix
  PROVE  /\ WithAddress(entries, p) \ Foreign = Upsert(entries \ Foreign, p)
         /\ entries \cap Foreign \subseteq WithAddress(entries, p)
<1>1. p \notin Foreign
  BY LinkConfigAssumption
<1>2. QED
  BY <1>1 DEF WithAddress, Replaced, Upsert

\* Seen from the machine, the upsert is that of the reconciler's model.
LEMMA PrefixesUpserted ==
  ASSUME NEW ds \in Seq(Document), NEW p \in Prefix
  PROVE  Prefixes(UpsertLinkConfig(ds, p)) = Upsert(Prefixes(ds), p)
<1> DEFINE es == UpsertLinkConfig(ds, p)
           d == Target(ds)
<1>1. /\ Links(es) # {} /\ d \in Document
      /\ es[FirstLink(es)] = SetLinkConfigAddress(d, p)
  BY UpsertShape
<1>2. Prefixes(ds) = d.addresses \ Foreign
  BY DEF Prefixes, Target, NewDocument
<1> HIDE DEF d, es
<1>3. Prefixes(es) = WithAddress(d.addresses, p) \ Foreign
  BY <1>1 DEF Prefixes, SetLinkConfigAddress, Document
<1>4. d.addresses \in SUBSET (Prefix \cup Foreign)
  BY <1>1 DEF Document
<1>5. QED
  BY <1>2, <1>3, <1>4, AddressesUpserted DEF es

\* Data is published when the address is known, and written at most once.
DataInv ==
  /\ writes \in {0, 1}
  /\ docs # None => pc = "done" /\ Desired \in Prefix
  /\ docs # None /\ writes = 0 => docs \in Seq(Document)
  /\ writes = 1 => docs # None /\ UpsertKeeps(docs, Desired)

\* So is published data, and what is to be written is a prefix.
LEMMA PublishedType ==
  ASSUME input \in Inputs, result \in IPv4
  PROVE  Desired \in Prefix /\ Published \subseteq Seq(Document)
<1>1. input.subnet.network \in IPv4 /\ input.subnet.size \in 1 .. Space
  BY InputFields DEF SubnetType
<1>2. 1 \in 1 .. Space
  BY SpaceAssumption
<1>3. Desired \in Prefix /\ Beside \in Prefix /\ Longer \in Prefix
  BY <1>1, <1>2 DEF Desired, Beside, Longer, Prefix
<1>4. NewDocument \in Document
  BY DEF NewDocument, Document
<1>5. \A name \in {Interface, "other"}, up \in {"unset", "true", "false"} :
        \A entries \in SUBSET (Prefix \cup Foreign) : Link(name, up, entries) \in Document
  BY <1>4 DEF Link, Document
<1>6. \A d \in Document : /\ [d EXCEPT !.readable = FALSE] \in Document
                           /\ [d EXCEPT !.valid = FALSE] \in Document
                           /\ [d EXCEPT !.current = FALSE] \in Document
  BY DEF Document
<1>7. ASSUME NEW ds \in Published PROVE ds \in Seq(Document)
  <2>1. /\ Link("other", "unset", {Beside}) \in Document
        /\ Link("other", "true", {}) \in Document
        /\ Link(Interface, "false", {}) \in Document
        /\ Link(Interface, "false", {Desired}) \in Document
        /\ Link(Interface, "unset", {Desired} \cup Foreign) \in Document
        /\ Link(Interface, "false", {Beside, Longer} \cup Foreign) \in Document
        /\ Link(Interface, "false", {Beside}) \in Document
    BY <1>3, <1>5
  <2>2. /\ [NewDocument EXCEPT !.readable = FALSE] \in Document
        /\ [Link(Interface, "false", {}) EXCEPT !.valid = FALSE] \in Document
        /\ [Link(Interface, "false", {Desired}) EXCEPT !.current = FALSE] \in Document
    BY <1>4, <1>6, <2>1
  <2>3. \A d \in Document : <<d>> \in Seq(Document)
    OBVIOUS
  <2>4. \A d, e \in Document : <<d, e>> \in Seq(Document)
    OBVIOUS
  <2> HIDE DEF Document
  <2>5. \/ ds = <<NewDocument>>
        \/ ds = <<[NewDocument EXCEPT !.readable = FALSE]>>
        \/ ds = <<NewDocument, Link("other", "unset", {Beside})>>
        \/ ds = <<[Link(Interface, "false", {}) EXCEPT !.valid = FALSE],
                  Link(Interface, "false", {})>>
        \/ ds = <<[Link(Interface, "false", {Desired}) EXCEPT !.current = FALSE], NewDocument>>
        \/ ds = <<Link("other", "true", {}), Link(Interface, "unset", {Desired} \cup Foreign)>>
        \/ ds = <<Link(Interface, "false", {Beside, Longer} \cup Foreign),
                  Link(Interface, "false", {Beside})>>
    BY Zenon DEF Published
  <2>6. QED
    BY <1>4, <2>1, <2>2, <2>3, <2>4, <2>5, Zenon
<1>8. QED
  BY <1>3, <1>7

\* At first there is no data.
LEMMA DataInit == AddressingInit => LoopInv /\ DataInv
<1>1. 0 \in IPv4
  BY SpaceAssumption DEF IPv4
<1>2. QED
  BY <1>1 DEF AddressingInit, Init, LoopInv, LoopIsFirstFit, DataInv

\* Whatever the step, data is written once, and stays.
LEMMA DataStep ==
  ASSUME LoopInv, DataInv, [AddressingNext]_addressingVars
  PROVE  LoopInv' /\ DataInv'
<1>1. [Next]_vars
  BY DEF AddressingNext, addressingVars, PublishData, WriteData
<1>2. LoopInv'
  BY <1>1, LoopStep
<1>3. CASE Next /\ UNCHANGED dataVars
  <2>1. docs = None => DataInv'
    BY <1>3 DEF DataInv, dataVars
  <2>2. pc # "done"
    BY <1>3 DEF Next, Reject, Parse, Skip, Take, Exhaust
  <2>3. QED
    BY <1>2, <2>1, <2>2 DEF DataInv
<1>4. CASE PublishData
  <2>1. input \in Inputs /\ result \in IPv4
    BY <1>4 DEF LoopInv, PublishData
  <2>2. /\ UNCHANGED <<input, result, pc, writes>> /\ docs' \in Published
        /\ pc = "done" /\ docs = None
    BY <1>4 DEF PublishData, vars
  <2>3. Desired' = Desired
    BY <2>2 DEF Desired
  <2>4. writes = 0
    BY <2>2 DEF DataInv
  <2>5. docs' \in Seq(Document) /\ Desired \in Prefix
    BY <2>1, <2>2, PublishedType
  <2>6. QED
    BY <1>2, <2>2, <2>3, <2>4, <2>5 DEF DataInv
<1>5. CASE WriteData
  <2>1. /\ UNCHANGED <<input, result, pc>> /\ docs # None
        /\ ~UpsertKeeps(docs, Desired) /\ writes' = writes + 1
        /\ docs' = UpsertLinkConfig(docs, Desired)
    BY <1>5 DEF WriteData, vars
  <2>2. /\ writes = 0 /\ docs \in Seq(Document) /\ Desired \in Prefix /\ pc = "done"
    BY <2>1 DEF DataInv
  <2>3. Desired' = Desired
    BY <2>1 DEF Desired
  <2>4. UpsertKeeps(docs', Desired')
    BY <2>1, <2>2, <2>3, UpsertSettles
  <2>5. docs' # None
    BY <2>1, <2>2, UpsertType, LinkConfigAssumption
  <2>6. QED
    BY <1>2, <2>1, <2>2, <2>3, <2>4, <2>5 DEF DataInv
<1>6. CASE UNCHANGED addressingVars
  BY <1>2, <1>6 DEF addressingVars, vars, dataVars, DataInv, Desired
<1>7. QED
  BY <1>3, <1>4, <1>5, <1>6 DEF AddressingNext

\* The bootstrap data of a machine is written at most once for an address: the
\* upsert is idempotent, whatever else the data holds.
THEOREM DataWrittenOnce == AddressingSpec => []WrittenOnce
<1>1. LoopInv /\ DataInv /\ [AddressingNext]_addressingVars => LoopInv' /\ DataInv'
  BY DataStep
<1>2. DataInv => WrittenOnce
  BY DEF DataInv, WrittenOnce
<1>3. QED
  BY <1>1, <1>2, DataInit, PTL DEF AddressingSpec

\* The data is as published, or what one upsert has made of it.
GivenInv ==
  /\ docs # None => given \in Seq(Document)
  /\ writes = 0 => docs = given
  /\ writes = 1 => docs = UpsertLinkConfig(given, Desired)

\* That this is so needs what is known of the loop and of the writes.
LEMMA DataKept == AddressingSpec => [](LoopInv /\ DataInv /\ GivenInv)
<1>1. AddressingInit => LoopInv /\ DataInv /\ GivenInv
  BY DataInit DEF AddressingInit, GivenInv
<1>2. LoopInv /\ DataInv /\ GivenInv /\ [AddressingNext]_addressingVars
        => LoopInv' /\ DataInv' /\ GivenInv'
  <2> SUFFICES ASSUME LoopInv, DataInv, GivenInv, [AddressingNext]_addressingVars
               PROVE  LoopInv' /\ DataInv' /\ GivenInv'
    OBVIOUS
  <2>1. LoopInv' /\ DataInv'
    BY DataStep
  <2>2. CASE Next /\ UNCHANGED dataVars
    <3>1. pc # "done"
      BY <2>2 DEF Next, Reject, Parse, Skip, Take, Exhaust
    <3>2. docs = None /\ UNCHANGED <<docs, given, writes>>
      BY <2>2, <3>1 DEF DataInv, dataVars
    <3>3. QED
      BY <2>1, <3>2 DEF GivenInv, DataInv
  <2>3. CASE PublishData
    <3>1. input \in Inputs /\ result \in IPv4
      BY <2>3 DEF LoopInv, PublishData
    <3>2. docs = None /\ given' \in Published /\ docs' = given' /\ writes' = writes
      BY <2>3 DEF PublishData
    <3>3. given' \in Seq(Document)
      BY <3>1, <3>2, PublishedType
    <3>4. writes = 0
      BY <3>2 DEF DataInv
    <3>5. QED
      BY <2>1, <3>2, <3>3, <3>4 DEF GivenInv
  <2>4. CASE WriteData
    <3>1. /\ UNCHANGED <<input, result, given>> /\ docs # None
          /\ ~UpsertKeeps(docs, Desired) /\ writes' = writes + 1
          /\ docs' = UpsertLinkConfig(docs, Desired)
      BY <2>4 DEF WriteData, vars
    <3>2. writes = 0 /\ docs = given /\ given \in Seq(Document)
      BY <3>1 DEF DataInv, GivenInv
    <3>3. Desired' = Desired
      BY <3>1 DEF Desired
    <3>4. QED
      BY <2>1, <3>1, <3>2, <3>3 DEF GivenInv
  <2>5. CASE UNCHANGED addressingVars
    BY <2>1, <2>5 DEF addressingVars, vars, dataVars, GivenInv, Desired
  <2>6. QED
    BY <2>2, <2>3, <2>4, <2>5 DEF AddressingNext
<1>3. QED
  BY <1>1, <1>2, PTL DEF AddressingSpec

\* What has been written has been written once, to what was published.
LEMMA WrittenToGiven ==
  ASSUME DataInv, GivenInv, writes > 0
  PROVE  given \in Seq(Document) /\ Desired \in Prefix /\ docs = UpsertLinkConfig(given, Desired)
<1>1. writes = 1
  BY DEF DataInv
<1>2. QED
  BY <1>1 DEF DataInv, GivenInv

\* The machine's prefixes are what MachineIP says of them, whatever documents,
\* and other LinkConfigs of the interface among them, the data consists of.
THEOREM DataIsUpserted == AddressingSpec => []DataIsUpsert
<1>1. DataInv /\ GivenInv => DataIsUpsert
  BY WrittenToGiven, PrefixesUpserted DEF DataIsUpsert
<1>2. QED
  BY <1>1, DataKept, PTL

\* Users' documents, entries and settings outlive the write.
THEOREM RestIsKept == AddressingSpec => []RestKept
<1>1. DataInv /\ GivenInv => RestKept
  <2> SUFFICES ASSUME DataInv, GivenInv, writes > 0, NEW i \in DOMAIN given
               PROVE  \/ docs[i] = given[i]
                      \/ /\ i = FirstLink(given)
                         /\ docs[i].link = Interface
                         /\ given[i].addresses \cap Foreign \subseteq docs[i].addresses
                         /\ given[i].up = "unset" \/ docs[i].up = given[i].up
    BY DEF RestKept
  <2>1. given \in Seq(Document) /\ Desired \in Prefix /\ docs = UpsertLinkConfig(given, Desired)
    BY WrittenToGiven
  <2>2. CASE i # FirstLink(docs)
    BY <2>1, <2>2, UpsertShape
  <2>3. CASE i = FirstLink(docs)
    <3>1. /\ Links(given) # {} /\ i = FirstLink(given)
          /\ docs[i] = SetLinkConfigAddress(Target(given), Desired)
      BY <2>1, <2>3, UpsertShape
    <3>2. given[i] \in Document /\ docs[i] = SetLinkConfigAddress(given[i], Desired)
      BY <2>1, <3>1 DEF Target
    <3>3. /\ docs[i].link = Interface /\ docs[i].up = Up(given[i].up)
          /\ docs[i].addresses = WithAddress(given[i].addresses, Desired)
      BY <3>2 DEF SetLinkConfigAddress, Document
    <3>4. given[i].addresses \in SUBSET (Prefix \cup Foreign)
      BY <3>2 DEF Document
    <3>5. given[i].addresses \cap Foreign \subseteq docs[i].addresses
      <4>1. given[i].addresses \cap Foreign \subseteq WithAddress(given[i].addresses, Desired)
        BY <2>1, <3>4, AddressesUpserted, Zenon
      <4>2. QED
        BY <3>3, <4>1
    <3>6. QED
      BY <3>1, <3>3, <3>5 DEF Up
  <2>4. QED
    BY <2>2, <2>3
<1>2. QED
  BY <1>1, DataKept, PTL
=============================================================================
