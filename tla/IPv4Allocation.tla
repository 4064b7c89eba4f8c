--------------------------- MODULE IPv4Allocation ---------------------------
(***************************************************************************)
(* One address allocation, step by step: newIPv4Range divides the subnet,  *)
(* then the loop of nextAvailableIP counts through the pool of the role    *)
(* with a uint32 counter.  The initial states are all the inputs.          *)
(***************************************************************************)
EXTENDS IPv4Range

CONSTANTS
  Sizes,    \* of subnets: powers of two in the program
  Reserves  \* the control-plane reserves given to newIPv4Range

ASSUME ReservesAssumption == Sizes \subseteq Nat \ {0} /\ Reserves \subseteq Nat

VARIABLES
  input,   \* the subnet, the reserve, the role and the addresses in use
  pc,
  range,   \* what newIPv4Range returned
  v,       \* the loop counter
  result   \* the address allocated, None when none is

vars == <<input, pc, range, v, result>>

Inputs == {i \in [subnet : SubnetType, reserved : Reserves,
                  controlPlane : BOOLEAN, inUse : SUBSET IPv4] :
             IsSubnet(i.subnet) /\ i.subnet.size \in Sizes}

Init == /\ input \in Inputs
        /\ pc = "parse"
        /\ range = None
        /\ v = 0
        /\ result = None

First(r) == IF input.controlPlane THEN r.cpStart ELSE r.workerStart
Last(r)  == IF input.controlPlane THEN r.cpEnd ELSE r.workerEnd

\* Fault: the loop leaves the last address of the pool out.
PastEndTooEarly(n, r) == n >= Last(r)

PastEnd(n, r) == n > Last(r)

\* Fault: the counter does not move past an address in use.
SuccessorStuck(n) == Wrap(n)

Successor(n) == Wrap(n + 1)

Reject == /\ pc = "parse"
          /\ NewIPv4Range(input.subnet, input.reserved) = None
          /\ pc' = "rejected"
          /\ UNCHANGED <<input, range, v, result>>

Parse == /\ pc = "parse"
         /\ range' = NewIPv4Range(input.subnet, input.reserved)
         /\ range' # None
         /\ v' = First(range')
         /\ pc' = "scan"
         /\ UNCHANGED <<input, result>>

Skip == /\ pc = "scan"
        /\ ~PastEnd(v, range)
        /\ v \in input.inUse
        /\ v' = Successor(v)
        /\ UNCHANGED <<input, pc, range, result>>

Take == /\ pc = "scan"
        /\ ~PastEnd(v, range)
        /\ v \notin input.inUse
        /\ result' = v
        /\ pc' = "done"
        /\ UNCHANGED <<input, range, v>>

Exhaust == /\ pc = "scan"
           /\ PastEnd(v, range)
           /\ pc' = "done"
           /\ UNCHANGED <<input, range, v, result>>

Next == Reject \/ Parse \/ Skip \/ Take \/ Exhaust
-----------------------------------------------------------------------------
\* The borders of the subnet are computed without wrapping.
NoWrap == input.subnet.network + AtLeastOne(input.reserved) + 2 < Space

\* Network, gateway, the reserve, one worker and broadcast.
Needed == AtLeastOne(input.reserved) + 4

\* While no border wraps, newIPv4Range accepts exactly the subnets that can
\* hold the reserve and a worker, and divides them so that the network and
\* gateway addresses, the two pools and broadcast never overlap.
SubnetDivided ==
  NoWrap /\ pc # "parse" =>
    /\ (pc = "rejected") = (input.subnet.size < Needed)
    /\ range # None =>
         /\ Pool(range, TRUE) \cap Pool(range, FALSE) = {}
         /\ Cardinality(Pool(range, TRUE)) = AtLeastOne(input.reserved)
         /\ Pool(range, TRUE) \cup Pool(range, FALSE) =
              (input.subnet.network + 2) .. (input.subnet.network + input.subnet.size - 2)

\* The counting loop of nextAvailableIP returns what first fit over the pool of
\* the role returns, None when every address of the pool is in use.
LoopIsFirstFit ==
  NoWrap /\ pc = "done" => result = NextAvailableIP(input.controlPlane, input.inUse, range)

\* The loop ends: its counter passes the end of the pool although it is
\* unsigned, unless a wrapped border put that end at the last address.
AllocationEnds == NoWrap ~> pc \in {"rejected", "done"}
=============================================================================
