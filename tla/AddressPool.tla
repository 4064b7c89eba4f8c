---------------------------- MODULE AddressPool ----------------------------
(***************************************************************************)
(* What the machine IP reconciler promises the machines of a cluster: an   *)
(* address pool.  A machine without a lease may acquire an address nobody  *)
(* leases; from then on the lease does not change, and it ends only after  *)
(* its owner has gone.                                                     *)
(***************************************************************************)
CONSTANTS Machines, Addresses, None

VARIABLES
  lease,  \* the address of each machine, None without one
  owned   \* the machines whose lease belongs to a machine that exists

vars == <<lease, owned>>

TypeOK == /\ lease \in [Machines -> Addresses \cup {None}]
          /\ owned \subseteq Machines

Init == /\ lease = [m \in Machines |-> None]
        /\ owned = {}

Own(m) == /\ owned' = owned \cup {m}
          /\ UNCHANGED lease

Disown(m) == /\ owned' = owned \ {m}
             /\ UNCHANGED lease

Acquire(m, a) == /\ lease[m] = None
                 /\ \A n \in Machines : lease[n] # a
                 /\ lease' = [lease EXCEPT ![m] = a]
                 /\ UNCHANGED owned

Release(m) == /\ m \notin owned
              /\ lease' = [lease EXCEPT ![m] = None]
              /\ UNCHANGED owned

Next == \E m \in Machines : \/ Own(m)
                            \/ Disown(m)
                            \/ Release(m)
                            \/ \E a \in Addresses : Acquire(m, a)

Spec == Init /\ [][Next]_vars

\* No address is leased twice.
Exclusive == \A m, n \in Machines :
               m # n /\ lease[m] = lease[n] => lease[m] = None
=============================================================================
