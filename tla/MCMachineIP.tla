---------------------------- MODULE MCMachineIP ----------------------------
(***************************************************************************)
(* Instances of MachineIP: two workers, or one control-plane machine, of a *)
(* cluster with three-bit or four-bit addresses.                           *)
(***************************************************************************)
EXTENDS MachineIP, TLC

CONSTANTS cp1, w1, w2

\* Without a control-plane machine no definition tells the workers apart.
WorkersAlike == Permutations({w1, w2})

Low  == [network |-> 0, size |-> 8]
High == [network |-> 8, size |-> 8]

\* With three replicas the reserve leaves the workers a single address.
Scaling == {[subnet |-> Low, replicas |-> r] : r \in {1, 3}}

\* A cluster moved to another subnet.
Moving == {[subnet |-> s, replicas |-> 1] : s \in {Low, High}}

\* The external subnet is not set, or the control plane not there yet.
Appearing == {[subnet |-> Low, replicas |-> 2],
              [subnet |-> None, replicas |-> 2],
              [subnet |-> Low, replicas |-> 0]}
=============================================================================
