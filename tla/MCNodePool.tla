---------------------------- MODULE MCNodePool -----------------------------
(* One pool of control plane nodes and one of workers; a cluster waiting   *)
(* for its endpoint, clusters with and without an installer of their own,  *)
(* and clusters whose settings do not parse.                               *)
EXTENDS NodePool

CONSTANTS cp, workers, image1, image2, plain, changed

Cluster(endpoint, installer, shared, own, storage) ==
  [endpoint |-> endpoint, installer |-> installer, shared |-> shared,
   own |-> own, storage |-> storage]

Pending   == Cluster(FALSE, None, plain, plain, plain)
Plain     == Cluster(TRUE, None, plain, plain, plain)
Custom    == Cluster(TRUE, image1, plain, changed, plain)
Malformed == Cluster(TRUE, Bad, Bad, plain, plain)
Mistaken  == Cluster(TRUE, image2, plain, Bad, changed)

MCClusters == {Pending, Plain, Custom, Malformed, Mistaken}

MCPools == {cp, workers}

OnePool == {cp}

MCControlPools == {cp}

MCTaints == {None, Bad}
=============================================================================
