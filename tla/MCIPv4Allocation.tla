-------------------------- MODULE MCIPv4Allocation --------------------------
(***************************************************************************)
(* Three-bit addresses: every aligned subnet, every set of addresses in    *)
(* use, reserves from none to beyond the space.                            *)
(***************************************************************************)
EXTENDS Addressing

CONSTANTS eth1, v6

MCSizes == {1, 2, 4, 8}
MCReserves == 0 .. 4
=============================================================================
