------------------------ MODULE MCSnapshotDelivery ------------------------
(***************************************************************************)
(* SnapshotDelivery for TLC: one gateway, pools with room for every        *)
(* device, a short outbox and a bounded number of faults.                  *)
(***************************************************************************)
EXTENDS SnapshotDelivery, TLC

MCGatewayRegion == [g \in Gateways |-> CHOOSE r \in Regions : TRUE]
MCCapacity == [g \in Gateways |-> Cardinality(Devices)]
MCPool4 == [r \in Regions |-> [family |-> "ipv4", size |-> 5]]
MCPool6 == [r \in Regions |-> [family |-> "ipv6", size |-> 6]]

Symmetry == Permutations(Slots)
=============================================================================
