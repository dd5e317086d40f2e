----------------------- MODULE MCStoreTransactions -----------------------
(***************************************************************************)
(* StoreTransactions for TLC: two transactions at a time, three devices,   *)
(* two gateways of capacity 1 in a region, addresses for every device.     *)
(***************************************************************************)
EXTENDS StoreTransactions, TLC

CONSTANTS d1, k1, k2

MCGatewayRegion == [g \in Gateways |-> CHOOSE r \in Regions : TRUE]
MCCapacity == [g \in Gateways |-> 1]
MCPool4 == [r \in Regions |-> [family |-> "ipv4", size |-> 6]]
MCPool6 == [r \in Regions |-> [family |-> "ipv6", size |-> 6]]

MCKeysOf == [d \in Devices |-> IF d = d1 THEN {k1, k2} ELSE {k1}]

Symmetry == Permutations(Devices \ {d1}) \cup Permutations(Slots)
                \cup Permutations(Handlers) \cup Permutations(Gateways)
=============================================================================
